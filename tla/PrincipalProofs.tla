--------------------------- MODULE PrincipalProofs ---------------------------
(***************************************************************************)
(* What principalFromAllows derives, proved for subjects of any length,    *)
(* lists of any length, and any root that ends in the siclient segment.    *)
(***************************************************************************)
EXTENDS MCPrincipal, Extremes, TLAPS

---------------------------------------------------------------------------
(* The two tests, index by index.                                          *)

\* strings.HasPrefix(subj, root + ".").
LEMMA RootTest ==
  ASSUME NEW T, NEW subj \in Seq(T), NEW rt \in Seq(T)
  PROVE  HasRoot(subj, rt) <=>
           Len(subj) > Len(rt) /\ \A i \in 1..Len(rt) : subj[i] = rt[i]
<1>1. /\ Len(subj) \in Nat /\ Len(rt) \in Nat
      /\ SubSeq(rt, 1, Len(rt)) = [i \in 1..Len(rt) |-> rt[i]]
  OBVIOUS
<1>2. ASSUME Len(subj) > Len(rt)
      PROVE  SubSeq(subj, 1, Len(rt)) = [i \in 1..Len(rt) |-> subj[i]]
  BY <1>1, <1>2
<1>3. Len(subj) > Len(rt) => Len(rt) <= Len(subj)
  BY <1>1
<1> QED BY <1>1, <1>2, <1>3 DEF HasRoot, IsPrefix

\* strings.HasSuffix(subj, ".sign.record").
LEMMA SuffixTest ==
  ASSUME NEW T, NEW subj \in Seq(T)
  PROVE  HasSuffix(subj) <=>
           /\ Len(subj) > 2
           /\ subj[Len(subj)] = "record" /\ subj[Len(subj) - 1] = "sign"
<1> DEFINE n == Len(subj)
           back == [i \in 1..n |-> subj[n - i + 1]]
           ends == [i \in 1..2 |-> SignRecord[2 - i + 1]]
<1>1. n \in Nat /\ SignRecord = <<"sign", "record">> /\ Len(SignRecord) = 2
  BY DEF SignRecord
<1>2. Reverse(subj) = back /\ Reverse(SignRecord) = ends
  BY <1>1 DEF Reverse
<1>3. /\ ends[1] = "record" /\ ends[2] = "sign" /\ Len(ends) = 2
      /\ SubSeq(ends, 1, 2) = ends
  BY <1>1
<1>4. Len(back) = n
  BY <1>1
<1>5. ASSUME n > 2
      PROVE  /\ SubSeq(back, 1, 2) = [i \in 1..2 |-> back[i]]
             /\ back[1] = subj[n] /\ back[2] = subj[n - 1]
  BY <1>1, <1>5
<1>6. HasSuffix(subj) <=>
        n > 2 /\ Len(ends) <= Len(back) /\ SubSeq(ends, 1, 2) = SubSeq(back, 1, 2)
  BY <1>1, <1>2, <1>3, Zenon DEF HasSuffix, IsSuffix, IsPrefix
<1> HIDE DEF back
<1>7. ASSUME n > 2
      PROVE  ends = SubSeq(back, 1, 2) <=> subj[n] = "record" /\ subj[n - 1] = "sign"
  <2>1. ends = [i \in 1..2 |-> ends[i]]
    OBVIOUS
  <2> HIDE DEF ends
  <2> QED BY <1>3, <1>5, <1>7, <2>1
<1> HIDE DEF ends
<1> QED BY <1>1, <1>3, <1>4, <1>6, <1>7

---------------------------------------------------------------------------
(* What one grant names.                                                   *)

\* A subject is one over more tokens, too.
LEMMA TokensMayBeMore ==
  ASSUME NEW T, NEW U, T \subseteq U, NEW s \in Seq(T) PROVE s \in Seq(U)
<1>1. s = [i \in 1..Len(s) |-> s[i]] /\ Len(s) \in Nat /\ \A i \in 1..Len(s) : s[i] \in U
  OBVIOUS
<1> QED BY <1>1

\* Two sequences, one after the other.
LEMMA Joined ==
  ASSUME NEW T, NEW s \in Seq(T), NEW t \in Seq(T)
  PROVE  /\ s \o t \in Seq(T) /\ Len(s \o t) = Len(s) + Len(t)
         /\ \A i \in 1..Len(s) : (s \o t)[i] = s[i]
         /\ \A i \in 1..Len(t) : (s \o t)[Len(s) + i] = t[i]
OBVIOUS

\* Sequences are their elements.
LEMMA SameTokens ==
  ASSUME NEW T, NEW U, NEW s \in Seq(T), NEW t \in Seq(U), Len(s) = Len(t),
         \A i \in 1..Len(s) : s[i] = t[i]
  PROVE  s = t
<1>1. s = [i \in 1..Len(s) |-> s[i]]
  OBVIOUS
<1>2. t = [i \in 1..Len(t) |-> t[i]]
  OBVIOUS
<1>3. [i \in 1..Len(s) |-> s[i]] = [i \in 1..Len(t) |-> t[i]]
  OBVIOUS
<1> QED BY <1>1, <1>2, <1>3, Zenon

\* A part that is there (principal.go:52).
Present(part) == part # ""

\* <root>.<account>.<persona>.sign.record
Grant(rt, p, a) == rt \o <<a, p, "sign", "record">>

\* Such a grant, index by index.
LEMMA GrantIs ==
  ASSUME NEW T, NEW subj \in Seq(T), NEW rt \in Seq(T), NEW p, NEW a
  PROVE  subj = Grant(rt, p, a) <=>
           /\ Len(subj) = Len(rt) + 4
           /\ \A i \in 1..Len(rt) : subj[i] = rt[i]
           /\ subj[Len(rt) + 1] = a /\ subj[Len(rt) + 2] = p
           /\ subj[Len(rt) + 3] = "sign" /\ subj[Len(rt) + 4] = "record"
<1> DEFINE m == Len(rt)
           g == Grant(rt, p, a)
           end == <<a, p, "sign", "record">>
           U == T \cup {a, p, "sign", "record"}
<1>1. m \in Nat /\ Len(subj) \in Nat
  OBVIOUS
<1>2. /\ end \in Seq(U) /\ Len(end) = 4
      /\ end[1] = a /\ end[2] = p /\ end[3] = "sign" /\ end[4] = "record"
  OBVIOUS
<1>3. g = rt \o end
  BY DEF Grant
<1>a. rt \in Seq(U)
  BY TokensMayBeMore
<1> HIDE DEF end, g, U
<1>4. /\ g \in Seq(U) /\ Len(g) = m + Len(end)
      /\ \A i \in 1..m : g[i] = rt[i]
      /\ \A j \in 1..Len(end) : g[m + j] = end[j]
  <2>1. end \in Seq(U)
    BY <1>2
  <2>2. /\ rt \o end \in Seq(U) /\ Len(rt \o end) = Len(rt) + Len(end)
        /\ \A i \in 1..Len(rt) : (rt \o end)[i] = rt[i]
        /\ \A j \in 1..Len(end) : (rt \o end)[Len(rt) + j] = end[j]
    <3>1. \A s \in Seq(U), t \in Seq(U) :
            /\ s \o t \in Seq(U) /\ Len(s \o t) = Len(s) + Len(t)
            /\ \A i \in 1..Len(s) : (s \o t)[i] = s[i]
            /\ \A i \in 1..Len(t) : (s \o t)[Len(s) + i] = t[i]
      BY Joined
    <3> QED BY <1>a, <2>1, <3>1, Zenon
  <2> QED BY <1>3, <2>2, Zenon
<1>5. Len(g) = m + 4 /\ \A j \in 1..4 : g[m + j] = end[j]
  BY <1>2, <1>4
<1>7. /\ g[m + 1] = a /\ g[m + 2] = p /\ g[m + 3] = "sign" /\ g[m + 4] = "record"
  BY <1>2, <1>5
<1>8. ASSUME Len(subj) = m + 4, \A i \in 1..m : subj[i] = rt[i],
             subj[m + 1] = a, subj[m + 2] = p, subj[m + 3] = "sign", subj[m + 4] = "record"
      PROVE  subj = g
  <2>1. \A i \in 1..(m + 4) : i \in 1..m \/ i = m + 1 \/ i = m + 2 \/ i = m + 3 \/ i = m + 4
    BY <1>1
  <2>2. \A i \in 1..(m + 4) : subj[i] = g[i]
    BY <1>4, <1>7, <1>8, <2>1
  <2>3. g \in Seq(U) /\ Len(subj) = Len(g)
    BY <1>4, <1>5, <1>8
  <2>4. \A i \in 1..Len(subj) : subj[i] = g[i]
    BY <1>8, <2>2
  <2> QED BY <2>3, <2>4, SameTokens
<1> QED BY <1>4, <1>5, <1>7, <1>8 DEF g

\* The three answers are told apart.
LEMMA AnswersDiffer ==
  /\ None # Panic
  /\ \A p, a : Some(p, a) # None /\ Some(p, a) # Panic
<1>1. None.ok = "no" /\ Panic.ok = "panic"
  BY DEF None, Panic
<1>2. \A p, a : Some(p, a).ok = "yes"
  BY DEF Some
<1> QED BY <1>1, <1>2

\* An answer has its parts.
LEMMA PartsOfSome ==
  ASSUME NEW p, NEW a
  PROVE  Some(p, a).persona = p /\ Some(p, a).account = a
BY DEF Some

\* The parts between root and suffix, or the crossed slice.
LEMMA GrantNamesIs ==
  ASSUME NEW T, NEW subj \in Seq(T), NEW rt \in Seq(T)
  PROVE  LET m == Len(rt)
             n == Len(subj)
             tested == HasRoot(subj, rt) /\ HasSuffix(subj)
             named  == n = m + 4 /\ subj[m + 1] # "" /\ subj[m + 2] # ""
         IN  /\ tested /\ n <= m + 2 => GrantNames(subj, rt) = Panic
             /\ tested /\ named => GrantNames(subj, rt) = Some(subj[m + 2], subj[m + 1])
             /\ ~tested \/ (n > m + 2 /\ ~named) => GrantNames(subj, rt) = None
<1> DEFINE m == Len(rt)
           n == Len(subj)
           parts == SubSeq(subj, m + 1, n - 2)
<1>1. m \in Nat /\ n \in Nat /\ Len(SignRecord) = 2
  BY DEF SignRecord
<1>2. Named(subj, rt) = IF n <= m + 2 THEN Panic
                        ELSE IF Len(parts) # 2 \/ parts[1] = "" \/ parts[2] = "" THEN None
                        ELSE Some(parts[2], parts[1])
  BY <1>1 DEF Named
<1>3. ASSUME n > m + 2 PROVE Len(parts) = n - 2 - m
  BY <1>1, <1>3
<1>4. ASSUME n = m + 4 PROVE parts[1] = subj[m + 1] /\ parts[2] = subj[m + 2]
  BY <1>1, <1>4
<1> HIDE DEF parts
<1>5. ASSUME n > m + 2 PROVE Len(parts) = 2 <=> n = m + 4
  <2>1. Len(parts) = n - 2 - m
    BY <1>3, <1>5
  <2> QED BY <1>1, <1>5, <2>1
<1>6. n <= m + 2 \/ n > m + 2
  BY <1>1
<1>7. ~(n <= m + 2 /\ n > m + 2) /\ ~(n <= m + 2 /\ n = m + 4)
  BY <1>1
<1>8. GrantNames(subj, rt) =
        IF HasRoot(subj, rt) /\ HasSuffix(subj) THEN Named(subj, rt) ELSE None
  BY DEF GrantNames
<1> DEFINE tested == HasRoot(subj, rt) /\ HasSuffix(subj)
           named  == n = m + 4 /\ subj[m + 1] # "" /\ subj[m + 2] # ""
<1>9. /\ tested /\ n <= m + 2 => GrantNames(subj, rt) = Panic
      /\ ~tested => GrantNames(subj, rt) = None
  BY <1>2, <1>8
<1>10. ASSUME named, tested PROVE GrantNames(subj, rt) = Some(subj[m + 2], subj[m + 1])
  <2>1. ~(n <= m + 2) /\ n > m + 2
    BY <1>1, <1>6, <1>7, <1>10
  <2>2. Len(parts) = 2 /\ parts[1] # "" /\ parts[2] # ""
    BY <1>4, <1>5, <1>10, <2>1
  <2> QED BY <1>2, <1>4, <1>8, <1>10, <2>1, <2>2, Zenon
<1>11. ASSUME n > m + 2, ~named, tested PROVE GrantNames(subj, rt) = None
  <2>1. ~(n <= m + 2)
    BY <1>7, <1>11
  <2>2. Len(parts) # 2 \/ parts[1] = "" \/ parts[2] = ""
    BY <1>4, <1>5, <1>11
  <2> QED BY <1>2, <1>8, <1>11, <2>1, <2>2, Zenon
<1> QED BY <1>9, <1>10, <1>11, Zenon

---------------------------------------------------------------------------
(* What a list of grants derives.                                          *)

\* The loop answers for the first grant that it does not skip.
LEMMA FirstNamed ==
  ASSUME NEW T, NEW list \in Seq(Seq(T)), NEW rt \in Seq(T),
         principalFromAllows(list, rt) # None
  PROVE  \E i \in 1..Len(list) :
           /\ list[i] \in Seq(T)
           /\ GrantNames(list[i], rt) = principalFromAllows(list, rt)
           /\ \A j \in 1 .. i - 1 : list[j] \in Seq(T) /\ GrantNames(list[j], rt) = None
<1> DEFINE names == {i \in DOMAIN list : GrantNames(list[i], rt) # None}
<1>1. DOMAIN list = 1..Len(list) /\ Len(list) \in Nat
  OBVIOUS
<1>2. /\ names # {}
      /\ principalFromAllows(list, rt) = GrantNames(list[Min(names)], rt)
  BY DEF principalFromAllows
<1>3. \A i : i \in names <=> i \in 1..Len(list) /\ GrantNames(list[i], rt) # None
  BY <1>1
<1> HIDE DEF names
<1>4. Min(names) \in names /\ \A y \in names : Min(names) <= y
  <2>1. names \in SUBSET Nat
    BY <1>1, <1>3
  <2> QED BY <1>2, <2>1, LeastOf
<1>5. Min(names) \in 1..Len(list)
  BY <1>3, <1>4
<1>6. ASSUME NEW j \in 1 .. Min(names) - 1
      PROVE  j \in 1..Len(list) /\ GrantNames(list[j], rt) = None
  <2>1. j \in 1..Len(list) /\ ~(Min(names) <= j)
    BY <1>1, <1>5
  <2> QED BY <1>3, <1>4, <2>1
<1>7. \A i \in 1..Len(list) : list[i] \in Seq(T)
  BY <1>1
<1> QED BY <1>2, <1>5, <1>6, <1>7

\* A subject that passes both tests, with two parts in between.
LEMMA GrantPasses ==
  ASSUME NEW T, NEW subj \in Seq(T), NEW rt \in Seq(T), NEW p, NEW a
  PROVE  subj = Grant(rt, p, a) <=>
           /\ HasRoot(subj, rt) /\ HasSuffix(subj)
           /\ Len(subj) = Len(rt) + 4
           /\ subj[Len(rt) + 1] = a /\ subj[Len(rt) + 2] = p
<1> DEFINE m == Len(rt)
           n == Len(subj)
<1>1. m \in Nat /\ n \in Nat
  OBVIOUS
<1>2. n = m + 4 => n > m /\ n > 2 /\ n - 1 = m + 3
  BY <1>1
<1>3. HasRoot(subj, rt) <=> n > m /\ \A i \in 1..m : subj[i] = rt[i]
  BY RootTest
<1>4. HasSuffix(subj) <=> n > 2 /\ subj[n] = "record" /\ subj[n - 1] = "sign"
  BY SuffixTest
<1> HIDE DEF m, n
<1>5. subj = Grant(rt, p, a) <=>
        /\ n = m + 4
        /\ \A i \in 1..m : subj[i] = rt[i]
        /\ subj[m + 1] = a /\ subj[m + 2] = p
        /\ subj[m + 3] = "sign" /\ subj[m + 4] = "record"
  BY GrantIs DEF m, n
<1>6. subj = Grant(rt, p, a) <=>
        /\ HasRoot(subj, rt) /\ HasSuffix(subj)
        /\ n = m + 4 /\ subj[m + 1] = a /\ subj[m + 2] = p
  BY <1>2, <1>3, <1>4, <1>5, Zenon
<1> QED BY <1>6 DEF m, n

\* What a subject names: a grant of the form with both parts, these two parts.
LEMMA NamedExactly ==
  ASSUME NEW T, NEW subj \in Seq(T), NEW rt \in Seq(T), NEW p, NEW a
  PROVE  GrantNames(subj, rt) = Some(p, a) <=>
           Present(p) /\ Present(a) /\ subj = Grant(rt, p, a)
<1> DEFINE m == Len(rt)
           n == Len(subj)
           tested == HasRoot(subj, rt) /\ HasSuffix(subj)
           named == n = m + 4 /\ Present(subj[m + 1]) /\ Present(subj[m + 2])
<1>1. n <= m + 2 \/ n > m + 2
  OBVIOUS
<1>2. /\ tested /\ n <= m + 2 => GrantNames(subj, rt) = Panic
      /\ tested /\ named => GrantNames(subj, rt) = Some(subj[m + 2], subj[m + 1])
      /\ ~tested \/ (n > m + 2 /\ ~named) => GrantNames(subj, rt) = None
  BY GrantNamesIs DEF Present
<1>3. subj = Grant(rt, p, a) <=> tested /\ n = m + 4 /\ subj[m + 1] = a /\ subj[m + 2] = p
  BY GrantPasses
<1> HIDE DEF m, n, tested
<1>4. Present(p) /\ Present(a) /\ subj = Grant(rt, p, a) => GrantNames(subj, rt) = Some(p, a)
  BY <1>2, <1>3, Zenon
<1>5. ASSUME GrantNames(subj, rt) = Some(p, a)
      PROVE  Present(p) /\ Present(a) /\ subj = Grant(rt, p, a)
  <2>1. tested /\ named
    BY <1>1, <1>2, <1>5, AnswersDiffer, Zenon
  <2>2. Some(p, a) = Some(subj[m + 2], subj[m + 1])
    BY <1>2, <1>5, <2>1, Zenon
  <2>3. p = subj[m + 2] /\ a = subj[m + 1]
    <3>1. Some(p, a).persona = p /\ Some(p, a).account = a
      BY PartsOfSome
    <3>2. /\ Some(subj[m + 2], subj[m + 1]).persona = subj[m + 2]
          /\ Some(subj[m + 2], subj[m + 1]).account = subj[m + 1]
      BY PartsOfSome
    <3> QED BY <2>2, <3>1, <3>2
  <2> QED BY <1>3, <2>1, <2>3, Zenon
<1> QED BY <1>4, <1>5

\* An answer is one of the three.
LEMMA Answers ==
  ASSUME NEW T, NEW subj \in Seq(T), NEW rt \in Seq(T)
  PROVE  GrantNames(subj, rt) \in {None, Panic} \/ \E p, a : GrantNames(subj, rt) = Some(p, a)
BY Zenon DEF GrantNames, Named

\* Whoever is derived was granted, by the first grant of exactly the form
\* <root>.<account>.<persona>.sign.record, for any list and root
\* (principal.go:42-43).
THEOREM DerivationIsSound ==
  ASSUME NEW T, NEW list \in Seq(Seq(T)), NEW rt \in Seq(T), NEW d,
         d = principalFromAllows(list, rt), d.ok = "yes"
  PROVE  /\ Present(d.persona) /\ Present(d.account)
         /\ \E i \in DOMAIN list :
              /\ list[i] = Grant(rt, d.persona, d.account)
              /\ \A j \in 1 .. i - 1 : \A p, a :
                   Present(p) /\ Present(a) => list[j] # Grant(rt, p, a)
<1>1. d # None
  BY DEF None
<1>2. d # Panic
  BY DEF Panic
<1>3. PICK i \in 1..Len(list) :
        /\ list[i] \in Seq(T) /\ GrantNames(list[i], rt) = d
        /\ \A j \in 1 .. i - 1 : list[j] \in Seq(T) /\ GrantNames(list[j], rt) = None
  BY <1>1, FirstNamed
<1>4. PICK p, a : GrantNames(list[i], rt) = Some(p, a)
  <2>1. \/ GrantNames(list[i], rt) \in {None, Panic}
        \/ \E p, a : GrantNames(list[i], rt) = Some(p, a)
    BY <1>3, Answers, Zenon
  <2> QED BY <1>1, <1>2, <1>3, <2>1, Zenon
<1>5. d.persona = p /\ d.account = a
  <2>1. Some(p, a).persona = p /\ Some(p, a).account = a
    BY PartsOfSome
  <2> QED BY <1>3, <1>4, <2>1
<1>6. Present(p) /\ Present(a) /\ list[i] = Grant(rt, p, a)
  <2>1. list[i] \in Seq(T)
    BY <1>3
  <2> QED BY <1>4, <2>1, NamedExactly
<1>7. ASSUME NEW j \in 1 .. i - 1, NEW q, NEW b
      PROVE  Present(q) /\ Present(b) => list[j] # Grant(rt, q, b)
  <2>1. list[j] \in Seq(T) /\ GrantNames(list[j], rt) # Some(q, b)
    BY <1>3, AnswersDiffer, Zenon
  <2> QED BY <2>1, NamedExactly
<1>8. i \in DOMAIN list
  OBVIOUS
<1>9. /\ Present(d.persona) /\ Present(d.account)
      /\ list[i] = Grant(rt, d.persona, d.account)
  BY <1>5, <1>6
<1> QED BY <1>7, <1>8, <1>9, Zenon

---------------------------------------------------------------------------
(* When the slice bounds cross.                                            *)

\* The only grant that makes the slicing panic under a root that does not
\* end in "sign".
LEMMA OverlapOnly ==
  ASSUME NEW T, NEW subj \in Seq(T), NEW rt \in Seq(T), Len(rt) > 0 => rt[Len(rt)] # "sign",
         GrantNames(subj, rt) = Panic
  PROVE  subj = rt \o SignRecord
<1> DEFINE m == Len(rt)
           n == Len(subj)
           U == T \cup {"sign", "record"}
           whole == rt \o SignRecord
<1>1. m \in Nat /\ n \in Nat
  OBVIOUS
<1>2. HasRoot(subj, rt) /\ HasSuffix(subj) /\ n <= m + 2
  <2>1. n <= m + 2 \/ n > m + 2
    BY <1>1
  <2> QED BY <2>1, GrantNamesIs, AnswersDiffer
<1>3. n > m /\ n > 2 /\ \A i \in 1..m : subj[i] = rt[i]
  BY <1>2, RootTest, SuffixTest
<1>4. subj[n] = "record" /\ subj[n - 1] = "sign"
  BY <1>2, SuffixTest
<1>5. n = m + 2
  <2>1. CASE n = m + 1
    <3>1. n - 1 = m /\ m \in 1..m /\ m > 0
      BY <1>1, <1>3, <2>1
    <3>2. subj[m] = rt[m] /\ subj[m] = "sign"
      BY <1>3, <1>4, <3>1
    <3> QED BY <3>1, <3>2
  <2> QED BY <1>1, <1>2, <1>3, <2>1
<1>6. /\ whole \in Seq(U) /\ Len(whole) = m + 2
      /\ \A i \in 1..m : whole[i] = rt[i]
      /\ whole[m + 1] = "sign" /\ whole[m + 2] = "record"
  <2>1. /\ SignRecord \in Seq(U) /\ Len(SignRecord) = 2
        /\ SignRecord[1] = "sign" /\ SignRecord[2] = "record"
    BY DEF SignRecord
  <2>2. rt \in Seq(U)
    BY TokensMayBeMore
  <2> HIDE DEF U
  <2>3. \A s \in Seq(U), t \in Seq(U) :
          /\ s \o t \in Seq(U) /\ Len(s \o t) = Len(s) + Len(t)
          /\ \A i \in 1..Len(s) : (s \o t)[i] = s[i]
          /\ \A i \in 1..Len(t) : (s \o t)[Len(s) + i] = t[i]
    BY Joined
  <2>4. /\ whole \in Seq(U) /\ Len(whole) = m + Len(SignRecord)
        /\ \A i \in 1..m : whole[i] = rt[i]
        /\ \A i \in 1..Len(SignRecord) : whole[m + i] = SignRecord[i]
    BY <2>1, <2>2, <2>3, Zenon
  <2>5. 1 \in 1..Len(SignRecord) /\ 2 \in 1..Len(SignRecord)
    BY <2>1
  <2> HIDE DEF whole
  <2> QED BY <2>1, <2>4, <2>5
<1> HIDE DEF whole, U
<1>7. \A i \in 1..n : subj[i] = whole[i]
  <2>1. \A i \in 1..n : i \in 1..m \/ i = m + 1 \/ i = m + 2
    BY <1>1, <1>5
  <2>2. subj[m + 1] = "sign" /\ subj[m + 2] = "record"
    BY <1>1, <1>4, <1>5
  <2> QED BY <1>3, <1>6, <2>1, <2>2
<1>8. Len(subj) = Len(whole)
  BY <1>5, <1>6
<1>9. subj = whole
  BY <1>6, <1>7, <1>8, SameTokens
<1> QED BY <1>9 DEF whole

\* Config.root ends in the segment.
LEMMA RootEnds ==
  ASSUME NEW T, Segment[1] \in T, NEW pre \in Seq(T)
  PROVE  /\ root(pre) \in Seq(T) /\ Len(root(pre)) = Len(pre) + 1
         /\ root(pre)[Len(pre) + 1] = Segment[1]
         /\ \A i \in 1..Len(pre) : root(pre)[i] = pre[i]
BY DEF root, Segment

\* principalFromAllows answers for every list but one that has the grant
\* <root>.sign.record, where root and suffix share a dot (principal.go:49).
THEOREM PanicsOnOverlapOnly ==
  ASSUME NEW T, Segment[1] \in T, NEW list \in Seq(Seq(T)), NEW pre \in Seq(T),
         principalFromAllows(list, root(pre)) = Panic
  PROVE  \E i \in DOMAIN list : list[i] = root(pre) \o SignRecord
<1> DEFINE rt == root(pre)
<1>1. rt \in Seq(T) /\ rt[Len(rt)] # "sign"
  BY RootEnds DEF Segment
<1> HIDE DEF rt
<1>2. principalFromAllows(list, rt) # None
  BY AnswersDiffer DEF rt
<1>3. PICK i \in 1..Len(list) :
        list[i] \in Seq(T) /\ GrantNames(list[i], rt) = principalFromAllows(list, rt)
  BY <1>1, <1>2, FirstNamed
<1>4. list[i] = rt \o SignRecord
  BY <1>1, <1>3, OverlapOnly DEF rt
<1>5. i \in DOMAIN list
  OBVIOUS
<1> QED BY <1>4, <1>5 DEF rt

---------------------------------------------------------------------------
(* The scope template.                                                     *)

\* Nothing is derived only when there is nothing to derive it from.
LEMMA NobodyNamed ==
  ASSUME NEW T, NEW list \in Seq(Seq(T)), NEW rt,
         principalFromAllows(list, rt) = None, NEW i \in 1..Len(list)
  PROVE  GrantNames(list[i], rt) = None
<1> DEFINE names == {j \in DOMAIN list : GrantNames(list[j], rt) # None}
<1>1. DOMAIN list = 1..Len(list) /\ Len(list) \in Nat
  OBVIOUS
<1>2. names # {} => principalFromAllows(list, rt) = GrantNames(list[Min(names)], rt)
  BY DEF principalFromAllows
<1>3. \A j : j \in names <=> j \in 1..Len(list) /\ GrantNames(list[j], rt) # None
  BY <1>1
<1> HIDE DEF names
<1>4. names # {} => Min(names) \in names
  <2>1. names \in SUBSET Nat
    BY <1>1, <1>3
  <2> QED BY <2>1, LeastOf
<1> QED BY <1>2, <1>3, <1>4

\* When one grant alone can name anybody, what it names is derived.
LEMMA OneGrantDecides ==
  ASSUME NEW T, NEW list \in Seq(Seq(T)), NEW rt \in Seq(T), NEW k \in 1..Len(list),
         \A i \in 1..Len(list) : i # k => GrantNames(list[i], rt) = None
  PROVE  principalFromAllows(list, rt) = GrantNames(list[k], rt)
<1>1. CASE principalFromAllows(list, rt) = None
  BY <1>1, NobodyNamed
<1>2. CASE principalFromAllows(list, rt) # None
  <2>1. PICK i \in 1..Len(list) :
          GrantNames(list[i], rt) = principalFromAllows(list, rt)
    BY <1>2, FirstNamed
  <2> QED BY <1>2, <2>1
<1> QED BY <1>1, <1>2

\* The tokens that the template brings.
Literals ==
  {"identity", "status", "xkey", "sign", "record", "keys", "public", "SOULSTREAM", ">",
   "$JS", "API", "$KV", "$O", "$SYS", "REQ", "USER", "INFO"}

\* A user's own subject under an account.
Own(account, name, end) == <<"identity", account>> \o name \o end

\* Such a subject, index by index.
LEMMA OwnIs ==
  ASSUME NEW T, Literals \subseteq T, NEW account \in T, NEW name \in Seq(T),
         NEW end \in Seq(T), Len(end) = 2
  PROVE  /\ Own(account, name, end) \in Seq(T)
         /\ Len(Own(account, name, end)) = Len(name) + 4
         /\ Own(account, name, end)[1] = Segment[1]
         /\ Own(account, name, end)[2] = account
         /\ \A i \in 1..Len(name) : Own(account, name, end)[i + 2] = name[i]
         /\ Own(account, name, end)[Len(name) + 3] = end[1]
         /\ Own(account, name, end)[Len(name) + 4] = end[2]
<1> DEFINE own == <<"identity", account>>
           s1 == own \o name
           s == s1 \o end
           n == Len(name)
<1>0. n \in Nat
  OBVIOUS
<1>1. own \in Seq(T) /\ Len(own) = 2 /\ own[1] = "identity" /\ own[2] = account
  BY DEF Literals
<1> HIDE DEF own
<1>2. \A x \in Seq(T), y \in Seq(T) :
        /\ x \o y \in Seq(T) /\ Len(x \o y) = Len(x) + Len(y)
        /\ \A i \in 1..Len(x) : (x \o y)[i] = x[i]
        /\ \A i \in 1..Len(y) : (x \o y)[Len(x) + i] = y[i]
  BY Joined
<1>3. /\ s1 \in Seq(T) /\ Len(s1) = Len(own) + n
      /\ \A i \in 1..Len(own) : s1[i] = own[i]
      /\ \A i \in 1..n : s1[Len(own) + i] = name[i]
  BY <1>1, <1>2, Zenon
<1> HIDE DEF s1
<1>4. /\ s \in Seq(T) /\ Len(s) = Len(s1) + Len(end)
      /\ \A i \in 1..Len(s1) : s[i] = s1[i]
      /\ \A i \in 1..Len(end) : s[Len(s1) + i] = end[i]
  BY <1>2, <1>3, Zenon
<1>5. Own(account, name, end) = s
  BY DEF Own, s1, own
<1> HIDE DEF s
<1>6. Len(s1) = n + 2 /\ Len(s) = n + 4
  BY <1>0, <1>1, <1>3, <1>4
<1>7. s[1] = "identity" /\ s[2] = account
  <2>1. 1 \in 1..Len(s1) /\ 2 \in 1..Len(s1) /\ 1 \in 1..Len(own) /\ 2 \in 1..Len(own)
    BY <1>0, <1>1, <1>6
  <2> QED BY <1>1, <1>3, <1>4, <2>1
<1>8. \A i \in 1..n : s[i + 2] = name[i]
  <2>1. \A i \in 1..n : i + 2 \in 1..Len(s1) /\ i + 2 = Len(own) + i
    BY <1>0, <1>1, <1>6
  <2> QED BY <1>3, <1>4, <2>1
<1>9. s[n + 3] = end[1] /\ s[n + 4] = end[2]
  <2>1. 1 \in 1..Len(end) /\ 2 \in 1..Len(end) /\ n + 3 = Len(s1) + 1 /\ n + 4 = Len(s1) + 2
    BY <1>0, <1>6
  <2> QED BY <1>4, <2>1
<1> QED BY <1>4, <1>5, <1>6, <1>7, <1>8, <1>9 DEF Segment

\* Subjects that are too short, or end in something else.
LEMMA NoSuffix ==
  ASSUME NEW T, NEW a \in T, NEW b \in T, NEW c \in T, NEW d \in T
  PROVE  /\ ~HasSuffix(<<a, b>>)
         /\ c # "record" => ~HasSuffix(<<a, b, c>>)
         /\ d # "record" => ~HasSuffix(<<a, b, c, d>>)
<1>1. ~HasSuffix(<<a, b>>)
  <2> DEFINE s == <<a, b>>
  <2>1. s \in Seq(T) /\ Len(s) = 2
    OBVIOUS
  <2> HIDE DEF s
  <2>2. ~HasSuffix(s)
    BY <2>1, SuffixTest
  <2> QED BY <2>2 DEF s
<1>2. c # "record" => ~HasSuffix(<<a, b, c>>)
  <2> DEFINE s == <<a, b, c>>
  <2>1. s \in Seq(T) /\ Len(s) = 3 /\ s[3] = c
    OBVIOUS
  <2> HIDE DEF s
  <2>2. HasSuffix(s) => s[3] = "record"
    BY <2>1, SuffixTest
  <2> QED BY <2>1, <2>2 DEF s
<1>3. d # "record" => ~HasSuffix(<<a, b, c, d>>)
  <2> DEFINE s == <<a, b, c, d>>
  <2>1. s \in Seq(T) /\ Len(s) = 4 /\ s[4] = d
    OBVIOUS
  <2> HIDE DEF s
  <2>2. HasSuffix(s) => s[4] = "record"
    BY <2>1, SuffixTest
  <2> QED BY <2>1, <2>2 DEF s
<1> QED BY <1>1, <1>2, <1>3

\* All grants of the template but one end differently.
LEMMA OthersEndOtherwise ==
  ASSUME NEW T, Literals \subseteq T, NEW account \in T, NEW name \in Seq(T)
  PROVE  LET list == userScope(account, name)
         IN  /\ list \in Seq(Seq(T)) /\ Len(list) = 9
             /\ list[3] = Own(account, name, SignRecord)
             /\ \A i \in 1..9 : i # 3 => ~HasSuffix(list[i])
<1> DEFINE list == userScope(account, name)
           s3 == Own(account, name, SignRecord)
           s4 == Own(account, name, <<"keys", "public">>)
<1>1. s3 \in Seq(T)
  <2>1. SignRecord \in Seq(T) /\ Len(SignRecord) = 2
    BY DEF SignRecord, Literals
  <2> QED BY <2>1, OwnIs
<1>2. s4 \in Seq(T) /\ ~HasSuffix(s4)
  <2> DEFINE end == <<"keys", "public">>
  <2>1. end \in Seq(T) /\ Len(end) = 2 /\ end[2] = "public"
    BY DEF Literals
  <2> HIDE DEF end
  <2>2. /\ Own(account, name, end) \in Seq(T)
        /\ Len(Own(account, name, end)) = Len(name) + 4
        /\ Own(account, name, end)[Len(name) + 4] = end[2]
    BY <2>1, OwnIs
  <2>3. ~HasSuffix(Own(account, name, end))
    BY <2>1, <2>2, SuffixTest
  <2> QED BY <2>2, <2>3 DEF end
<1>3. list = << <<"identity", "status">>, <<"identity", "xkey">>, s3, s4,
                <<"SOULSTREAM", ">">>, <<"$JS", "API", ">">>, <<"$KV", ">">>,
                <<"$O", ">">>, <<"$SYS", "REQ", "USER", "INFO">> >>
  BY DEF userScope, Own, SignRecord
<1> HIDE DEF s3, s4
<1>4. /\ <<"identity", "status">> \in Seq(T) /\ <<"identity", "xkey">> \in Seq(T)
      /\ <<"SOULSTREAM", ">">> \in Seq(T) /\ <<"$KV", ">">> \in Seq(T)
      /\ <<"$O", ">">> \in Seq(T)
  BY DEF Literals
<1>5. <<"$JS", "API", ">">> \in Seq(T) /\ <<"$SYS", "REQ", "USER", "INFO">> \in Seq(T)
  BY DEF Literals
<1>6. /\ ~HasSuffix(<<"identity", "status">>) /\ ~HasSuffix(<<"identity", "xkey">>)
      /\ ~HasSuffix(<<"SOULSTREAM", ">">>) /\ ~HasSuffix(<<"$KV", ">">>)
      /\ ~HasSuffix(<<"$O", ">">>)
  BY NoSuffix DEF Literals
<1>7. ~HasSuffix(<<"$JS", "API", ">">>) /\ ~HasSuffix(<<"$SYS", "REQ", "USER", "INFO">>)
  BY NoSuffix DEF Literals
<1>8. list \in Seq(Seq(T)) /\ Len(list) = 9
  BY <1>1, <1>2, <1>3, <1>4, <1>5
<1>9. /\ list[1] = <<"identity", "status">> /\ list[2] = <<"identity", "xkey">>
      /\ list[3] = s3 /\ list[4] = s4 /\ list[5] = <<"SOULSTREAM", ">">>
      /\ list[6] = <<"$JS", "API", ">">> /\ list[7] = <<"$KV", ">">>
      /\ list[8] = <<"$O", ">">> /\ list[9] = <<"$SYS", "REQ", "USER", "INFO">>
  BY <1>3
<1> HIDE DEF list
<1>10. \A i \in 1..9 : i # 3 => i \in {1, 2, 4, 5, 6, 7, 8, 9}
  OBVIOUS
<1>11. \A i \in 1..9 : i # 3 => ~HasSuffix(list[i])
  BY <1>2, <1>6, <1>7, <1>9, <1>10
<1> QED BY <1>8, <1>9, <1>11 DEF list, s3

\* The tokens of root and suffix.
LEMMA EndsAreTokens ==
  ASSUME NEW T, Literals \subseteq T
  PROVE  Segment[1] \in T /\ SignRecord \in Seq(T) /\ Len(SignRecord) = 2
BY DEF Literals, Segment, SignRecord

\* The one that may name somebody.
LEMMA OwnHasSuffix ==
  ASSUME NEW T, Literals \subseteq T, NEW account \in T, NEW name \in Seq(T)
  PROVE  HasSuffix(Own(account, name, SignRecord))
<1> DEFINE own == Own(account, name, SignRecord)
           n == Len(name)
<1>1. /\ own \in Seq(T) /\ Len(own) = n + 4
      /\ own[n + 3] = SignRecord[1] /\ own[n + 4] = SignRecord[2]
  BY EndsAreTokens, OwnIs
<1>2. n \in Nat
  OBVIOUS
<1> HIDE DEF own
<1>3. Len(own) > 2 /\ own[Len(own)] = SignRecord[2] /\ own[Len(own) - 1] = SignRecord[1]
  BY <1>1, <1>2
<1>4. SignRecord[1] = "sign" /\ SignRecord[2] = "record"
  BY DEF SignRecord
<1>5. HasSuffix(own)
  BY <1>1, <1>3, <1>4, SuffixTest
<1> QED BY <1>5 DEF own

\* A user's own subject under the bare segment ...
LEMMA OwnUnderSegment ==
  ASSUME NEW T, NEW own \in Seq(T), NEW rt \in Seq(T),
         HasSuffix(own), Len(own) >= 4, Present(own[2]), Len(own) = 5 => Present(own[3]),
         Len(rt) = 1, rt[1] = own[1]
  PROVE  GrantNames(own, rt) = IF Len(own) = 5 THEN Some(own[3], own[2]) ELSE None
<1>1. Len(own) \in Nat /\ Len(own) > Len(rt) + 2 /\ Len(rt) + 1 = 2 /\ Len(rt) + 2 = 3
  OBVIOUS
<1>2. HasRoot(own, rt)
  BY RootTest
<1>3. CASE Len(own) = 5
  <2>1. Len(own) = Len(rt) + 4 /\ own[Len(rt) + 1] # "" /\ own[Len(rt) + 2] # ""
    <3>1. Present(own[2]) /\ Present(own[3])
      BY <1>3
    <3>2. Len(rt) + 4 = 5
      OBVIOUS
    <3> QED BY <1>1, <1>3, <3>1, <3>2, Zenon DEF Present
  <2>2. GrantNames(own, rt) = Some(own[3], own[2])
    BY <1>1, <1>2, <2>1, GrantNamesIs
  <2> QED BY <1>3, <2>2
<1>4. CASE Len(own) # 5
  <2>1. Len(own) # Len(rt) + 4
    BY <1>4
  <2>2. GrantNames(own, rt) = None
    BY <1>1, <2>1, GrantNamesIs
  <2> QED BY <1>4, <2>2
<1> QED BY <1>3, <1>4

\* ... and under another root.
LEMMA OwnUnderOther ==
  ASSUME NEW T, NEW own \in Seq(T), NEW rt \in Seq(T), Len(rt) > 0, rt[1] # own[1]
  PROVE  GrantNames(own, rt) = None
<1>1. 1 \in 1..Len(rt)
  OBVIOUS
<1>2. ~HasRoot(own, rt)
  BY <1>1, RootTest
<1> QED BY <1>2 DEF GrantNames

\* A connection under the scope template is the principal that the template
\* was resolved for, or nobody; a name that brings a dot is never taken for
\* somebody else, and another prefix derives nobody (userScope of
\* byon-setup, principal.go:42-58).
THEOREM TemplateDerives ==
  ASSUME NEW T, Literals \subseteq T, NEW account \in T, Present(account),
         NEW name \in Seq(T), \A i \in 1..Len(name) : Present(name[i]),
         NEW pre \in Seq(T), pre = <<>> \/ pre[1] # Segment[1]
  PROVE  principalFromAllows(userScope(account, name), root(pre)) =
           IF pre = <<>> /\ Len(name) = 1 THEN Some(name[1], account) ELSE None
<1> DEFINE list == userScope(account, name)
           rt == root(pre)
           own == Own(account, name, SignRecord)
           n == Len(name)
<1>1. /\ list \in Seq(Seq(T)) /\ Len(list) = 9 /\ list[3] = own
      /\ \A i \in 1..9 : i # 3 => ~HasSuffix(list[i])
  BY OthersEndOtherwise
<1>2. /\ rt \in Seq(T) /\ Len(rt) = Len(pre) + 1 /\ rt[Len(pre) + 1] = Segment[1]
      /\ \A i \in 1..Len(pre) : rt[i] = pre[i]
  BY EndsAreTokens, RootEnds
<1>3. /\ own \in Seq(T) /\ Len(own) = n + 4 /\ own[1] = Segment[1] /\ own[2] = account
      /\ \A i \in 1..n : own[i + 2] = name[i]
      /\ HasSuffix(own)
  BY EndsAreTokens, OwnIs, OwnHasSuffix
<1>4. n \in Nat /\ Len(pre) \in Nat /\ (pre = <<>> <=> Len(pre) = 0)
  OBVIOUS
<1> HIDE DEF list, rt, own
<1>5. principalFromAllows(list, rt) = GrantNames(own, rt)
  <2>1. \A i \in 1..Len(list) : i # 3 => GrantNames(list[i], rt) = None
    BY <1>1 DEF GrantNames
  <2>2. 3 \in 1..Len(list)
    BY <1>1
  <2> QED BY <1>1, <1>2, <2>1, <2>2, OneGrantDecides
<1>6. CASE pre # <<>>
  <2>1. 1 \in 1..Len(pre) /\ Len(rt) > 0 /\ rt[1] # own[1]
    BY <1>2, <1>3, <1>4, <1>6
  <2>2. GrantNames(own, rt) = None
    BY <1>2, <1>3, <2>1, OwnUnderOther
  <2> QED BY <1>5, <1>6, <2>2 DEF list, rt
<1>7. CASE pre = <<>>
  <2>1. Len(rt) = 1 /\ rt[1] = own[1] /\ Len(own) >= 4 /\ Present(own[2])
    BY <1>2, <1>3, <1>4, <1>7
  <2>2. n = 1 => own[3] = name[1] /\ Present(own[3])
    BY <1>3
  <2>3. Len(own) = 5 <=> n = 1
    <3>1. n \in Nat /\ Len(own) = n + 4
      BY <1>3, <1>4
    <3>2. \A k \in Nat : k + 4 = 5 <=> k = 1
      OBVIOUS
    <3> HIDE DEF n
    <3> QED BY <3>1, <3>2
  <2>4. GrantNames(own, rt) = IF Len(own) = 5 THEN Some(own[3], own[2]) ELSE None
    <3>1. Len(own) = 5 => Present(own[3])
      BY <2>2, <2>3
    <3>2. own \in Seq(T) /\ rt \in Seq(T) /\ HasSuffix(own)
      BY <1>2, <1>3
    <3> QED BY <2>1, <3>1, <3>2, OwnUnderSegment
  <2> QED BY <1>3, <1>5, <1>7, <2>2, <2>3, <2>4 DEF list, rt
<1> QED BY <1>6, <1>7

---------------------------------------------------------------------------
(* The inputs of MCPrincipal, for any tokens, names and prefixes.          *)

Tok == STRING \cup Tokens \cup Accounts \cup Literals \cup {"", "a", "p", "q"}

Inputs ==
  /\ allows \in Seq(Seq(Tok)) /\ prefix \in DeployPrefixes
  /\ of # Unmarked => /\ of.account \in Accounts /\ of.name \in Names
                      /\ allows = userScope(of.account, of.name)

\* Short sequences are sequences.
LEMMA ShortAreSeqs ==
  ASSUME NEW T
  PROVE  /\ <<>> \in Seq(T)
         /\ \A x \in T : <<x>> \in Seq(T)
         /\ \A x, y \in T : <<x, y>> \in Seq(T)
OBVIOUS

\* The indexes of a sequence.
LEMMA IndexesAre == ASSUME NEW T, NEW s \in Seq(T) PROVE DOMAIN s = 1..Len(s)
OBVIOUS

\* A name or a prefix is a sequence of tokens.
LEMMA TokensOfInputs ==
  /\ \A n \in Names : n \in Seq(Tok) /\ \A i \in 1..Len(n) : Present(n[i])
  /\ DeployPrefixes \subseteq Seq(Tok)
  /\ \A a \in Accounts : a \in Tok /\ Present(a)
  /\ Literals \subseteq Tok /\ Segment[1] \in Tok
<1>1. ASSUME NEW n \in Names PROVE n \in Seq(Tok) /\ \A i \in 1..Len(n) : Present(n[i])
  <2>1. n \in Seq(STRING) /\ \A i \in DOMAIN n : n[i] # ""
    BY InputsAreTyped
  <2>2. STRING \subseteq Tok
    BY DEF Tok
  <2>3. n \in Seq(Tok)
    BY <2>1, <2>2, TokensMayBeMore
  <2>4. DOMAIN n = 1..Len(n)
    BY <2>3, IndexesAre, Zenon
  <2> QED BY <2>1, <2>3, <2>4 DEF Present
<1>2. ASSUME NEW p \in DeployPrefixes PROVE p \in Seq(Tok)
  <2>1. p \in Seq(STRING)
    BY InputsAreTyped
  <2>2. STRING \subseteq Tok
    BY DEF Tok
  <2> QED BY <2>1, <2>2, TokensMayBeMore
<1>3. \A a \in Accounts : a \in Tok /\ Present(a)
  BY InputsAreTyped DEF Tok, Present
<1>4. Literals \subseteq Tok /\ Segment[1] \in Tok
  BY DEF Tok, Literals, Segment
<1> QED BY <1>1, <1>2, <1>3, <1>4

\* The subjects that resemble a grant.
LEMMA AlikeAreSubjects == Alike \subseteq Seq(Tok)
<1>1. ASSUME NEW x \in {"a", ""}, NEW m \in {<<>>, <<"p">>, <<"p", "q">>},
             NEW y \in {"sign", "keys"}
      PROVE  Similar(x, m, y) \in Seq(Tok)
  <2> DEFINE l == <<"identity", x>>
             r == <<y, "record">>
  <2>0. /\ "identity" \in Tok /\ "record" \in Tok /\ x \in Tok /\ y \in Tok
        /\ "p" \in Tok /\ "q" \in Tok
    BY DEF Tok, Literals
  <2>1. l \in Seq(Tok) /\ r \in Seq(Tok)
    BY <2>0, ShortAreSeqs, Zenon
  <2>2. m \in Seq(Tok)
    BY <2>0, ShortAreSeqs, Zenon
  <2> HIDE DEF l, r
  <2>3. \A s \in Seq(Tok), t \in Seq(Tok) : s \o t \in Seq(Tok)
    BY Joined
  <2>4. (l \o m) \o r \in Seq(Tok)
    BY <2>1, <2>2, <2>3, Zenon
  <2> QED BY <2>4 DEF l, r, Similar
<1>2. ASSUME NEW X, NEW M, NEW Y,
             \A x \in X, m \in M, y \in Y : Similar(x, m, y) \in Seq(Tok)
      PROVE  {Similar(x, m, y) : x \in X, m \in M, y \in Y} \subseteq Seq(Tok)
  BY <1>2
<1> DEFINE X == {"a", ""}
           M == {<<>>, <<"p">>, <<"p", "q">>}
           Y == {"sign", "keys"}
<1>3. \A x \in X, m \in M, y \in Y : Similar(x, m, y) \in Seq(Tok)
  BY <1>1, Zenon
<1>4. Alike = {Similar(x, m, y) : x \in X, m \in M, y \in Y}
  BY DEF Alike
<1> HIDE DEF X, M, Y
<1> QED BY <1>2, <1>3, <1>4

\* The inputs are what they are.
LEMMA InputsHold == Spec => []Inputs
<1>1. ASSUME Init PROVE Inputs
  <2>1. CASE /\ \E s \in UNION {[1..n -> Tokens] : n \in 1..MaxTokens} : allows = <<s>>
             /\ prefix \in DeployPrefixes /\ of = Unmarked
    <3>1. PICK n \in 1..MaxTokens : \E s \in [1..n -> Tokens] : allows = <<s>>
      BY <2>1
    <3>2. PICK s \in [1..n -> Tokens] : allows = <<s>>
      BY <3>1
    <3>3. s \in Seq(Tokens) /\ Tokens \subseteq Tok
      <4>0. MaxTokens \in Nat
        BY InputsAreTyped, Zenon
      <4>1. n \in Nat
        BY <4>0
      <4>2. s \in Seq(Tokens)
        BY <4>1
      <4> QED BY <4>2 DEF Tok
    <3>4. s \in Seq(Tok)
      BY <3>3, TokensMayBeMore
    <3> QED BY <2>1, <3>2, <3>4 DEF Inputs
  <2>2. CASE /\ \E s, t \in Alike : allows = <<s, t>>
             /\ prefix \in DeployPrefixes /\ of = Unmarked
    <3>1. PICK s \in Alike, t \in Alike : allows = <<s, t>>
      BY <2>2
    <3> QED BY <2>2, <3>1, AlikeAreSubjects DEF Inputs
  <2>3. CASE /\ of \in [account : Accounts, name : Names]
             /\ allows = userScope(of.account, of.name)
             /\ prefix \in DeployPrefixes
    <3>1. of.account \in Tok /\ of.name \in Seq(Tok) /\ Literals \subseteq Tok
      BY <2>3, TokensOfInputs
    <3>2. allows \in Seq(Seq(Tok))
      BY <2>3, <3>1, OthersEndOtherwise
    <3> QED BY <2>3, <3>2 DEF Inputs
  <2> QED BY <1>1, <2>1, <2>2, <2>3 DEF Init
<1>2. Inputs /\ [Next]_vars => Inputs'
  BY DEF Inputs, Next, vars
<1> QED BY <1>1, <1>2, PTL DEF Spec

\* Whoever is derived was granted, by a grant of exactly the form that
\* principal.go:42-43 names and by no later one, whatever the tokens and the
\* length of the subjects.
THEOREM DerivedIsGrantedHolds == Spec => []DerivedIsGranted
<1>1. ASSUME Inputs PROVE DerivedIsGranted
  <2>1. SUFFICES ASSUME Derived.ok = "yes"
                 PROVE  /\ Derived.persona # "" /\ Derived.account # ""
                        /\ \E i \in DOMAIN allows :
                             /\ allows[i] = Grants(Derived.persona, Derived.account)
                             /\ \A j \in 1 .. i - 1 : \A p, a \in Tokens \ {""} :
                                  allows[j] # Grants(p, a)
    BY DEF DerivedIsGranted
  <2>2. allows \in Seq(Seq(Tok)) /\ root(prefix) \in Seq(Tok)
    BY <1>1, TokensOfInputs, RootEnds DEF Inputs
  <2>3. /\ Present(Derived.persona) /\ Present(Derived.account)
        /\ \E i \in DOMAIN allows :
             /\ allows[i] = Grant(root(prefix), Derived.persona, Derived.account)
             /\ \A j \in 1 .. i - 1 : \A p, a :
                  Present(p) /\ Present(a) => allows[j] # Grant(root(prefix), p, a)
    BY <2>1, <2>2, DerivationIsSound DEF Derived
  <2>4. \A p, a : Grants(p, a) = Grant(root(prefix), p, a)
    BY DEF Grants, Grant
  <2>5. \A p \in Tokens \ {""} : Present(p)
    BY DEF Present
  <2>6. Derived.persona # "" /\ Derived.account # ""
    BY <2>3 DEF Present
  <2> QED BY <2>3, <2>4, <2>5, <2>6
<1> QED BY <1>1, InputsHold, PTL

\* A resolved template names the principal that it was resolved for, for
\* any account and user (main.go's userScope of byon-setup).
THEOREM TemplateNamesItsPrincipalHolds == Spec => []TemplateNamesItsPrincipal
<1>1. ASSUME Inputs PROVE TemplateNamesItsPrincipal
  <2>1. SUFFICES ASSUME of # Unmarked
                 PROVE  Derived = IF prefix = <<>> /\ Len(of.name) = 1
                                  THEN Some(of.name[1], of.account) ELSE None
    BY DEF TemplateNamesItsPrincipal
  <2>2. /\ of.account \in Tok /\ Present(of.account)
        /\ of.name \in Seq(Tok) /\ \A i \in 1..Len(of.name) : Present(of.name[i])
        /\ Literals \subseteq Tok /\ prefix \in Seq(Tok)
    BY <1>1, <2>1, TokensOfInputs DEF Inputs
  <2>3. prefix = <<>> \/ prefix[1] # Segment[1]
    BY <1>1, InputsAreTyped DEF Inputs, Segment
  <2>4. Derived = principalFromAllows(userScope(of.account, of.name), root(prefix))
    BY <1>1, <2>1 DEF Inputs, Derived
  <2> QED BY <2>2, <2>3, <2>4, TemplateDerives
<1> QED BY <1>1, InputsHold, PTL

============================================================================
