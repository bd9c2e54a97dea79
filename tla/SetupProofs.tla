---------------------------- MODULE SetupProofs ----------------------------
(***************************************************************************)
(* What running byon-setup again and again does to a system, proved for    *)
(* any system it may be pointed at and any number of failed calls and      *)
(* crashes: it creates nothing twice, its files belong to what it wired,   *)
(* and a run without a mishap delivers everything.                         *)
(***************************************************************************)
EXTENDS Setup, Extremes, FiniteSetTheorems, TLAPS

---------------------------------------------------------------------------
(* What a listing is searched for.                                         *)

\* What the searches return, without the community module's operators.
FirstGroup(gs, a, n) ==
  LET I == {i \in 1..Len(gs) : gs[i].account = a /\ gs[i].name = n}
  IN  IF I # {} THEN Min(I) ELSE 0

Controls(acs) == {i \in 1..Len(acs) : acs[i].kind = "control"}
Matching(acs) == {i \in 1..Len(acs) : acs[i].kind # "control" /\ acs[i].matches}
Plain(acs)    == {i \in 1..Len(acs) : acs[i].kind = "plain"}

LastControl(acs) == IF Controls(acs) # {} THEN Max(Controls(acs)) ELSE 0

AppOf(acs, flag) ==
  IF flag THEN IF Matching(acs) # {} THEN Max(Matching(acs)) ELSE 0
          ELSE IF Plain(acs) # {} THEN Min(Plain(acs)) ELSE 0

\* Discovery and ensureSkGroup search with these (main.go:100-107, 235-242).
LEMMA SearchesAre ==
  /\ \A a, n : SkGroup(a, n) = FirstGroup(cloud.groups, a, n)
  /\ theControl = LastControl(cloud.accounts)
  /\ theApp = AppOf(cloud.accounts, given.appFlag)
<1>1. \A a, n : SkGroup(a, n) = FirstGroup(cloud.groups, a, n)
  BY DEF SkGroup, SelectInSeq, FirstGroup
<1>2. theControl = LastControl(cloud.accounts)
  BY DEF theControl, SelectLastInSeq, LastControl, Controls
<1>3. theApp = AppOf(cloud.accounts, given.appFlag)
  BY DEF theApp, SelectLastInSeq, SelectInSeq, AppOf, Matching, Plain
<1> QED BY <1>1, <1>2, <1>3

\* ensureSkGroup finds the first group of the name, or there is none.
LEMMA FirstGroupFinds ==
  ASSUME NEW gs \in Seq(Group), NEW a, NEW n
  PROVE  /\ FirstGroup(gs, a, n) \in 0..Len(gs)
         /\ FirstGroup(gs, a, n) # 0 =>
              /\ gs[FirstGroup(gs, a, n)].account = a /\ gs[FirstGroup(gs, a, n)].name = n
              /\ \A i \in 1..Len(gs) : gs[i].account = a /\ gs[i].name = n
                                         => FirstGroup(gs, a, n) <= i
         /\ FirstGroup(gs, a, n) = 0 =>
              \A i \in 1..Len(gs) : ~(gs[i].account = a /\ gs[i].name = n)
<1> DEFINE I == {i \in 1..Len(gs) : gs[i].account = a /\ gs[i].name = n}
<1>1. \A i : i \in I <=> i \in 1..Len(gs) /\ gs[i].account = a /\ gs[i].name = n
  OBVIOUS
<1>2. FirstGroup(gs, a, n) = IF I # {} THEN Min(I) ELSE 0
  BY DEF FirstGroup
<1>3. Len(gs) \in Nat
  OBVIOUS
<1> HIDE DEF I
<1>4. I \in SUBSET Nat
  BY <1>1, <1>3
<1>5. I # {} => Min(I) \in I /\ \A y \in I : Min(I) <= y
  BY <1>4, LeastOf
<1>6. CASE I # {}
  <2>1. /\ FirstGroup(gs, a, n) \in I
        /\ \A y \in I : FirstGroup(gs, a, n) <= y
    BY <1>2, <1>5, <1>6
  <2>2. FirstGroup(gs, a, n) # 0 /\ FirstGroup(gs, a, n) \in 0..Len(gs)
    BY <1>1, <1>3, <2>1
  <2> QED BY <1>1, <2>1, <2>2, Zenon
<1>7. CASE I = {}
  <2>1. FirstGroup(gs, a, n) = 0 /\ 0 \in 0..Len(gs)
    BY <1>2, <1>3, <1>7
  <2> QED BY <1>1, <1>7, <2>1, Zenon
<1> QED BY <1>6, <1>7

\* A group of the name that precedes the others is the one it finds.
LEMMA FirstGroupIs ==
  ASSUME NEW gs \in Seq(Group), NEW a, NEW n, NEW m \in 1..Len(gs),
         gs[m].account = a, gs[m].name = n,
         \A i \in 1..Len(gs) : gs[i].account = a /\ gs[i].name = n => m <= i
  PROVE  FirstGroup(gs, a, n) = m
<1> DEFINE f == FirstGroup(gs, a, n)
<1>1. Len(gs) \in Nat
  OBVIOUS
<1>2. /\ f \in 0..Len(gs)
      /\ f # 0 => /\ gs[f].account = a /\ gs[f].name = n
                  /\ \A i \in 1..Len(gs) : gs[i].account = a /\ gs[i].name = n => f <= i
      /\ f = 0 => \A i \in 1..Len(gs) : ~(gs[i].account = a /\ gs[i].name = n)
  BY FirstGroupFinds
<1> HIDE DEF f
<1>3. f # 0 /\ f <= m /\ f \in 1..Len(gs)
  BY <1>1, <1>2
<1>4. m <= f
  BY <1>2, <1>3
<1>5. f = m
  BY <1>1, <1>3, <1>4
<1> QED BY <1>5 DEF f

\* Append adds one element at the end.
LEMMA Appended ==
  ASSUME NEW S, NEW s \in Seq(S), NEW e \in S
  PROVE  /\ Append(s, e) \in Seq(S) /\ Len(s) \in Nat
         /\ Len(Append(s, e)) = Len(s) + 1
         /\ DOMAIN s = 1..Len(s)
         /\ DOMAIN Append(s, e) = 1..(Len(s) + 1)
         /\ \A i \in 1..Len(s) : Append(s, e)[i] = s[i]
         /\ Append(s, e)[Len(s) + 1] = e
OBVIOUS

\* A group created later does not change what is found ...
LEMMA FirstGroupStays ==
  ASSUME NEW gs \in Seq(Group), NEW g \in Group, NEW a, NEW n, FirstGroup(gs, a, n) # 0
  PROVE  FirstGroup(Append(gs, g), a, n) = FirstGroup(gs, a, n)
<1> DEFINE f == FirstGroup(gs, a, n)
<1> DEFINE t == Append(gs, g)
<1>1. /\ f \in 1..Len(gs) /\ gs[f].account = a /\ gs[f].name = n
      /\ \A i \in 1..Len(gs) : gs[i].account = a /\ gs[i].name = n => f <= i
  BY FirstGroupFinds
<1>2. /\ t \in Seq(Group) /\ Len(gs) \in Nat /\ Len(t) = Len(gs) + 1
      /\ \A i \in 1..Len(gs) : t[i] = gs[i]
  <2> HIDE DEF f
  <2> QED BY Appended
<1>3. SUFFICES FirstGroup(t, a, n) = f
  OBVIOUS
<1> HIDE DEF f, t
<1>4. f \in 1..Len(t) /\ t[f].account = a /\ t[f].name = n
  BY <1>1, <1>2
<1>5. \A i \in 1..Len(t) : t[i].account = a /\ t[i].name = n => f <= i
  BY <1>1, <1>2
<1> QED BY <1>2, <1>4, <1>5, FirstGroupIs

\* ... and one created because none was found is found.
LEMMA FirstGroupCreated ==
  ASSUME NEW gs \in Seq(Group), NEW g \in Group, FirstGroup(gs, g.account, g.name) = 0
  PROVE  FirstGroup(Append(gs, g), g.account, g.name) = Len(gs) + 1
<1> DEFINE t == Append(gs, g)
<1>1. \A i \in 1..Len(gs) : ~(gs[i].account = g.account /\ gs[i].name = g.name)
  BY FirstGroupFinds
<1>2. /\ t \in Seq(Group) /\ Len(gs) \in Nat /\ Len(t) = Len(gs) + 1
      /\ \A i \in 1..Len(gs) : t[i] = gs[i]
      /\ t[Len(gs) + 1] = g
  BY Appended
<1>3. SUFFICES FirstGroup(t, g.account, g.name) = Len(gs) + 1
  OBVIOUS
<1> HIDE DEF t
<1>4. Len(gs) + 1 \in 1..Len(t)
  BY <1>2
<1>5. \A i \in 1..Len(t) : t[i].account = g.account /\ t[i].name = g.name => Len(gs) + 1 <= i
  BY <1>1, <1>2
<1> QED BY <1>2, <1>4, <1>5, FirstGroupIs

\* Discovery finds accounts that are there.
LEMMA AccountsFound ==
  ASSUME NEW acs \in Seq(Account), NEW flag \in BOOLEAN
  PROVE  /\ AppOf(acs, flag) \in 0..Len(acs) /\ LastControl(acs) \in 0..Len(acs)
         /\ LastControl(acs) = 0 => Controls(acs) = {}
<1>1. Len(acs) \in Nat
  OBVIOUS
<1>2. /\ Matching(acs) \subseteq 1..Len(acs) /\ Controls(acs) \subseteq 1..Len(acs)
      /\ Plain(acs) \subseteq 1..Len(acs)
  <2>1. Matching(acs) \subseteq 1..Len(acs)
    BY Zenon DEF Matching
  <2>2. Controls(acs) \subseteq 1..Len(acs)
    BY Zenon DEF Controls
  <2>3. Plain(acs) \subseteq 1..Len(acs)
    BY Zenon DEF Plain
  <2> QED BY <2>1, <2>2, <2>3
<1>3. Plain(acs) \subseteq Nat
  BY <1>1, <1>2
<1>4. Controls(acs) # {} => Max(Controls(acs)) \in 1..Len(acs)
  BY <1>1, <1>2, GreatestOf
<1>5. Matching(acs) # {} => Max(Matching(acs)) \in 1..Len(acs)
  BY <1>1, <1>2, GreatestOf
<1>6. Plain(acs) # {} => Min(Plain(acs)) \in 1..Len(acs)
  BY <1>2, <1>3, LeastOf
<1>7. \A x \in 1..Len(acs) : x # 0 /\ x \in 0..Len(acs)
  BY <1>1
<1>8. 0 \in 0..Len(acs)
  BY <1>1
<1>9. LastControl(acs) \in 0..Len(acs) /\ (LastControl(acs) = 0 => Controls(acs) = {})
  BY <1>4, <1>7, <1>8, Zenon DEF LastControl
<1>10. AppOf(acs, flag) \in 0..Len(acs)
  <2>1. CASE flag
    BY <1>5, <1>7, <1>8, <2>1, Zenon DEF AppOf
  <2>2. CASE ~flag
    BY <1>6, <1>7, <1>8, <2>2, Zenon DEF AppOf
  <2> QED BY <2>1, <2>2
<1> QED BY <1>9, <1>10

Created == [kind |-> "control", matches |-> FALSE]

\* Creating the control account that was missing makes it the one that is
\* found, and leaves the app account what it was.
LEMMA ControlCreated ==
  ASSUME NEW acs \in Seq(Account), NEW flag \in BOOLEAN, LastControl(acs) = 0
  PROVE  /\ LastControl(Append(acs, Created)) = Len(acs) + 1
         /\ AppOf(Append(acs, Created), flag) = AppOf(acs, flag)
<1> DEFINE t == Append(acs, Created)
<1>1. Created \in Account
  BY DEF Created, Account
<1>2. t \in Seq(Account) /\ Len(acs) \in Nat /\ Len(t) = Len(acs) + 1
  BY <1>1, Appended
<1>3. (\A i \in 1..Len(acs) : t[i] = acs[i]) /\ t[Len(acs) + 1] = Created
  BY <1>1, Appended
<1> HIDE DEF t
<1>4. t[Len(acs) + 1].kind = "control"
  BY <1>3 DEF Created
<1>5. Controls(acs) = {}
  BY AccountsFound
<1>6. \A i : i \in 1..Len(t) <=> i \in 1..Len(acs) \/ i = Len(acs) + 1
  BY <1>2
<1>7. Controls(t) = {Len(acs) + 1}
  <2>1. \A i \in 1..Len(acs) : t[i].kind # "control"
    BY <1>3, <1>5 DEF Controls
  <2> QED BY <1>4, <1>6, <2>1, Zenon DEF Controls
<1>8. Max(Controls(t)) = Len(acs) + 1
  BY <1>2, <1>7 DEF Max
<1>9. Matching(t) = Matching(acs)
  BY <1>3, <1>4, <1>6, Zenon DEF Matching
<1>10. Plain(t) = Plain(acs)
  <2>1. t[Len(acs) + 1].kind # "plain"
    BY <1>4
  <2> QED BY <1>3, <1>6, <2>1, Zenon DEF Plain
<1>11. LastControl(t) = Len(acs) + 1
  BY <1>7, <1>8 DEF LastControl
<1>12. AppOf(t, flag) = AppOf(acs, flag)
  BY <1>9, <1>10 DEF AppOf
<1> QED BY <1>11, <1>12 DEF t

---------------------------------------------------------------------------
(* The inductive invariant.                                                *)

User == [account : Nat, group : Nat]

Cloud == [accounts : Seq(Account), groups : Seq(Group), users : Seq(User),
          callout : {"none", "ours", "other"}, target : Seq(Nat), listeners : SUBSET Nat]

\* The places of a run after which a group or a wiring is there.
AfterCtrlSk == {"ctrlSeed", "enable", "config", "target", "issuerSk", "issuer",
                "register", "creds", "done"}
AfterAppSk  == AfterCtrlSk \cup {"appSeed", "ctrlSk"}
AfterBoth   == AfterAppSk \cup {"appSk"}
AfterConfig == {"target", "issuerSk", "issuer", "register", "creds", "done"}

Tool == [pc : AfterBoth \cup {"discover", "control", "stopped"},
         app : Nat, control : Nat, appSk : Nat, ctrlSk : Nat, issuerSk : Nat, issuer : Nat]

Typed ==
  /\ cloud \in Cloud
  /\ disk \in [Files -> Nat]
  /\ tool \in Tool
  /\ mishaps \in Nat
  /\ given \in [appFlag : BOOLEAN, groups : Seq(Group)]

\* Ids are ids of something there is.
IdsInRange ==
  /\ \A i \in DOMAIN cloud.users : cloud.users[i].group \in DOMAIN cloud.groups
  /\ cloud.listeners \subseteq DOMAIN cloud.users
  /\ disk["auth-issuer.creds"] \in 0..Len(cloud.users)

\* What a discovery now would find.
App     == AppOf(cloud.accounts, given.appFlag)
Control == LastControl(cloud.accounts)
AppSk   == FirstGroup(cloud.groups, App, "soulstream-user")
CtrlSk  == FirstGroup(cloud.groups, Control, "soulstream-auth-issuer")

\* The run's locals are that.
LocalsKnow ==
  /\ tool.pc \in {"stopped", "discover"} => tool.app = 0 /\ tool.control = 0
  /\ tool.pc = "control" \/ tool.pc \in AfterBoth => tool.app = App /\ App # 0
  /\ tool.pc = "control" => tool.control = Control
  /\ tool.pc \in AfterBoth => tool.control = Control /\ Control # 0
  /\ tool.pc \in AfterAppSk => tool.appSk = AppSk /\ AppSk # 0
  /\ tool.pc \in AfterCtrlSk => tool.ctrlSk = CtrlSk /\ CtrlSk # 0
  /\ tool.pc \in AfterConfig => cloud.callout = "ours"
  /\ tool.pc = "issuer" => tool.issuerSk \in DOMAIN cloud.groups
  /\ tool.pc \in {"register", "creds", "done"} => tool.issuer \in DOMAIN cloud.users

\* The target, once there, is of the groups that every later run finds.
TargetKnown ==
  cloud.target # <<>> =>
    /\ App # 0 /\ Control # 0 /\ AppSk # 0 /\ CtrlSk # 0
    /\ cloud.target = <<AppSk, CtrlSk>>

\* A seed file is of a group that is there.
SeedOf(file, name) ==
  LET g == disk[file]
  IN  g # 0 => /\ g \in DOMAIN cloud.groups
               /\ g = FirstGroup(cloud.groups, cloud.groups[g].account, name)

SeedsKnown ==
  /\ SeedOf("sk-soulstream-user.seed", "soulstream-user")
  /\ SeedOf("sk-soulstream-auth-issuer.seed", "soulstream-auth-issuer")

\* Of the groups the tool created, the seed is on disk or about to be.
Kept(file, name, pc) ==
  (\E i \in DOMAIN cloud.groups : cloud.groups[i].name = name) => disk[file] # 0 \/ tool.pc = pc

\* Nothing has gone wrong and nothing was there.
Undisturbed ==
  mishaps = 0 /\ given.groups = <<>> =>
    /\ Kept("sk-soulstream-user.seed", "soulstream-user", "appSeed")
    /\ Kept("sk-soulstream-auth-issuer.seed", "soulstream-auth-issuer", "ctrlSeed")
    /\ tool.pc \in AfterConfig \ {"target"} => cloud.target # <<>>
    /\ tool.pc \in {"creds", "done"} => tool.issuer \in cloud.listeners
    /\ tool.pc = "done" => disk["auth-issuer.creds"] # 0

IInv ==
  /\ Typed
  /\ IdsInRange
  /\ LocalsKnow
  /\ TargetKnown
  /\ SeedsKnown
  /\ Undisturbed

---------------------------------------------------------------------------
(* Systems only grow.                                                      *)

\* The systems that a call of the tool can make of this one.
GrowsInto(c) ==
  /\ c \in Cloud
  /\ \/ c.accounts = cloud.accounts
     \/ Control = 0 /\ c.accounts = Append(cloud.accounts, Created)
  /\ c.groups = cloud.groups \/ \E g \in Group : c.groups = Append(cloud.groups, g)
  /\ Len(cloud.users) <= Len(c.users)
  /\ \A i \in DOMAIN c.users : c.users[i].group \in DOMAIN c.groups
  /\ c.listeners \subseteq DOMAIN c.users
  /\ c.target = cloud.target \/ /\ App # 0 /\ Control # 0 /\ AppSk # 0 /\ CtrlSk # 0
                                /\ c.target = <<AppSk, CtrlSk>>

\* What the invariant says of accounts and groups.
LEMMA Finds ==
  ASSUME Typed
  PROVE  /\ cloud.accounts \in Seq(Account) /\ cloud.groups \in Seq(Group)
         /\ cloud.users \in Seq(User) /\ given.appFlag \in BOOLEAN
         /\ Len(cloud.accounts) \in Nat /\ Len(cloud.groups) \in Nat /\ Len(cloud.users) \in Nat
         /\ DOMAIN cloud.groups = 1..Len(cloud.groups)
         /\ DOMAIN cloud.users = 1..Len(cloud.users)
         /\ App \in 0..Len(cloud.accounts) /\ Control \in 0..Len(cloud.accounts)
         /\ AppSk \in 0..Len(cloud.groups) /\ CtrlSk \in 0..Len(cloud.groups)
<1>1. /\ cloud.accounts \in Seq(Account) /\ cloud.groups \in Seq(Group)
      /\ cloud.users \in Seq(User) /\ given.appFlag \in BOOLEAN
  BY DEF Typed, Cloud
<1>2. App \in 0..Len(cloud.accounts) /\ Control \in 0..Len(cloud.accounts)
  BY <1>1, AccountsFound DEF App, Control
<1>3. AppSk \in 0..Len(cloud.groups) /\ CtrlSk \in 0..Len(cloud.groups)
  BY <1>1, FirstGroupFinds DEF AppSk, CtrlSk
<1> QED BY <1>1, <1>2, <1>3

\* A step that grows the system changes nothing that was found.
LEMMA FoundStays ==
  ASSUME IInv, GrowsInto(cloud'), given' = given
  PROVE  /\ App' = App
         /\ Control # 0 => Control' = Control
         /\ \A a, n : FirstGroup(cloud.groups, a, n) # 0
              => FirstGroup(cloud'.groups, a, n) = FirstGroup(cloud.groups, a, n)
         /\ AppSk # 0 => AppSk' = AppSk
         /\ Control # 0 /\ CtrlSk # 0 => CtrlSk' = CtrlSk
<1>1. Typed
  BY DEF IInv
<1>2. /\ cloud.accounts \in Seq(Account) /\ cloud.groups \in Seq(Group)
      /\ given.appFlag \in BOOLEAN
  BY <1>1, Finds
<1>3. App' = App /\ (Control # 0 => Control' = Control)
  <2>1. CASE cloud'.accounts = cloud.accounts
    BY <2>1 DEF App, Control
  <2>2. CASE Control = 0 /\ cloud'.accounts = Append(cloud.accounts, Created)
    BY <1>2, <2>2, ControlCreated DEF App, Control
  <2> QED BY <2>1, <2>2 DEF GrowsInto
<1>4. \A a, n : FirstGroup(cloud.groups, a, n) # 0
        => FirstGroup(cloud'.groups, a, n) = FirstGroup(cloud.groups, a, n)
  <2>1. CASE cloud'.groups = cloud.groups
    BY <2>1
  <2>2. CASE \E g \in Group : cloud'.groups = Append(cloud.groups, g)
    BY <1>2, <2>2, FirstGroupStays
  <2> QED BY <2>1, <2>2 DEF GrowsInto
<1> QED BY <1>3, <1>4 DEF AppSk, CtrlSk

\* Nor does it undo the wiring, or part a seed from its group.
LEMMA GrowthKeeps ==
  ASSUME IInv, GrowsInto(cloud'), UNCHANGED <<disk, given>>
  PROVE  IdsInRange' /\ TargetKnown' /\ SeedsKnown'
<1>1. /\ Typed /\ IdsInRange /\ TargetKnown /\ SeedsKnown /\ given' = given /\ disk' = disk
  BY DEF IInv
<1>2. /\ App' = App
      /\ Control # 0 => Control' = Control
      /\ \A a, n : FirstGroup(cloud.groups, a, n) # 0
           => FirstGroup(cloud'.groups, a, n) = FirstGroup(cloud.groups, a, n)
      /\ AppSk # 0 => AppSk' = AppSk
      /\ Control # 0 /\ CtrlSk # 0 => CtrlSk' = CtrlSk
  BY <1>1, FoundStays
<1>3. /\ Len(cloud.users) <= Len(cloud'.users)
      /\ cloud'.users \in Seq(User)
      /\ \A i \in DOMAIN cloud'.users : cloud'.users[i].group \in DOMAIN cloud'.groups
      /\ cloud'.listeners \subseteq DOMAIN cloud'.users
  BY DEF GrowsInto, Cloud
<1>4. Len(cloud.users) \in Nat /\ Len(cloud'.users) \in Nat
  BY <1>1, <1>3, Finds
<1>5. disk["auth-issuer.creds"] \in 0..Len(cloud'.users)
  BY <1>1, <1>3, <1>4 DEF IdsInRange
<1>6. IdsInRange'
  BY <1>1, <1>3, <1>5 DEF IdsInRange
<1>7. TargetKnown'
  <2>1. CASE cloud'.target = cloud.target
    BY <1>1, <1>2, <2>1 DEF TargetKnown
  <2>2. CASE /\ App # 0 /\ Control # 0 /\ AppSk # 0 /\ CtrlSk # 0
             /\ cloud'.target = <<AppSk, CtrlSk>>
    BY <1>2, <2>2 DEF TargetKnown
  <2> QED BY <2>1, <2>2 DEF GrowsInto
<1>8. \A i \in DOMAIN cloud.groups :
        i \in DOMAIN cloud'.groups /\ cloud'.groups[i] = cloud.groups[i]
  <2>1. cloud.groups \in Seq(Group)
    BY <1>1, Finds
  <2>2. CASE cloud'.groups = cloud.groups
    BY <2>2
  <2>3. CASE \E g \in Group : cloud'.groups = Append(cloud.groups, g)
    <3>1. PICK g \in Group : cloud'.groups = Append(cloud.groups, g)
      BY <2>3
    <3> QED BY <2>1, <3>1, Appended
  <2> QED BY <2>2, <2>3 DEF GrowsInto
<1>9. SeedsKnown'
  BY <1>1, <1>2, <1>8 DEF SeedsKnown, SeedOf
<1> QED BY <1>6, <1>7, <1>9

---------------------------------------------------------------------------
(* Every step keeps the invariant.                                         *)

Pcs == AfterBoth \cup {"discover", "control", "stopped"}

\* The tool goes on and keeps what it knows.
LEMMA Moves ==
  ASSUME tool \in Tool, NEW p \in Pcs
  PROVE  /\ At(p, tool) \in Tool /\ At(p, tool).pc = p
         /\ At(p, tool).app = tool.app /\ At(p, tool).control = tool.control
         /\ At(p, tool).appSk = tool.appSk /\ At(p, tool).ctrlSk = tool.ctrlSk
         /\ At(p, tool).issuerSk = tool.issuerSk /\ At(p, tool).issuer = tool.issuer
BY DEF At, Tool, Pcs

\* A tool that is not running, or only just, knows nothing.
LEMMA Knowing ==
  ASSUME tool' = Stopped \/ tool' = Fresh
  PROVE  /\ tool' \in Tool /\ tool'.pc \in {"stopped", "discover"}
         /\ LocalsKnow'
BY DEF Stopped, Fresh, Tool, LocalsKnow, AfterBoth, AfterAppSk, AfterCtrlSk, AfterConfig

\* A system can stay what it is.
LEMMA GrowsIntoItself ==
  ASSUME IInv PROVE GrowsInto(cloud)
<1>1. Typed /\ IdsInRange
  BY DEF IInv
<1>2. cloud \in Cloud /\ Len(cloud.users) \in Nat
  BY <1>1, Finds DEF Typed
<1> QED BY <1>1, <1>2 DEF GrowsInto, IdsInRange

\* Once something has gone wrong, nothing more is promised of the run.
LEMMA MishapKeeps ==
  ASSUME IInv, GrowsInto(cloud'), Mishap, tool' = Stopped, UNCHANGED <<disk, given>>
  PROVE  IInv'
<1>1. IdsInRange' /\ TargetKnown' /\ SeedsKnown'
  BY GrowthKeeps
<1>2. tool' \in Tool /\ LocalsKnow'
  BY Knowing
<1>3. Typed /\ mishaps \in Nat /\ mishaps' = mishaps + 1
  BY DEF IInv, Typed, Mishap
<1>4. Typed'
  BY <1>2, <1>3 DEF Typed, GrowsInto
<1>5. mishaps' # 0
  BY <1>3
<1>6. Undisturbed'
  BY <1>5 DEF Undisturbed
<1> QED BY <1>1, <1>2, <1>4, <1>6 DEF IInv

\* A group that is not of the name, or whose seed is in hand, needs no file.
LEMMA KeptStays ==
  ASSUME Typed, NEW file, NEW name, NEW pc, Kept(file, name, pc), disk' = disk, tool.pc # pc,
         \/ cloud'.groups = cloud.groups
         \/ \E g \in Group : /\ cloud'.groups = Append(cloud.groups, g)
                             /\ g.name = name => tool'.pc = pc
  PROVE  Kept(file, name, pc)'
<1>1. SUFFICES ASSUME NEW i \in DOMAIN cloud'.groups, cloud'.groups[i].name = name
               PROVE  disk[file] # 0 \/ tool'.pc = pc
  BY DEF Kept
<1>2. CASE cloud'.groups = cloud.groups
  BY <1>1, <1>2 DEF Kept
<1>3. CASE \E g \in Group : /\ cloud'.groups = Append(cloud.groups, g)
                            /\ g.name = name => tool'.pc = pc
  <2>1. PICK g \in Group : /\ cloud'.groups = Append(cloud.groups, g)
                           /\ g.name = name => tool'.pc = pc
    BY <1>3
  <2>2. cloud.groups \in Seq(Group)
    BY Finds
  <2>3. \/ i \in DOMAIN cloud.groups /\ cloud'.groups[i] = cloud.groups[i]
        \/ cloud'.groups[i] = g
    BY <1>1, <2>1, <2>2, Appended
  <2> QED BY <1>1, <2>1, <2>3 DEF Kept
<1> QED BY <1>2, <1>3

\* What a step that goes on has to show.
LEMMA GoingOn ==
  ASSUME IInv, GrowsInto(cloud'), UNCHANGED <<disk, given>>, Mishap \/ mishaps' = mishaps,
         tool.pc \notin {"appSeed", "ctrlSeed"},
         tool' \in Tool, LocalsKnow',
         \/ cloud'.groups = cloud.groups
         \/ \E g \in Group : /\ cloud'.groups = Append(cloud.groups, g)
                             /\ g.name = "soulstream-user" => tool'.pc = "appSeed"
                             /\ g.name = "soulstream-auth-issuer" => tool'.pc = "ctrlSeed",
         mishaps = 0 /\ given.groups = <<>> /\ mishaps' = mishaps =>
           /\ tool'.pc \in AfterConfig \ {"target"} => cloud'.target # <<>>
           /\ tool'.pc \in {"creds", "done"} => tool'.issuer \in cloud'.listeners,
         tool'.pc # "done"
  PROVE  IInv'
<1>1. IdsInRange' /\ TargetKnown' /\ SeedsKnown'
  BY GrowthKeeps
<1>2. /\ Typed /\ Undisturbed /\ disk' = disk /\ given' = given
      /\ mishaps \in Nat /\ mishaps' \in {mishaps, mishaps + 1}
  BY DEF IInv, Mishap, Typed
<1>3. Typed'
  BY <1>2 DEF Typed, GrowsInto
<1>4. Undisturbed'
  <2>1. SUFFICES ASSUME mishaps' = 0, given.groups = <<>>
                 PROVE  /\ Kept("sk-soulstream-user.seed", "soulstream-user", "appSeed")'
                        /\ Kept("sk-soulstream-auth-issuer.seed", "soulstream-auth-issuer",
                                "ctrlSeed")'
    BY <1>2 DEF Undisturbed
  <2>2. mishaps = 0
    BY <1>2, <2>1
  <2>3. /\ Kept("sk-soulstream-user.seed", "soulstream-user", "appSeed")
        /\ Kept("sk-soulstream-auth-issuer.seed", "soulstream-auth-issuer", "ctrlSeed")
    BY <1>2, <2>1, <2>2 DEF Undisturbed
  <2> QED BY <1>2, <2>3, KeptStays
<1> QED BY <1>1, <1>3, <1>4 DEF IInv

\* A step that ends the run or starts one, and touches nothing.
LEMMA Ends ==
  ASSUME IInv, UNCHANGED <<cloud, disk, mishaps, given>>,
         tool.pc \notin {"appSeed", "ctrlSeed"},
         tool' = Stopped \/ tool' = Fresh
  PROVE  IInv'
<1>1. cloud' = cloud /\ mishaps' = mishaps
  OBVIOUS
<1>2. GrowsInto(cloud')
  BY <1>1, GrowsIntoItself
<1>3. tool' \in Tool /\ tool'.pc \in {"stopped", "discover"} /\ LocalsKnow'
  BY Knowing
<1> QED BY <1>1, <1>2, <1>3, GoingOn DEF AfterConfig

\* The accounts discovery settles on are those the flags name.
LEMMA DiscoverKnows == ASSUME IInv, Discover PROVE IInv'
<1>1. /\ tool.pc = "discover" /\ cloud' = cloud /\ mishaps' = mishaps
      /\ given' = given /\ disk' = disk
  BY DEF Discover
<1>2. CASE theApp = 0
  BY <1>1, <1>2, Ends DEF Discover
<1>3. CASE theApp # 0
  <2>1. tool' = [Fresh EXCEPT !.pc = "control", !.app = theApp, !.control = theControl]
    BY <1>3 DEF Discover
  <2>2. App = theApp /\ Control = theControl
    BY SearchesAre DEF App, Control
  <2>3. App \in Nat /\ Control \in Nat
    BY Finds DEF IInv
  <2>4. /\ tool' \in Tool /\ tool'.pc = "control" /\ tool'.app = App
        /\ tool'.control = Control
    BY <2>1, <2>2, <2>3 DEF Fresh, Tool
  <2>5. App' = App /\ Control' = Control
    BY <1>1 DEF App, Control
  <2>6. LocalsKnow'
    BY <1>3, <2>2, <2>4, <2>5
       DEF LocalsKnow, AfterBoth, AfterAppSk, AfterCtrlSk, AfterConfig
  <2>7. GrowsInto(cloud')
    BY <1>1, GrowsIntoItself
  <2> QED BY <1>1, <2>4, <2>6, <2>7, GoingOn DEF AfterConfig
<1> QED BY <1>2, <1>3

\* The control account that was missing is the one the run goes on with.
LEMMA CreateControlKnows == ASSUME IInv, CreateControl PROVE IInv'
<1> DEFINE after == [cloud EXCEPT !.accounts = Append(@, Created)]
<1> DEFINE next == [At("appSk", tool) EXCEPT !.control = Len(after.accounts)]
<1>1. /\ tool.pc = "control" /\ given' = given /\ disk' = disk
      /\ tool.app = App /\ App # 0 /\ tool.control = Control /\ tool \in Tool
  BY DEF CreateControl, IInv, LocalsKnow, Typed
<1>2. /\ At("appSk", tool) \in Tool /\ At("appSk", tool).pc = "appSk"
      /\ At("appSk", tool).app = tool.app /\ At("appSk", tool).control = tool.control
  BY <1>1, Moves DEF Pcs, AfterBoth
<1>3. CASE tool.control # 0
  <2>1. tool' = At("appSk", tool) /\ cloud' = cloud /\ mishaps' = mishaps
    BY <1>3 DEF CreateControl
  <2>2. App' = App /\ Control' = Control
    BY <1>1, <2>1 DEF App, Control
  <2>3. LocalsKnow'
    BY <1>1, <1>2, <1>3, <2>1, <2>2
       DEF LocalsKnow, AfterBoth, AfterAppSk, AfterCtrlSk, AfterConfig
  <2>4. GrowsInto(cloud')
    BY <2>1, GrowsIntoItself
  <2> QED BY <1>1, <1>2, <2>1, <2>3, <2>4, GoingOn DEF AfterConfig
<1>4. CASE tool.control = 0
  <2>1. Fatally(after, next)
    BY <1>4 DEF CreateControl, Created
  <2>2. /\ Typed /\ cloud.accounts \in Seq(Account) /\ Len(cloud.accounts) \in Nat
        /\ cloud \in Cloud /\ Created \in Account /\ given.appFlag \in BOOLEAN
    BY Finds DEF IInv, Typed, Created, Account
  <2>3. after.accounts = Append(cloud.accounts, Created)
    BY <2>2 DEF Cloud
  <2>4. /\ Append(cloud.accounts, Created) \in Seq(Account)
        /\ Len(Append(cloud.accounts, Created)) = Len(cloud.accounts) + 1
    BY <2>2, Appended
  <2>5. /\ after \in Cloud /\ after.groups = cloud.groups /\ after.users = cloud.users
        /\ after.listeners = cloud.listeners /\ after.target = cloud.target
    BY <2>2, <2>4 DEF Cloud
  <2>6. /\ next \in Tool /\ next.pc = "appSk" /\ next.app = App
        /\ next.control = Len(cloud.accounts) + 1
    <3> DEFINE at == At("appSk", tool)
    <3>1. PICK n \in Nat : n = Len(after.accounts) /\ n = Len(cloud.accounts) + 1
      BY <2>2, <2>3, <2>4
    <3>2. at \in Tool /\ at.pc = "appSk" /\ at.app = App
      BY <1>1, <1>2
    <3>3. next = [at EXCEPT !.control = n]
      BY <3>1
    <3> HIDE DEF at, next, after
    <3> QED BY <3>1, <3>2, <3>3 DEF Tool
  <2> HIDE DEF after, next
  <2>7. GrowsInto(after) /\ GrowsInto(cloud)
    BY <1>1, <1>4, <2>3, <2>5, GrowsIntoItself DEF GrowsInto
  <2>8. CASE cloud' = after /\ tool' = next /\ UNCHANGED mishaps
    <3>1. App' = App /\ Control' = Len(cloud.accounts) + 1
      BY <1>1, <1>4, <2>2, <2>3, <2>8, ControlCreated DEF App, Control
    <3>2. LocalsKnow'
      BY <1>1, <2>2, <2>6, <2>8, <3>1
         DEF LocalsKnow, AfterBoth, AfterAppSk, AfterCtrlSk, AfterConfig
    <3> QED BY <1>1, <2>5, <2>6, <2>7, <2>8, <3>2, GoingOn DEF AfterConfig
  <2>9. CASE Mishap /\ cloud' \in {cloud, after} /\ tool' = Stopped
    BY <1>1, <2>7, <2>9, MishapKeeps
  <2> QED BY <2>1, <2>8, <2>9 DEF Fatally
<1> QED BY <1>3, <1>4

\* The system with one group more.
LEMMA GroupCreated ==
  ASSUME IInv, NEW g \in Group, NEW c, c = [cloud EXCEPT !.groups = Append(@, g)]
  PROVE  /\ GrowsInto(c) /\ c.groups = Append(cloud.groups, g)
         /\ Len(c.groups) = Len(cloud.groups) + 1 /\ Len(c.groups) \in Nat
         /\ DOMAIN c.groups = 1..(Len(cloud.groups) + 1)
         /\ c.accounts = cloud.accounts /\ c.users = cloud.users /\ c.callout = cloud.callout
         /\ c.target = cloud.target /\ c.listeners = cloud.listeners
<1>1. /\ cloud \in Cloud /\ cloud.groups \in Seq(Group) /\ Len(cloud.users) \in Nat
      /\ IdsInRange
  BY Finds DEF IInv, Typed
<1> DEFINE gs == Append(cloud.groups, g)
<1>2. /\ gs \in Seq(Group) /\ Len(gs) = Len(cloud.groups) + 1 /\ Len(gs) \in Nat
      /\ DOMAIN gs = 1..(Len(cloud.groups) + 1)
      /\ \A i \in DOMAIN cloud.groups : i \in DOMAIN gs
  BY <1>1, Appended
<1>3. c = [cloud EXCEPT !.groups = gs]
  OBVIOUS
<1>4. \E h \in Group : gs = Append(cloud.groups, h)
  OBVIOUS
<1>5. gs = Append(cloud.groups, g)
  OBVIOUS
<1> HIDE DEF gs
<1>6. /\ c \in Cloud /\ c.groups = gs
      /\ c.accounts = cloud.accounts /\ c.users = cloud.users /\ c.callout = cloud.callout
      /\ c.target = cloud.target /\ c.listeners = cloud.listeners
  BY <1>1, <1>2, <1>3 DEF Cloud
<1>7. GrowsInto(c)
  BY <1>1, <1>2, <1>4, <1>6 DEF GrowsInto, IdsInRange
<1> QED BY <1>2, <1>5, <1>6, <1>7

\* The app account's group is found or created, and its seed then due.
LEMMA AppGroupKnows == ASSUME IInv, AppGroup PROVE IInv'
<1> DEFINE g == GroupIn(App, "soulstream-user", TRUE)
<1> DEFINE after == [cloud EXCEPT !.groups = Append(@, g)]
<1> DEFINE next == [At("appSeed", tool) EXCEPT !["appSk"] = Len(after.groups)]
<1> DEFINE reuse == [At("ctrlSk", tool) EXCEPT !["appSk"] = AppSk]
<1>1. /\ tool.pc = "appSk" /\ given' = given /\ disk' = disk
      /\ tool.app = App /\ App # 0 /\ tool.control = Control /\ Control # 0 /\ tool \in Tool
      /\ Typed /\ App \in Nat /\ AppSk \in Nat /\ cloud.groups \in Seq(Group)
  BY Finds DEF AppGroup, EnsureSkGroup, IInv, LocalsKnow, Typed, AfterBoth
<1>2. SkGroup(tool.app, "soulstream-user") = AppSk
  BY <1>1, SearchesAre DEF AppSk
<1>3. CASE AppSk # 0
  <2>1. tool' = reuse /\ cloud' = cloud /\ mishaps' = mishaps
    BY <1>2, <1>3 DEF AppGroup, EnsureSkGroup
  <2>2. App' = App /\ Control' = Control /\ AppSk' = AppSk
    BY <1>1, <2>1 DEF App, Control, AppSk
  <2>3. /\ reuse \in Tool /\ reuse.pc = "ctrlSk" /\ reuse.app = App
        /\ reuse.control = Control /\ reuse.appSk = AppSk
    <3> DEFINE at == At("ctrlSk", tool)
    <3>1. at \in Tool /\ at.pc = "ctrlSk" /\ at.app = App /\ at.control = Control
      BY <1>1, Moves DEF Pcs, AfterBoth, AfterAppSk
    <3>2. reuse = [at EXCEPT !["appSk"] = AppSk]
      OBVIOUS
    <3> HIDE DEF at, reuse
    <3> QED BY <1>1, <3>1, <3>2 DEF Tool
  <2> HIDE DEF reuse
  <2>4. LocalsKnow'
    BY <1>1, <1>3, <2>1, <2>2, <2>3
       DEF LocalsKnow, AfterBoth, AfterAppSk, AfterCtrlSk, AfterConfig
  <2>5. GrowsInto(cloud')
    BY <2>1, GrowsIntoItself
  <2> QED BY <1>1, <2>1, <2>3, <2>4, <2>5, GoingOn DEF AfterConfig
<1>4. CASE AppSk = 0
  <2>1. Fatally(after, next)
    BY <1>1, <1>2, <1>4 DEF AppGroup, EnsureSkGroup
  <2>2. g \in Group /\ g.account = App /\ g.name = "soulstream-user"
    BY <1>1 DEF GroupIn, Group
  <2> HIDE DEF g
  <2>3. /\ GrowsInto(after) /\ after.groups = Append(cloud.groups, g)
        /\ Len(after.groups) = Len(cloud.groups) + 1 /\ Len(after.groups) \in Nat
        /\ after.accounts = cloud.accounts
    <3> HIDE DEF after
    <3>1. after = [cloud EXCEPT !.groups = Append(@, g)]
      BY DEF after
    <3> QED BY <2>2, <3>1, GroupCreated
  <2>4. /\ next \in Tool /\ next.pc = "appSeed" /\ next.app = App
        /\ next.control = Control /\ next.appSk = Len(cloud.groups) + 1
    <3> DEFINE at == At("appSeed", tool)
    <3>1. at \in Tool /\ at.pc = "appSeed" /\ at.app = App /\ at.control = Control
      BY <1>1, Moves DEF Pcs, AfterBoth, AfterAppSk
    <3>2. next = [at EXCEPT !["appSk"] = Len(after.groups)]
      OBVIOUS
    <3> HIDE DEF at, next, after
    <3> QED BY <2>3, <3>1, <3>2 DEF Tool
  <2> HIDE DEF after, next
  <2>5. GrowsInto(cloud)
    BY GrowsIntoItself
  <2>6. CASE cloud' = after /\ tool' = next /\ UNCHANGED mishaps
    <3>1. App' = App /\ Control' = Control
      BY <1>1, <2>3, <2>6 DEF App, Control
    <3>2. AppSk' = Len(cloud.groups) + 1
      BY <1>1, <1>4, <2>2, <2>3, <2>6, <3>1, FirstGroupCreated DEF AppSk
    <3>3. Len(cloud.groups) \in Nat
      BY <1>1, Finds
    <3>4. LocalsKnow'
      BY <1>1, <2>4, <2>6, <3>1, <3>2, <3>3
         DEF LocalsKnow, AfterBoth, AfterAppSk, AfterCtrlSk, AfterConfig
    <3>5. \E h \in Group : /\ cloud'.groups = Append(cloud.groups, h)
                           /\ h.name = "soulstream-user" => tool'.pc = "appSeed"
                           /\ h.name = "soulstream-auth-issuer" => tool'.pc = "ctrlSeed"
      BY <2>2, <2>3, <2>4, <2>6
    <3> QED BY <1>1, <2>3, <2>4, <2>6, <3>4, <3>5, GoingOn DEF AfterConfig
  <2>7. CASE Mishap /\ cloud' \in {cloud, after} /\ tool' = Stopped
    BY <1>1, <2>3, <2>5, <2>7, MishapKeeps
  <2> QED BY <2>1, <2>6, <2>7 DEF Fatally
<1> QED BY <1>3, <1>4

\* The same for the control account's group.
LEMMA ControlGroupKnows == ASSUME IInv, ControlGroup PROVE IInv'
<1> DEFINE g == GroupIn(Control, "soulstream-auth-issuer", TRUE)
<1> DEFINE after == [cloud EXCEPT !.groups = Append(@, g)]
<1> DEFINE next == [At("ctrlSeed", tool) EXCEPT !["ctrlSk"] = Len(after.groups)]
<1> DEFINE reuse == [At("enable", tool) EXCEPT !["ctrlSk"] = CtrlSk]
<1>1. /\ tool.pc = "ctrlSk" /\ given' = given /\ disk' = disk
      /\ tool.app = App /\ App # 0 /\ tool.control = Control /\ Control # 0 /\ tool \in Tool
      /\ tool.appSk = AppSk /\ AppSk # 0
      /\ Typed /\ Control \in Nat /\ CtrlSk \in Nat /\ cloud.groups \in Seq(Group)
  BY Finds DEF ControlGroup, EnsureSkGroup, IInv, LocalsKnow, Typed,
     AfterBoth, AfterAppSk
<1>2. SkGroup(tool.control, "soulstream-auth-issuer") = CtrlSk
  BY <1>1, SearchesAre DEF CtrlSk
<1>3. CASE CtrlSk # 0
  <2>1. tool' = reuse /\ cloud' = cloud /\ mishaps' = mishaps
    BY <1>2, <1>3 DEF ControlGroup, EnsureSkGroup
  <2>2. App' = App /\ Control' = Control /\ AppSk' = AppSk /\ CtrlSk' = CtrlSk
    BY <1>1, <2>1 DEF App, Control, AppSk, CtrlSk
  <2>3. /\ reuse \in Tool /\ reuse.pc = "enable" /\ reuse.app = App
        /\ reuse.control = Control /\ reuse.ctrlSk = CtrlSk /\ reuse.appSk = AppSk
    <3> DEFINE at == At("enable", tool)
    <3>1. at \in Tool /\ at.pc = "enable" /\ at.app = App /\ at.control = Control
         /\ at.appSk = AppSk
      BY <1>1, Moves DEF Pcs, AfterBoth, AfterAppSk, AfterCtrlSk
    <3>2. reuse = [at EXCEPT !["ctrlSk"] = CtrlSk]
      OBVIOUS
    <3> HIDE DEF at, reuse
    <3> QED BY <1>1, <3>1, <3>2 DEF Tool
  <2> HIDE DEF reuse
  <2>4. LocalsKnow'
    BY <1>1, <1>3, <2>1, <2>2, <2>3
       DEF LocalsKnow, AfterBoth, AfterAppSk, AfterCtrlSk, AfterConfig
  <2>5. GrowsInto(cloud')
    BY <2>1, GrowsIntoItself
  <2> QED BY <1>1, <2>1, <2>3, <2>4, <2>5, GoingOn DEF AfterConfig
<1>4. CASE CtrlSk = 0
  <2>1. Fatally(after, next)
    BY <1>1, <1>2, <1>4 DEF ControlGroup, EnsureSkGroup
  <2>2. g \in Group /\ g.account = Control /\ g.name = "soulstream-auth-issuer"
    BY <1>1 DEF GroupIn, Group
  <2> HIDE DEF g
  <2>3. /\ GrowsInto(after) /\ after.groups = Append(cloud.groups, g)
        /\ Len(after.groups) = Len(cloud.groups) + 1 /\ Len(after.groups) \in Nat
        /\ after.accounts = cloud.accounts
    <3> HIDE DEF after
    <3>1. after = [cloud EXCEPT !.groups = Append(@, g)]
      BY DEF after
    <3> QED BY <2>2, <3>1, GroupCreated
  <2>4. /\ next \in Tool /\ next.pc = "ctrlSeed" /\ next.app = App
        /\ next.control = Control /\ next.ctrlSk = Len(cloud.groups) + 1
        /\ next.appSk = AppSk
    <3> DEFINE at == At("ctrlSeed", tool)
    <3>1. at \in Tool /\ at.pc = "ctrlSeed" /\ at.app = App /\ at.control = Control
         /\ at.appSk = AppSk
      BY <1>1, Moves DEF Pcs, AfterBoth, AfterAppSk, AfterCtrlSk
    <3>2. next = [at EXCEPT !["ctrlSk"] = Len(after.groups)]
      OBVIOUS
    <3> HIDE DEF at, next, after
    <3> QED BY <2>3, <3>1, <3>2 DEF Tool
  <2> HIDE DEF after, next
  <2>5. GrowsInto(cloud)
    BY GrowsIntoItself
  <2>6. CASE cloud' = after /\ tool' = next /\ UNCHANGED mishaps
    <3>1. App' = App /\ Control' = Control /\ AppSk' = AppSk
      BY <1>1, <2>3, <2>6, FoundStays
    <3>2. CtrlSk' = Len(cloud.groups) + 1
      BY <1>1, <1>4, <2>2, <2>3, <2>6, <3>1, FirstGroupCreated DEF CtrlSk
    <3>3. Len(cloud.groups) \in Nat
      BY <1>1, Finds
    <3>4. LocalsKnow'
      BY <1>1, <2>4, <2>6, <3>1, <3>2, <3>3
         DEF LocalsKnow, AfterBoth, AfterAppSk, AfterCtrlSk, AfterConfig
    <3>5. \E h \in Group : /\ cloud'.groups = Append(cloud.groups, h)
                           /\ h.name = "soulstream-user" => tool'.pc = "appSeed"
                           /\ h.name = "soulstream-auth-issuer" => tool'.pc = "ctrlSeed"
      BY <2>2, <2>3, <2>4, <2>6
    <3> QED BY <1>1, <2>3, <2>4, <2>6, <3>4, <3>5, GoingOn DEF AfterConfig
  <2>7. CASE Mishap /\ cloud' \in {cloud, after} /\ tool' = Stopped
    BY <1>1, <2>3, <2>5, <2>7, MishapKeeps
  <2> QED BY <2>1, <2>6, <2>7 DEF Fatally
<1> QED BY <1>3, <1>4

\* The seed written is of the group that was just created.
LEMMA AppSeedKnows == ASSUME IInv, AppSeed PROVE IInv'
<1>1. /\ tool.pc = "appSeed" /\ given' = given /\ cloud' = cloud /\ mishaps' = mishaps
      /\ disk' = [disk EXCEPT !["sk-soulstream-user.seed"] = AppSk]
      /\ tool' = At("ctrlSk", tool)
      /\ Typed /\ tool \in Tool /\ disk \in [Files -> Nat]
      /\ TargetKnown /\ SeedsKnown /\ IdsInRange
      /\ App # 0 /\ Control # 0 /\ AppSk # 0
  BY DEF AppSeed, WriteSeed, IInv, LocalsKnow, Typed, AfterBoth, AfterAppSk, AfterCtrlSk
<1>2. /\ tool' \in Tool /\ tool'.pc = "ctrlSk" /\ tool'.app = tool.app
      /\ tool'.control = tool.control /\ tool'.appSk = tool.appSk
      /\ tool'.ctrlSk = tool.ctrlSk
  BY <1>1, Moves DEF Pcs, AfterBoth, AfterAppSk, AfterCtrlSk
<1>3. App' = App /\ Control' = Control /\ AppSk' = AppSk /\ CtrlSk' = CtrlSk
  BY <1>1 DEF App, Control, AppSk, CtrlSk
<1>4. /\ disk' \in [Files -> Nat] /\ disk'["sk-soulstream-user.seed"] = AppSk
      /\ \A f \in Files : f # "sk-soulstream-user.seed" => disk'[f] = disk[f]
  <2>1. AppSk \in Nat
    BY <1>1, Finds
  <2>2. "sk-soulstream-user.seed" \in Files
    BY DEF Files
  <2> QED BY <1>1, <2>1, <2>2
<1>5. Typed'
  BY <1>1, <1>2, <1>4 DEF Typed
<1>6. IdsInRange' /\ TargetKnown'
  BY <1>1, <1>3, <1>4 DEF IdsInRange, TargetKnown, Files
<1>7. LocalsKnow'
  BY <1>1, <1>2, <1>3
     DEF IInv, LocalsKnow, AfterBoth, AfterAppSk, AfterCtrlSk, AfterConfig
<1>8. SeedsKnown'
  <2>1. /\ AppSk \in DOMAIN cloud.groups
        /\ cloud.groups[AppSk].account = App
        /\ AppSk = FirstGroup(cloud.groups, App, "soulstream-user")
    <3>1. cloud.groups \in Seq(Group) /\ DOMAIN cloud.groups = 1..Len(cloud.groups)
      BY <1>1, Finds
    <3>2. Len(cloud.groups) \in Nat /\ AppSk \in 0..Len(cloud.groups)
      BY <1>1, Finds
    <3> QED BY <1>1, <3>1, <3>2, FirstGroupFinds DEF AppSk
  <2> QED BY <1>1, <1>4, <2>1 DEF SeedsKnown, SeedOf, Files
<1>9. Undisturbed'
  BY <1>1, <1>2, <1>4 DEF IInv, Undisturbed, Kept, Files, AfterConfig
<1> QED BY <1>5, <1>6, <1>7, <1>8, <1>9 DEF IInv

\* The same for the control account's seed.
LEMMA ControlSeedKnows == ASSUME IInv, ControlSeed PROVE IInv'
<1>1. /\ tool.pc = "ctrlSeed" /\ given' = given /\ cloud' = cloud /\ mishaps' = mishaps
      /\ disk' = [disk EXCEPT !["sk-soulstream-auth-issuer.seed"] = CtrlSk]
      /\ tool' = At("enable", tool)
      /\ Typed /\ tool \in Tool /\ disk \in [Files -> Nat]
      /\ TargetKnown /\ SeedsKnown /\ IdsInRange
      /\ App # 0 /\ Control # 0 /\ CtrlSk # 0
  BY DEF ControlSeed, WriteSeed, IInv, LocalsKnow, Typed, AfterBoth, AfterAppSk, AfterCtrlSk
<1>2. /\ tool' \in Tool /\ tool'.pc = "enable" /\ tool'.app = tool.app
      /\ tool'.control = tool.control /\ tool'.appSk = tool.appSk
      /\ tool'.ctrlSk = tool.ctrlSk
  BY <1>1, Moves DEF Pcs, AfterBoth, AfterAppSk, AfterCtrlSk
<1>3. App' = App /\ Control' = Control /\ AppSk' = AppSk /\ CtrlSk' = CtrlSk
  BY <1>1 DEF App, Control, AppSk, CtrlSk
<1>4. /\ disk' \in [Files -> Nat] /\ disk'["sk-soulstream-auth-issuer.seed"] = CtrlSk
      /\ \A f \in Files : f # "sk-soulstream-auth-issuer.seed" => disk'[f] = disk[f]
  <2>1. CtrlSk \in Nat
    BY <1>1, Finds
  <2>2. "sk-soulstream-auth-issuer.seed" \in Files
    BY DEF Files
  <2> QED BY <1>1, <2>1, <2>2
<1>5. Typed'
  BY <1>1, <1>2, <1>4 DEF Typed
<1>6. IdsInRange' /\ TargetKnown'
  BY <1>1, <1>3, <1>4 DEF IdsInRange, TargetKnown, Files
<1>7. LocalsKnow'
  BY <1>1, <1>2, <1>3
     DEF IInv, LocalsKnow, AfterBoth, AfterAppSk, AfterCtrlSk, AfterConfig
<1>8. SeedsKnown'
  <2>1. /\ CtrlSk \in DOMAIN cloud.groups
        /\ cloud.groups[CtrlSk].account = Control
        /\ CtrlSk = FirstGroup(cloud.groups, Control, "soulstream-auth-issuer")
    <3>1. cloud.groups \in Seq(Group) /\ DOMAIN cloud.groups = 1..Len(cloud.groups)
      BY <1>1, Finds
    <3>2. Len(cloud.groups) \in Nat /\ CtrlSk \in 0..Len(cloud.groups)
      BY <1>1, Finds
    <3> QED BY <1>1, <3>1, <3>2, FirstGroupFinds DEF CtrlSk
  <2> QED BY <1>1, <1>4, <2>1 DEF SeedsKnown, SeedOf, Files
<1>9. Undisturbed'
  BY <1>1, <1>2, <1>4 DEF IInv, Undisturbed, Kept, Files, AfterConfig
<1> QED BY <1>5, <1>6, <1>7, <1>8, <1>9 DEF IInv

\* Behind the two groups, what the run knows is carried along.
LEMMA Carried ==
  ASSUME IInv, GrowsInto(cloud'), given' = given,
         tool.pc \in AfterCtrlSk, tool'.pc \in AfterCtrlSk,
         tool'.app = tool.app, tool'.control = tool.control,
         tool'.appSk = tool.appSk, tool'.ctrlSk = tool.ctrlSk,
         tool'.pc \in AfterConfig => cloud'.callout = "ours",
         tool'.pc = "issuer" => tool'.issuerSk \in DOMAIN cloud'.groups,
         tool'.pc \in {"register", "creds", "done"} => tool'.issuer \in DOMAIN cloud'.users
  PROVE  LocalsKnow'
<1>1. /\ tool.app = App /\ App # 0 /\ tool.control = Control /\ Control # 0
      /\ tool.appSk = AppSk /\ AppSk # 0 /\ tool.ctrlSk = CtrlSk /\ CtrlSk # 0
  BY DEF IInv, LocalsKnow, AfterBoth, AfterAppSk, AfterCtrlSk
<1>2. App' = App /\ Control' = Control /\ AppSk' = AppSk /\ CtrlSk' = CtrlSk
  BY <1>1, FoundStays
<1>3. tool'.pc \notin {"control", "stopped", "discover"}
  BY DEF AfterCtrlSk
<1> QED BY <1>1, <1>2, <1>3 DEF LocalsKnow

\* Enabling may be refused or fail: the run goes on.
LEMMA EnableKnows == ASSUME IInv, Enable PROVE IInv'
<1> DEFINE after == [cloud EXCEPT !.callout = "ours"]
<1>1. /\ tool.pc = "enable" /\ given' = given /\ disk' = disk
      /\ tool' = At("config", tool) /\ cloud' \in {cloud, after}
      /\ mishaps' = mishaps \/ Mishap
      /\ Typed /\ tool \in Tool /\ cloud \in Cloud
  BY DEF Enable, Tolerantly, IInv, Typed
<1>2. /\ tool' \in Tool /\ tool'.pc = "config" /\ tool'.app = tool.app
      /\ tool'.control = tool.control /\ tool'.appSk = tool.appSk
      /\ tool'.ctrlSk = tool.ctrlSk
  BY <1>1, Moves DEF Pcs, AfterBoth, AfterAppSk, AfterCtrlSk
<1>3. /\ after \in Cloud /\ after.accounts = cloud.accounts /\ after.groups = cloud.groups
      /\ after.users = cloud.users /\ after.listeners = cloud.listeners
      /\ after.target = cloud.target
  BY <1>1 DEF Cloud
<1> HIDE DEF after
<1>4. GrowsInto(cloud)
  BY GrowsIntoItself
<1>5. GrowsInto(after)
  BY <1>3, <1>4 DEF GrowsInto
<1>6. GrowsInto(cloud') /\ cloud'.groups = cloud.groups
  BY <1>1, <1>3, <1>4, <1>5
<1>7. LocalsKnow'
  BY <1>1, <1>2, <1>6, Carried DEF AfterCtrlSk, AfterConfig
<1> QED BY <1>1, <1>2, <1>6, <1>7, GoingOn DEF AfterConfig

\* Only with a callout config of the control account does the run go on.
LEMMA FindConfigKnows == ASSUME IInv, FindConfig PROVE IInv'
<1>1. /\ tool.pc = "config" /\ given' = given /\ disk' = disk /\ cloud' = cloud
      /\ Typed /\ tool \in Tool
  BY DEF FindConfig, Fatally, IInv, Typed
<1>2. GrowsInto(cloud')
  BY <1>1, GrowsIntoItself
<1>3. CASE cloud.callout = "ours" /\ tool' = At("target", tool) /\ UNCHANGED mishaps
  <2>1. /\ tool' \in Tool /\ tool'.pc = "target" /\ tool'.app = tool.app
        /\ tool'.control = tool.control /\ tool'.appSk = tool.appSk
        /\ tool'.ctrlSk = tool.ctrlSk
    BY <1>1, <1>3, Moves DEF Pcs, AfterBoth, AfterAppSk, AfterCtrlSk
  <2>2. LocalsKnow'
    BY <1>1, <1>2, <1>3, <2>1, Carried DEF AfterCtrlSk, AfterConfig
  <2> QED BY <1>1, <1>2, <1>3, <2>1, <2>2, GoingOn DEF AfterConfig
<1>4. CASE Mishap /\ tool' = Stopped
  BY <1>1, <1>2, <1>4, MishapKeeps
<1>5. CASE tool' = Stopped /\ UNCHANGED <<cloud, mishaps>>
  BY <1>1, <1>5, Ends
<1> QED BY <1>3, <1>4, <1>5 DEF FindConfig, Fatally

\* The two groups the run knows are what gets wired.
LEMMA AddTargetKnows == ASSUME IInv, AddTarget PROVE IInv'
<1> DEFINE wired == <<AppSk, CtrlSk>>
<1> DEFINE after == [cloud EXCEPT !.target = wired]
<1>1. /\ tool.pc = "target" /\ given' = given /\ disk' = disk
      /\ Typed /\ tool \in Tool /\ cloud \in Cloud /\ cloud.callout = "ours"
      /\ tool.appSk = AppSk /\ AppSk # 0 /\ tool.ctrlSk = CtrlSk /\ CtrlSk # 0
      /\ App # 0 /\ Control # 0
  BY DEF AddTarget, IInv, Typed, LocalsKnow, AfterConfig, AfterBoth, AfterAppSk, AfterCtrlSk
<1>2. /\ tool' = At("issuerSk", tool) /\ cloud' \in {cloud, after}
      /\ \/ /\ mishaps' = mishaps
            /\ cloud.target = <<>> => cloud' = after
            /\ cloud.target # <<>> => cloud' = cloud
         \/ Mishap
  BY <1>1 DEF AddTarget, Tolerantly
<1>3. AppSk \in Nat /\ CtrlSk \in Nat
  BY <1>1, Finds
<1>4. wired \in Seq(Nat) /\ wired # <<>>
  BY <1>3
<1>5. /\ tool' \in Tool /\ tool'.pc = "issuerSk" /\ tool'.app = tool.app
      /\ tool'.control = tool.control /\ tool'.appSk = tool.appSk
      /\ tool'.ctrlSk = tool.ctrlSk
  BY <1>1, <1>2, Moves DEF Pcs, AfterBoth, AfterAppSk, AfterCtrlSk
<1>6. wired = <<AppSk, CtrlSk>>
  OBVIOUS
<1> HIDE DEF wired
<1>7. /\ after \in Cloud /\ after.accounts = cloud.accounts /\ after.groups = cloud.groups
      /\ after.users = cloud.users /\ after.listeners = cloud.listeners
      /\ after.callout = cloud.callout /\ after.target = wired
  BY <1>1, <1>4 DEF Cloud
<1> HIDE DEF after
<1>8. GrowsInto(cloud)
  BY GrowsIntoItself
<1>9. GrowsInto(after)
  BY <1>1, <1>6, <1>7, <1>8 DEF GrowsInto
<1>10. GrowsInto(cloud') /\ cloud'.groups = cloud.groups /\ cloud'.callout = "ours"
  BY <1>1, <1>2, <1>7, <1>8, <1>9
<1>11. LocalsKnow'
  BY <1>1, <1>5, <1>10, Carried DEF AfterCtrlSk, AfterConfig
<1>12. mishaps' = mishaps => cloud'.target # <<>>
  <2>1. ASSUME Mishap, mishaps' = mishaps PROVE FALSE
    <3>1. mishaps \in Nat /\ mishaps' = mishaps + 1
      BY <1>1, <2>1 DEF Mishap, Typed
    <3> QED BY <2>1, <3>1
  <2> QED BY <1>2, <1>4, <1>7, <2>1
<1> QED BY <1>1, <1>2, <1>5, <1>10, <1>11, <1>12, GoingOn DEF AfterConfig

\* The first of some places in a list, or none.
FirstOf(I) == IF I # {} THEN Min(I) ELSE 0

OnDemands(a) == {i \in 1..Len(cloud.groups) : cloud.groups[i] = GroupIn(a, "auth-users", FALSE)}
UsersOf(a)   == {i \in 1..Len(cloud.users) : cloud.users[i].account = a}

\* It is one of those places if there are any.
LEMMA FirstOfFinds ==
  ASSUME NEW n \in Nat, NEW I \in SUBSET (1..n)
  PROVE  /\ FirstOf(I) \in 0..n
         /\ FirstOf(I) # 0 => FirstOf(I) \in I
         /\ FirstOf(I) = 0 => I = {}
<1>1. \A i \in I : i \in Nat /\ i # 0 /\ i \in 0..n
  OBVIOUS
<1>2. I \in SUBSET Nat
  BY <1>1
<1>3. I # {} => Min(I) \in I
  BY <1>2, LeastOf
<1>4. 0 \in 0..n
  OBVIOUS
<1>5. CASE I # {}
  BY <1>1, <1>3, <1>5, Zenon DEF FirstOf
<1>6. CASE I = {}
  BY <1>4, <1>6, Zenon DEF FirstOf
<1> QED BY <1>5, <1>6

\* The on-demand group and the issuer's user are searched like that
\* (main.go:261-285).
LEMMA OnDemandIs ==
  ASSUME NEW a PROVE OnDemandGroup(a) = FirstOf(OnDemands(a))
BY DEF OnDemandGroup, SelectInSeq, FirstOf, OnDemands

\* The search for the issuer's user.
LEMMA UserIs ==
  SelectInSeq(cloud.users, LAMBDA u : u.account = tool.control) = FirstOf(UsersOf(tool.control))
BY DEF SelectInSeq, FirstOf, UsersOf

\* The issuer's group is found or created.
LEMMA EnsureOnDemandKnows == ASSUME IInv, EnsureOnDemandSkGroup PROVE IInv'
<1> DEFINE g == GroupIn(Control, "auth-users", FALSE)
<1> DEFINE have == OnDemandGroup(tool.control)
<1> DEFINE after == [cloud EXCEPT !.groups = Append(@, g)]
<1> DEFINE next == [At("issuer", tool) EXCEPT !.issuerSk = Len(after.groups)]
<1> DEFINE reuse == [At("issuer", tool) EXCEPT !.issuerSk = have]
<1> DEFINE at == At("issuer", tool)
<1>1. /\ tool.pc = "issuerSk" /\ given' = given /\ disk' = disk
      /\ Typed /\ tool \in Tool /\ tool.control = Control /\ Control \in Nat
      /\ Len(cloud.groups) \in Nat /\ DOMAIN cloud.groups = 1..Len(cloud.groups)
      /\ cloud.callout = "ours"
      /\ mishaps = 0 /\ given.groups = <<>> => cloud.target # <<>>
  BY Finds DEF EnsureOnDemandSkGroup, IInv, Typed, LocalsKnow, Undisturbed, AfterConfig,
               AfterBoth, AfterAppSk, AfterCtrlSk
<1>2. have \in 0..Len(cloud.groups)
  <2>1. OnDemands(Control) \in SUBSET (1..Len(cloud.groups))
    BY DEF OnDemands
  <2> QED BY <1>1, <2>1, OnDemandIs, FirstOfFinds
<1>3. /\ at \in Tool /\ at.pc = "issuer" /\ at.app = tool.app /\ at.control = tool.control
      /\ at.appSk = tool.appSk /\ at.ctrlSk = tool.ctrlSk
  BY <1>1, Moves DEF Pcs, AfterBoth, AfterAppSk, AfterCtrlSk
<1>4. CASE have # 0
  <2>1. tool' = reuse /\ cloud' = cloud /\ mishaps' = mishaps
    BY <1>4 DEF EnsureOnDemandSkGroup
  <2>2. reuse = [at EXCEPT !.issuerSk = have]
    OBVIOUS
  <2>3. have \in Nat /\ have \in DOMAIN cloud.groups
    BY <1>1, <1>2, <1>4
  <2> HIDE DEF at, reuse, have
  <2>4. /\ reuse \in Tool /\ reuse.pc = "issuer" /\ reuse.app = tool.app
        /\ reuse.control = tool.control /\ reuse.appSk = tool.appSk
        /\ reuse.ctrlSk = tool.ctrlSk /\ reuse.issuerSk = have
    BY <1>3, <2>2, <2>3 DEF Tool
  <2>5. GrowsInto(cloud')
    BY <2>1, GrowsIntoItself
  <2>6. LocalsKnow'
    BY <1>1, <2>1, <2>3, <2>4, <2>5, Carried DEF AfterCtrlSk, AfterConfig
  <2> QED BY <1>1, <2>1, <2>4, <2>5, <2>6, GoingOn DEF AfterConfig
<1>5. CASE have = 0
  <2>1. Fatally(after, next)
    BY <1>1, <1>5 DEF EnsureOnDemandSkGroup
  <2>2. g \in Group /\ g.name = "auth-users"
    BY <1>1 DEF GroupIn, Group
  <2> HIDE DEF g
  <2>3. /\ GrowsInto(after) /\ after.groups = Append(cloud.groups, g)
        /\ Len(after.groups) \in DOMAIN after.groups /\ Len(after.groups) \in Nat
        /\ after.callout = cloud.callout /\ after.target = cloud.target
    <3> HIDE DEF after
    <3>1. after = [cloud EXCEPT !.groups = Append(@, g)]
      BY DEF after
    <3>2. /\ GrowsInto(after) /\ after.groups = Append(cloud.groups, g)
          /\ Len(after.groups) = Len(cloud.groups) + 1
          /\ DOMAIN after.groups = 1..(Len(cloud.groups) + 1)
          /\ after.callout = cloud.callout /\ after.target = cloud.target
      BY <2>2, <3>1, GroupCreated
    <3> QED BY <1>1, <3>2
  <2>4. next = [at EXCEPT !.issuerSk = Len(after.groups)]
    OBVIOUS
  <2> HIDE DEF at, next, after
  <2>5. /\ next \in Tool /\ next.pc = "issuer" /\ next.app = tool.app
        /\ next.control = tool.control /\ next.appSk = tool.appSk
        /\ next.ctrlSk = tool.ctrlSk /\ next.issuerSk = Len(after.groups)
    BY <1>3, <2>3, <2>4 DEF Tool
  <2>6. GrowsInto(cloud)
    BY GrowsIntoItself
  <2>7. CASE cloud' = after /\ tool' = next /\ UNCHANGED mishaps
    <3>1. LocalsKnow'
      BY <1>1, <2>3, <2>5, <2>7, Carried DEF AfterCtrlSk, AfterConfig
    <3>2. \E h \in Group : /\ cloud'.groups = Append(cloud.groups, h)
                           /\ h.name = "soulstream-user" => tool'.pc = "appSeed"
                           /\ h.name = "soulstream-auth-issuer" => tool'.pc = "ctrlSeed"
      BY <2>2, <2>3, <2>7
    <3> QED BY <1>1, <2>3, <2>5, <2>7, <3>1, <3>2, GoingOn DEF AfterConfig
  <2>8. CASE Mishap /\ cloud' \in {cloud, after} /\ tool' = Stopped
    BY <1>1, <2>3, <2>6, <2>8, MishapKeeps
  <2> QED BY <2>1, <2>7, <2>8 DEF Fatally
<1> QED BY <1>4, <1>5

\* The issuer's user is found, or created under a group there is.
LEMMA EnsureNatsUserKnows == ASSUME IInv, EnsureNatsUser PROVE IInv'
<1> DEFINE u == [account |-> tool.control, group |-> tool.issuerSk]
<1> DEFINE have == FirstOf(UsersOf(tool.control))
<1> DEFINE us == Append(cloud.users, u)
<1> DEFINE after == [cloud EXCEPT !.users = us]
<1> DEFINE next == [At("register", tool) EXCEPT !.issuer = Len(after.users)]
<1> DEFINE reuse == [At("register", tool) EXCEPT !.issuer = have]
<1> DEFINE at == At("register", tool)
<1>1. /\ tool.pc = "issuer" /\ given' = given /\ disk' = disk
      /\ Typed /\ tool \in Tool /\ IdsInRange /\ cloud \in Cloud
      /\ tool.control \in Nat /\ tool.issuerSk \in Nat /\ tool.issuerSk \in DOMAIN cloud.groups
      /\ cloud.users \in Seq(User) /\ Len(cloud.users) \in Nat
      /\ DOMAIN cloud.users = 1..Len(cloud.users)
      /\ cloud.callout = "ours"
      /\ mishaps = 0 /\ given.groups = <<>> => cloud.target # <<>>
  BY Finds DEF EnsureNatsUser, IInv, Typed, Tool, LocalsKnow, Undisturbed, AfterConfig
<1>2. have \in 0..Len(cloud.users)
  <2>1. UsersOf(tool.control) \in SUBSET (1..Len(cloud.users))
    BY DEF UsersOf
  <2> QED BY <1>1, <2>1, FirstOfFinds
<1>3. /\ at \in Tool /\ at.pc = "register" /\ at.app = tool.app /\ at.control = tool.control
      /\ at.appSk = tool.appSk /\ at.ctrlSk = tool.ctrlSk
  BY <1>1, Moves DEF Pcs, AfterBoth, AfterAppSk, AfterCtrlSk
<1>4. \/ have # 0 /\ tool' = reuse /\ cloud' = cloud /\ mishaps' = mishaps
      \/ tool' = Stopped /\ cloud' = cloud /\ mishaps' = mishaps
      \/ Fatally(after, next)
  BY UserIs DEF EnsureNatsUser
<1>5. CASE have # 0 /\ tool' = reuse /\ cloud' = cloud /\ mishaps' = mishaps
  <2>1. reuse = [at EXCEPT !.issuer = have]
    OBVIOUS
  <2>2. have \in Nat /\ have \in DOMAIN cloud.users
    BY <1>1, <1>2, <1>5
  <2> HIDE DEF at, reuse, have
  <2>3. /\ reuse \in Tool /\ reuse.pc = "register" /\ reuse.app = tool.app
        /\ reuse.control = tool.control /\ reuse.appSk = tool.appSk
        /\ reuse.ctrlSk = tool.ctrlSk /\ reuse.issuer = have
    BY <1>3, <2>1, <2>2 DEF Tool
  <2>4. GrowsInto(cloud')
    BY <1>5, GrowsIntoItself
  <2>5. LocalsKnow'
    BY <1>1, <1>5, <2>2, <2>3, <2>4, Carried DEF AfterCtrlSk, AfterConfig
  <2> QED BY <1>1, <1>5, <2>3, <2>4, <2>5, GoingOn DEF AfterConfig
<1>6. CASE tool' = Stopped /\ cloud' = cloud /\ mishaps' = mishaps
  BY <1>1, <1>6, Ends
<1>7. CASE Fatally(after, next)
  <2>1. u \in User /\ u.group \in DOMAIN cloud.groups
    BY <1>1 DEF User
  <2> HIDE DEF u
  <2>2. /\ us \in Seq(User) /\ Len(us) = Len(cloud.users) + 1
        /\ DOMAIN us = 1..(Len(cloud.users) + 1)
        /\ \A i \in 1..Len(cloud.users) : us[i] = cloud.users[i]
        /\ us[Len(cloud.users) + 1] = u
    BY <1>1, <2>1, Appended
  <2> HIDE DEF us
  <2>3. /\ after \in Cloud /\ after.accounts = cloud.accounts /\ after.groups = cloud.groups
        /\ after.users = us /\ after.listeners = cloud.listeners
        /\ after.callout = cloud.callout /\ after.target = cloud.target
    BY <1>1, <2>2 DEF Cloud
  <2>4. next = [at EXCEPT !.issuer = Len(after.users)]
    OBVIOUS
  <2> HIDE DEF at, next, after
  <2>5. /\ Len(after.users) \in Nat /\ Len(after.users) \in DOMAIN after.users
        /\ Len(cloud.users) <= Len(after.users)
        /\ \A i \in DOMAIN cloud.users : i \in DOMAIN after.users
    BY <1>1, <2>2, <2>3
  <2>6. \A i \in DOMAIN after.users : after.users[i].group \in DOMAIN after.groups
    <3>1. SUFFICES ASSUME NEW i \in DOMAIN us PROVE us[i].group \in DOMAIN cloud.groups
      BY <2>3
    <3>2. CASE i \in 1..Len(cloud.users)
      BY <1>1, <2>2, <3>2 DEF IdsInRange
    <3>3. CASE i = Len(cloud.users) + 1
      BY <2>1, <2>2, <3>3
    <3> QED BY <1>1, <2>2, <3>1, <3>2, <3>3
  <2>7. GrowsInto(cloud)
    BY GrowsIntoItself
  <2>8. GrowsInto(after)
    BY <1>1, <2>3, <2>5, <2>6, <2>7 DEF GrowsInto, IdsInRange
  <2>9. /\ next \in Tool /\ next.pc = "register" /\ next.app = tool.app
        /\ next.control = tool.control /\ next.appSk = tool.appSk
        /\ next.ctrlSk = tool.ctrlSk /\ next.issuer = Len(after.users)
    BY <1>3, <2>4, <2>5 DEF Tool
  <2>10. CASE cloud' = after /\ tool' = next /\ UNCHANGED mishaps
    <3>1. LocalsKnow'
      BY <1>1, <2>3, <2>5, <2>8, <2>9, <2>10, Carried DEF AfterCtrlSk, AfterConfig
    <3> QED BY <1>1, <2>3, <2>8, <2>9, <2>10, <3>1, GoingOn DEF AfterConfig
  <2>11. CASE Mishap /\ cloud' \in {cloud, after} /\ tool' = Stopped
    BY <1>1, <2>7, <2>8, <2>11, MishapKeeps
  <2> QED BY <1>7, <2>10, <2>11 DEF Fatally
<1> QED BY <1>4, <1>5, <1>6, <1>7

\* The issuer's user is registered, if it was not.
LEMMA AddCalloutUserKnows == ASSUME IInv, AddCalloutUser PROVE IInv'
<1> DEFINE ls == cloud.listeners \cup {tool.issuer}
<1> DEFINE after == [cloud EXCEPT !.listeners = ls]
<1>1. /\ tool.pc = "register" /\ given' = given /\ disk' = disk
      /\ Typed /\ tool \in Tool /\ IdsInRange /\ cloud \in Cloud /\ cloud.callout = "ours"
      /\ tool.issuer \in DOMAIN cloud.users /\ tool.issuer \in Nat
      /\ mishaps = 0 /\ given.groups = <<>> => cloud.target # <<>>
  BY DEF AddCalloutUser, IInv, Typed, Tool, LocalsKnow, Undisturbed, AfterConfig
<1>2. /\ tool' = At("creds", tool) /\ cloud' \in {cloud, after}
      /\ \/ /\ mishaps' = mishaps
            /\ tool.issuer \notin cloud.listeners => cloud' = after
         \/ Mishap
  BY DEF AddCalloutUser, Tolerantly
<1>3. /\ tool' \in Tool /\ tool'.pc = "creds" /\ tool'.app = tool.app
      /\ tool'.control = tool.control /\ tool'.appSk = tool.appSk
      /\ tool'.ctrlSk = tool.ctrlSk /\ tool'.issuer = tool.issuer
  BY <1>1, <1>2, Moves DEF Pcs, AfterBoth, AfterAppSk, AfterCtrlSk
<1>4. /\ ls \in SUBSET Nat /\ tool.issuer \in ls
      /\ cloud.listeners \subseteq DOMAIN cloud.users => ls \subseteq DOMAIN cloud.users
  BY <1>1 DEF Cloud
<1> HIDE DEF ls
<1>5. /\ after \in Cloud /\ after.accounts = cloud.accounts /\ after.groups = cloud.groups
      /\ after.users = cloud.users /\ after.listeners = ls
      /\ after.callout = cloud.callout /\ after.target = cloud.target
  BY <1>1, <1>4 DEF Cloud
<1> HIDE DEF after
<1>6. GrowsInto(cloud)
  BY GrowsIntoItself
<1>7. GrowsInto(after)
  BY <1>1, <1>4, <1>5, <1>6 DEF GrowsInto, IdsInRange
<1>8. /\ GrowsInto(cloud') /\ cloud'.groups = cloud.groups /\ cloud'.users = cloud.users
      /\ cloud'.callout = "ours" /\ cloud'.target = cloud.target
  BY <1>1, <1>2, <1>5, <1>6, <1>7
<1>9. LocalsKnow'
  BY <1>1, <1>3, <1>8, Carried DEF AfterCtrlSk, AfterConfig
<1>10. mishaps' = mishaps => tool'.issuer \in cloud'.listeners
  <2>1. ASSUME Mishap, mishaps' = mishaps PROVE FALSE
    <3>1. mishaps \in Nat /\ mishaps' = mishaps + 1
      BY <1>1, <2>1 DEF Mishap, Typed
    <3> QED BY <2>1, <3>1
  <2> QED BY <1>2, <1>3, <1>4, <1>5, <2>1
<1> QED BY <1>1, <1>2, <1>3, <1>8, <1>9, <1>10, GoingOn DEF AfterConfig

\* The creds handed over are of the issuer's user.
LEMMA DownloadCredsKnows == ASSUME IInv, DownloadCreds PROVE IInv'
<1>1. /\ tool.pc = "creds" /\ given' = given /\ cloud' = cloud /\ mishaps' = mishaps
      /\ disk' = [disk EXCEPT !["auth-issuer.creds"] = tool.issuer]
      /\ tool' = At("done", tool)
      /\ Typed /\ tool \in Tool /\ disk \in [Files -> Nat]
      /\ TargetKnown /\ SeedsKnown /\ IdsInRange /\ cloud.callout = "ours"
      /\ tool.issuer \in DOMAIN cloud.users /\ tool.issuer \in Nat
      /\ DOMAIN cloud.users = 1..Len(cloud.users) /\ Len(cloud.users) \in Nat
  BY Finds DEF DownloadCreds, IInv, LocalsKnow, Typed, Tool, AfterConfig
<1>2. /\ tool' \in Tool /\ tool'.pc = "done" /\ tool'.app = tool.app
      /\ tool'.control = tool.control /\ tool'.appSk = tool.appSk
      /\ tool'.ctrlSk = tool.ctrlSk /\ tool'.issuer = tool.issuer
  BY <1>1, Moves DEF Pcs, AfterBoth, AfterAppSk, AfterCtrlSk
<1>3. App' = App /\ Control' = Control /\ AppSk' = AppSk /\ CtrlSk' = CtrlSk
  BY <1>1 DEF App, Control, AppSk, CtrlSk
<1>4. /\ disk' \in [Files -> Nat] /\ disk'["auth-issuer.creds"] = tool.issuer
      /\ \A f \in Files : f # "auth-issuer.creds" => disk'[f] = disk[f]
  <2>1. "auth-issuer.creds" \in Files
    BY DEF Files
  <2> QED BY <1>1, <2>1
<1>5. tool.issuer \in 0..Len(cloud.users) /\ tool.issuer # 0
  BY <1>1
<1>6. Typed'
  BY <1>1, <1>2, <1>4 DEF Typed
<1>7. IdsInRange' /\ TargetKnown'
  BY <1>1, <1>3, <1>4, <1>5 DEF IdsInRange, TargetKnown
<1>8. LocalsKnow'
  <2>1. GrowsInto(cloud')
    BY <1>1, GrowsIntoItself
  <2> QED BY <1>1, <1>2, <2>1, Carried DEF AfterCtrlSk
<1>9. SeedsKnown'
  BY <1>1, <1>4 DEF SeedsKnown, SeedOf, Files
<1>10. Undisturbed'
  BY <1>1, <1>2, <1>4, <1>5 DEF IInv, Undisturbed, Kept, Files, AfterConfig
<1> QED BY <1>6, <1>7, <1>8, <1>9, <1>10 DEF IInv

\* A crash leaves the system and the directory as they are.
LEMMA CrashKnows == ASSUME IInv, Crash PROVE IInv'
<1>1. cloud' = cloud
  BY DEF Crash
<1>2. GrowsInto(cloud')
  BY <1>1, GrowsIntoItself
<1> QED BY <1>2, MishapKeeps DEF Crash

\* So does starting again.
LEMMA RerunKnows == ASSUME IInv, Rerun PROVE IInv'
BY Ends DEF Rerun

\* Nothing is there yet but what the system started with.
LEMMA InitKnows == ASSUME Init PROVE IInv
<1>1. PICK a \in InitialAccounts, g \in InitialGroups, c \in InitialCallouts, f \in AppFlags :
        /\ cloud = [accounts |-> a, groups |-> g, users |-> <<>>, callout |-> c,
                    target |-> <<>>, listeners |-> {}]
        /\ given = [appFlag |-> f, groups |-> g]
  BY DEF Init
<1>2. /\ disk = [h \in Files |-> 0] /\ tool = Fresh /\ mishaps = 0
  BY DEF Init
<1>3. /\ a \in Seq(Account) /\ g \in Seq(Group) /\ c \in {"none", "ours", "other"}
      /\ f \in BOOLEAN
  BY <1>1, SetupConstants
<1>4. <<>> \in Seq(User) /\ <<>> \in Seq(Nat) /\ {} \in SUBSET Nat /\ DOMAIN <<>> = {}
      /\ 0 \in 0..Len(<<>>)
  OBVIOUS
<1>5. cloud \in Cloud
  <2> HIDE DEF Account, Group
  <2> QED BY <1>1, <1>3, <1>4 DEF Cloud
<1>6. given \in [appFlag : BOOLEAN, groups : Seq(Group)]
  BY <1>1, <1>3
<1>7. disk \in [Files -> Nat] /\ \A h \in Files : disk[h] = 0
  BY <1>2
<1>8. tool \in Tool /\ tool.pc = "discover"
  BY <1>2 DEF Fresh, Tool
<1>9. Typed
  BY <1>2, <1>5, <1>6, <1>7, <1>8 DEF Typed
<1>10. IdsInRange
  BY <1>1, <1>4, <1>7 DEF IdsInRange, Files
<1>11. LocalsKnow /\ TargetKnown
  BY <1>1, <1>2, <1>8
     DEF LocalsKnow, TargetKnown, Fresh, AfterBoth, AfterAppSk, AfterCtrlSk, AfterConfig
<1>12. SeedsKnown
  BY <1>7 DEF SeedsKnown, SeedOf, Files
<1>13. Undisturbed
  <2>1. given.groups = cloud.groups
    BY <1>1
  <2>2. given.groups = <<>> => DOMAIN cloud.groups = {}
    BY <1>4, <2>1
  <2> QED BY <1>8, <2>2 DEF Undisturbed, Kept, AfterConfig
<1> QED BY <1>9, <1>10, <1>11, <1>12, <1>13 DEF IInv

\* Every step of the tool, every crash and every rerun keeps the invariant.
LEMMA StepKnows == ASSUME IInv, [Next]_vars PROVE IInv'
<1>1. CASE UNCHANGED vars
  BY <1>1 DEF vars, IInv, Typed, IdsInRange, LocalsKnow, TargetKnown, SeedsKnown, Undisturbed,
              App, Control, AppSk, CtrlSk, SeedOf, Kept
<1>2. CASE Step
  BY <1>2, DiscoverKnows, CreateControlKnows, AppGroupKnows, AppSeedKnows,
     ControlGroupKnows, ControlSeedKnows, EnableKnows, FindConfigKnows, AddTargetKnows,
     EnsureOnDemandKnows, EnsureNatsUserKnows, AddCalloutUserKnows, DownloadCredsKnows DEF Step
<1> QED BY <1>1, <1>2, CrashKnows, RerunKnows DEF Next

\* The invariant holds in every reachable state.
THEOREM InvariantHolds == Spec => []IInv
BY InitKnows, StepKnows, PTL DEF Spec

---------------------------------------------------------------------------
(* What follows.                                                           *)

\* Every id the tool keeps, wires or hands over is of something there is,
\* and a run that ends well ends with callout enabled.
THEOREM TypeCorrect == Spec => []TypeOK
<1>1. ASSUME IInv PROVE TypeOK
  <2>1. /\ cloud.accounts \in Seq(Account) /\ cloud.groups \in Seq(Group)
        /\ cloud.callout \in {"none", "ours", "other"} /\ tool \in Tool
        /\ App \in 0..Len(cloud.accounts) /\ Control \in 0..Len(cloud.accounts)
        /\ Len(cloud.accounts) \in Nat /\ Len(cloud.groups) \in Nat
        /\ DOMAIN cloud.groups = 1..Len(cloud.groups)
        /\ AppSk \in 0..Len(cloud.groups) /\ CtrlSk \in 0..Len(cloud.groups)
    BY <1>1, Finds DEF IInv, Typed, Cloud
  <2>2. \A i \in DOMAIN cloud.target : cloud.target[i] \in DOMAIN cloud.groups
    <3>1. CASE cloud.target = <<>>
      BY <3>1
    <3>2. CASE cloud.target # <<>>
      <4>1. cloud.target = <<AppSk, CtrlSk>> /\ AppSk # 0 /\ CtrlSk # 0
        BY <1>1, <3>2 DEF IInv, TargetKnown
      <4>2. AppSk \in DOMAIN cloud.groups /\ CtrlSk \in DOMAIN cloud.groups
        BY <2>1, <4>1
      <4> QED BY <4>1, <4>2
    <3> QED BY <3>1, <3>2
  <2>3. tool.app \in 0..Len(cloud.accounts) /\ tool.control \in 0..Len(cloud.accounts)
    <3>1. \/ tool.app = 0 /\ tool.control = 0
          \/ tool.app = App /\ tool.control = Control
      BY <1>1, <2>1 DEF IInv, LocalsKnow, Tool
    <3>2. 0 \in 0..Len(cloud.accounts)
      BY <2>1
    <3> QED BY <2>1, <3>1, <3>2
  <2>4. tool.pc = "done" => cloud.callout = "ours"
    BY <1>1 DEF IInv, LocalsKnow, AfterConfig
  <2> QED BY <1>1, <2>1, <2>2, <2>3, <2>4 DEF IInv, IdsInRange, TypeOK
<1> QED BY <1>1, InvariantHolds, PTL

\* A seed file is of the very group that every later run will find, reuse
\* and wire, however many runs were cut short.
THEOREM SeedsMatchGroupsHolds == Spec => []SeedsMatchGroups
<1>1. ASSUME IInv PROVE SeedsMatchGroups
  BY <1>1, SearchesAre DEF IInv, SeedsKnown, SeedOf, SeedsMatchGroups
<1> QED BY <1>1, InvariantHolds, PTL

\* A run on a system with no groups of its own, without a failed call, ends
\* with every file written and callout wired.
THEOREM UndisturbedRunDeliversHolds == Spec => []UndisturbedRunDelivers
<1>1. ASSUME IInv PROVE UndisturbedRunDelivers
  <2>1. SUFFICES ASSUME mishaps = 0, given.groups = <<>>, tool.pc = "done"
                 PROVE  /\ \A f \in Files : disk[f] # 0
                        /\ cloud.target = <<tool.appSk, tool.ctrlSk>>
                        /\ tool.issuer \in cloud.listeners
    BY DEF UndisturbedRunDelivers, SeedsInCustody, DoneMeansWired
  <2>2. /\ tool.appSk = AppSk /\ AppSk # 0 /\ tool.ctrlSk = CtrlSk /\ CtrlSk # 0
    BY <1>1, <2>1 DEF IInv, LocalsKnow, AfterAppSk, AfterCtrlSk
  <2>3. /\ Kept("sk-soulstream-user.seed", "soulstream-user", "appSeed")
        /\ Kept("sk-soulstream-auth-issuer.seed", "soulstream-auth-issuer", "ctrlSeed")
        /\ cloud.target # <<>> /\ tool.issuer \in cloud.listeners
        /\ disk["auth-issuer.creds"] # 0
    BY <1>1, <2>1 DEF IInv, Undisturbed, AfterConfig
  <2>4. /\ \E i \in DOMAIN cloud.groups : cloud.groups[i].name = "soulstream-user"
        /\ \E i \in DOMAIN cloud.groups : cloud.groups[i].name = "soulstream-auth-issuer"
    <3>1. /\ cloud.groups \in Seq(Group) /\ Len(cloud.groups) \in Nat
          /\ DOMAIN cloud.groups = 1..Len(cloud.groups)
          /\ AppSk \in 0..Len(cloud.groups) /\ CtrlSk \in 0..Len(cloud.groups)
      BY <1>1, Finds DEF IInv
    <3>2. AppSk \in DOMAIN cloud.groups /\ CtrlSk \in DOMAIN cloud.groups
      BY <2>2, <3>1
    <3>3. /\ cloud.groups[AppSk].name = "soulstream-user"
          /\ cloud.groups[CtrlSk].name = "soulstream-auth-issuer"
      BY <2>2, <3>1, FirstGroupFinds DEF AppSk, CtrlSk
    <3> QED BY <3>2, <3>3
  <2>5. disk["sk-soulstream-user.seed"] # 0 /\ disk["sk-soulstream-auth-issuer.seed"] # 0
    BY <2>1, <2>3, <2>4 DEF Kept
  <2>6. cloud.target = <<tool.appSk, tool.ctrlSk>>
    BY <1>1, <2>2, <2>3 DEF IInv, TargetKnown
  <2> QED BY <2>3, <2>5, <2>6 DEF Files
<1> QED BY <1>1, InvariantHolds, PTL

---------------------------------------------------------------------------
(* Nothing twice.                                                          *)

Groups(c)   == \A i, j \in DOMAIN c.groups : c.groups[i] = c.groups[j] => i = j
Users(c)    == \A i, j \in DOMAIN c.users : c.users[i].account = c.users[j].account => i = j
Accounts(c) == Cardinality({i \in DOMAIN c.accounts : c.accounts[i].kind = "control"}) <= 1

\* A group that is unlike all others is added beside them.
LEMMA GroupsStayApart ==
  ASSUME IInv, Groups(cloud), NEW g \in Group, NEW c, c.groups = Append(cloud.groups, g),
         \A i \in 1..Len(cloud.groups) : cloud.groups[i] # g
  PROVE  Groups(c)
<1>1. /\ cloud.groups \in Seq(Group) /\ Len(cloud.groups) \in Nat
      /\ DOMAIN cloud.groups = 1..Len(cloud.groups)
  BY Finds DEF IInv
<1>2. /\ DOMAIN c.groups = 1..(Len(cloud.groups) + 1)
      /\ \A i \in 1..Len(cloud.groups) : c.groups[i] = cloud.groups[i]
      /\ c.groups[Len(cloud.groups) + 1] = g
  BY <1>1, Appended
<1>3. \A i \in DOMAIN c.groups : i \in 1..Len(cloud.groups) \/ i = Len(cloud.groups) + 1
  BY <1>1, <1>2
<1> QED BY <1>1, <1>2, <1>3, Zenon DEF Groups

\* So is a user of an account that has none.
LEMMA UsersStayApart ==
  ASSUME IInv, Users(cloud), NEW u \in User, NEW c, c.users = Append(cloud.users, u),
         \A i \in 1..Len(cloud.users) : cloud.users[i].account # u.account
  PROVE  Users(c)
<1>1. /\ cloud.users \in Seq(User) /\ Len(cloud.users) \in Nat
      /\ DOMAIN cloud.users = 1..Len(cloud.users)
  BY Finds DEF IInv
<1>2. /\ DOMAIN c.users = 1..(Len(cloud.users) + 1)
      /\ \A i \in 1..Len(cloud.users) : c.users[i] = cloud.users[i]
      /\ c.users[Len(cloud.users) + 1] = u
  BY <1>1, Appended
<1>3. \A i \in DOMAIN c.users : i \in 1..Len(cloud.users) \/ i = Len(cloud.users) + 1
  BY <1>1, <1>2
<1> QED BY <1>1, <1>2, <1>3, Zenon DEF Users

\* The control account is created when there is none (main.go:127-133).
LEMMA ControlOnce ==
  ASSUME IInv, NothingTwice, CreateControl PROVE Accounts(cloud')
<1>1. CASE cloud'.accounts = cloud.accounts
  BY <1>1 DEF Accounts, NothingTwice
<1>2. CASE cloud'.accounts # cloud.accounts
  <2> DEFINE acs == Append(cloud.accounts, Created)
  <2>1. /\ cloud.accounts \in Seq(Account) /\ Control = LastControl(cloud.accounts)
        /\ Created \in Account /\ tool.control = Control
    BY Finds DEF IInv, Control, Created, Account, LocalsKnow, CreateControl
  <2>2. cloud \in Cloud
    BY DEF IInv, Typed
  <2>3. cloud' \in {cloud, [cloud EXCEPT !.accounts = acs]} /\ tool.control = 0
    BY <1>2 DEF CreateControl, Fatally, Created
  <2>4. cloud'.accounts = acs
    <3> HIDE DEF acs
    <3> QED BY <1>2, <2>2, <2>3 DEF Cloud
  <2>5. \A i \in 1..Len(cloud.accounts) : cloud.accounts[i].kind # "control"
    BY <2>1, <2>3, AccountsFound DEF Controls
  <2>6. /\ DOMAIN acs = 1..(Len(cloud.accounts) + 1) /\ Len(cloud.accounts) \in Nat
        /\ \A i \in 1..Len(cloud.accounts) : acs[i] = cloud.accounts[i]
        /\ acs[Len(cloud.accounts) + 1] = Created
    BY <2>1, Appended
  <2> HIDE DEF acs
  <2>7. acs[Len(cloud.accounts) + 1].kind = "control"
    BY <2>6 DEF Created
  <2>8. \A i : i \in DOMAIN acs
                 <=> i \in 1..Len(cloud.accounts) \/ i = Len(cloud.accounts) + 1
    BY <2>6
  <2>9. {i \in DOMAIN acs : acs[i].kind = "control"} = {Len(cloud.accounts) + 1}
    BY <2>5, <2>6, <2>7, <2>8, Zenon
  <2>10. Cardinality({i \in DOMAIN acs : acs[i].kind = "control"}) = 1
    BY <2>9, FS_Singleton
  <2> QED BY <2>4, <2>10 DEF Accounts
<1> QED BY <1>1, <1>2

\* ensureSkGroup creates a group when there is none of its name, whatever
\* its kind (main.go:234-257).
LEMMA SkGroupOnce ==
  ASSUME IInv, NothingTwice, NEW pc, NEW a \in Nat, NEW n, NEW field, NEW seedPc, NEW nextPc,
         n \in {"soulstream-user", "soulstream-auth-issuer"},
         EnsureSkGroup(pc, a, n, field, seedPc, nextPc)
  PROVE  NothingTwice'
<1> DEFINE g == GroupIn(a, n, TRUE)
<1> DEFINE after == [cloud EXCEPT !.groups = Append(@, g)]
<1>1. cloud' = cloud \/ (SkGroup(a, n) = 0 /\ cloud' = after)
  BY DEF EnsureSkGroup, Fatally
<1>2. CASE cloud' = cloud
  BY <1>2 DEF NothingTwice
<1>3. CASE SkGroup(a, n) = 0 /\ cloud' = after
  <2>1. g \in Group /\ g.account = a /\ g.name = n
    BY DEF GroupIn, Group
  <2> HIDE DEF g
  <2>2. /\ cloud'.groups = Append(cloud.groups, g) /\ cloud'.accounts = cloud.accounts
        /\ cloud'.users = cloud.users
    BY <1>3, <2>1, GroupCreated
  <2>3. \A i \in 1..Len(cloud.groups) : cloud.groups[i] # g
    <3>1. FirstGroup(cloud.groups, a, n) = 0
      BY <1>3, SearchesAre
    <3>2. cloud.groups \in Seq(Group)
      BY Finds DEF IInv
    <3> QED BY <2>1, <3>1, <3>2, FirstGroupFinds
  <2>4. Groups(cloud')
    BY <2>1, <2>2, <2>3, GroupsStayApart DEF NothingTwice, Groups
  <2> QED BY <2>2, <2>4 DEF NothingTwice, Groups
<1> QED BY <1>1, <1>2, <1>3

\* So does ensureOnDemandSkGroup for the issuer's group (main.go:261-275).
LEMMA OnDemandOnce ==
  ASSUME IInv, NothingTwice, EnsureOnDemandSkGroup PROVE NothingTwice'
<1> DEFINE a == tool.control
<1> DEFINE g == GroupIn(a, "auth-users", FALSE)
<1> DEFINE after == [cloud EXCEPT !.groups = Append(@, g)]
<1>1. cloud' = cloud \/ (OnDemandGroup(a) = 0 /\ cloud' = after)
  BY DEF EnsureOnDemandSkGroup, Fatally
<1>2. CASE cloud' = cloud
  BY <1>2 DEF NothingTwice
<1>3. CASE OnDemandGroup(a) = 0 /\ cloud' = after
  <2>1. g \in Group
    BY DEF GroupIn, Group, IInv, Typed, Tool
  <2>2. \A i \in 1..Len(cloud.groups) : cloud.groups[i] # g
    <3>1. OnDemands(a) \in SUBSET (1..Len(cloud.groups)) /\ Len(cloud.groups) \in Nat
      BY Finds DEF OnDemands, IInv
    <3>2. OnDemands(a) = {}
      BY <1>3, <3>1, OnDemandIs, FirstOfFinds
    <3> QED BY <3>2 DEF OnDemands
  <2> HIDE DEF g
  <2>3. /\ cloud'.groups = Append(cloud.groups, g) /\ cloud'.accounts = cloud.accounts
        /\ cloud'.users = cloud.users
    BY <1>3, <2>1, GroupCreated
  <2>4. Groups(cloud')
    BY <2>1, <2>2, <2>3, GroupsStayApart DEF NothingTwice, Groups
  <2> QED BY <2>3, <2>4 DEF NothingTwice, Groups
<1> QED BY <1>1, <1>2, <1>3

\* And ensureNatsUser for the issuer's user (main.go:277-291).
LEMMA UserOnce ==
  ASSUME IInv, NothingTwice, EnsureNatsUser PROVE NothingTwice'
<1> DEFINE u == [account |-> tool.control, group |-> tool.issuerSk]
<1> DEFINE us == Append(cloud.users, u)
<1> DEFINE after == [cloud EXCEPT !.users = us]
<1>1. cloud' = cloud \/ (FirstOf(UsersOf(tool.control)) = 0 /\ cloud' = after)
  BY UserIs DEF EnsureNatsUser, Fatally
<1>2. CASE cloud' = cloud
  BY <1>2 DEF NothingTwice
<1>3. CASE FirstOf(UsersOf(tool.control)) = 0 /\ cloud' = after
  <2>1. u \in User /\ u.account = tool.control /\ cloud \in Cloud
    BY DEF User, IInv, Typed, Tool
  <2>2. \A i \in 1..Len(cloud.users) : cloud.users[i].account # u.account
    <3>1. UsersOf(tool.control) \in SUBSET (1..Len(cloud.users)) /\ Len(cloud.users) \in Nat
      BY Finds DEF UsersOf, IInv
    <3>2. UsersOf(tool.control) = {}
      BY <1>3, <3>1, FirstOfFinds
    <3> QED BY <2>1, <3>2 DEF UsersOf
  <2>3. us = Append(cloud.users, u)
    OBVIOUS
  <2> HIDE DEF u, us
  <2>4. /\ cloud'.users = us /\ cloud'.accounts = cloud.accounts
        /\ cloud'.groups = cloud.groups
    BY <1>3, <2>1 DEF Cloud
  <2>5. Users(cloud')
    BY <2>1, <2>2, <2>3, <2>4, UsersStayApart DEF NothingTwice, Users
  <2> QED BY <2>4, <2>5 DEF NothingTwice, Users
<1> QED BY <1>1, <1>2, <1>3

\* The other steps create nothing of the kind.
LEMMA OthersCreateNothing ==
  ASSUME IInv, NothingTwice,
         \/ Discover \/ AppSeed \/ ControlSeed \/ Enable \/ FindConfig \/ AddTarget
         \/ AddCalloutUser \/ DownloadCreds \/ Crash \/ Rerun \/ UNCHANGED vars
  PROVE  NothingTwice'
<1>1. cloud \in Cloud
  BY DEF IInv, Typed
<1>2. /\ cloud'.accounts = cloud.accounts /\ cloud'.groups = cloud.groups
      /\ cloud'.users = cloud.users
  <2>1. CASE cloud' = cloud
    BY <2>1
  <2>2. CASE Enable
    BY <1>1, <2>2 DEF Enable, Tolerantly, Cloud
  <2>3. CASE AddTarget
    BY <1>1, <2>3 DEF AddTarget, Tolerantly, Cloud
  <2>4. CASE AddCalloutUser
    BY <1>1, <2>4 DEF AddCalloutUser, Tolerantly, Cloud
  <2> QED BY <2>1, <2>2, <2>3, <2>4
          DEF Discover, AppSeed, ControlSeed, WriteSeed, FindConfig, Fatally, DownloadCreds,
              Crash, Rerun, vars
<1> QED BY <1>2 DEF NothingTwice

\* Runs cut short anywhere and repeated keep a system that has nothing twice
\* such a system: no second group of one name and kind in an account, no
\* second issuer user, no second control account.
THEOREM NothingTwiceHolds == Spec /\ NothingTwice => []NothingTwice
<1>1. ASSUME IInv, NothingTwice, [Next]_vars PROVE NothingTwice'
  <2>1. CASE CreateControl
    <3>1. cloud'.groups = cloud.groups /\ cloud'.users = cloud.users
      <4>1. cloud \in Cloud
        BY <1>1 DEF IInv, Typed
      <4> QED BY <2>1, <4>1 DEF CreateControl, Fatally, Cloud
    <3>2. Accounts(cloud')
      BY <1>1, <2>1, ControlOnce
    <3> QED BY <1>1, <3>1, <3>2 DEF NothingTwice, Accounts
  <2>2. CASE AppGroup
    <3>1. tool.app \in Nat
      BY <1>1 DEF IInv, Typed, Tool
    <3> QED BY <1>1, <2>2, <3>1, SkGroupOnce DEF AppGroup
  <2>3. CASE ControlGroup
    <3>1. tool.control \in Nat
      BY <1>1 DEF IInv, Typed, Tool
    <3> QED BY <1>1, <2>3, <3>1, SkGroupOnce DEF ControlGroup
  <2>4. CASE EnsureOnDemandSkGroup
    BY <1>1, <2>4, OnDemandOnce
  <2>5. CASE EnsureNatsUser
    BY <1>1, <2>5, UserOnce
  <2> QED BY <1>1, <2>1, <2>2, <2>3, <2>4, <2>5, OthersCreateNothing DEF Next, Step
<1> QED BY <1>1, InvariantHolds, PTL DEF Spec

===========================================================================
