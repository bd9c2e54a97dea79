----------------------------- MODULE Principal -----------------------------
(***************************************************************************)
(* How principal.go derives (persona, account) from the publish grants the *)
(* server resolved for a connection, and the scope template that puts the  *)
(* grant there.  A subject is the sequence of its tokens: the text between *)
(* the dots, which may be empty.                                           *)
(***************************************************************************)
EXTENDS Naturals, SequencesExt

Segment == <<"identity">>           \* siclient.Segment
SignRecord == <<"sign", "record">>  \* signRecordSuffix, past its leading dot

\* Faulty: the prefix is forgotten.
rootBare(prefix) == Segment

\* Config.root: the prefix of the deployment, if any, before the segment.
root(prefix) == prefix \o Segment

None  == [ok |-> "no"]
Panic == [ok |-> "panic"]
Some(persona, account) == [ok |-> "yes", persona |-> persona, account |-> account]

\* strings.HasPrefix(subj, root + "."): there is a dot after the root.
HasRoot(subj, rt) == Len(subj) > Len(rt) /\ IsPrefix(rt, subj)

\* strings.HasSuffix(subj, ".sign.record"): there is a dot before "sign".
HasSuffix(subj) == Len(subj) > Len(SignRecord) /\ IsSuffix(SignRecord, subj)

\* Faulty: empty parts are not skipped.
NamedEmpty(subj, rt) ==
  LET parts == SubSeq(subj, Len(rt) + 1, Len(subj) - Len(SignRecord))
  IN  IF Len(subj) <= Len(rt) + Len(SignRecord) THEN Panic
      ELSE IF Len(parts) # 2 THEN None
      ELSE Some(parts[2], parts[1])

\* What a grant with both ends names.  When the dot after the root is the dot
\* before "sign", the slice bounds cross by one and slicing panics.
Named(subj, rt) ==
  LET parts == SubSeq(subj, Len(rt) + 1, Len(subj) - Len(SignRecord))
  IN  IF Len(subj) <= Len(rt) + Len(SignRecord) THEN Panic
      ELSE IF Len(parts) # 2 \/ parts[1] = "" \/ parts[2] = "" THEN None
      ELSE Some(parts[2], parts[1])

GrantNames(subj, rt) ==
  IF HasRoot(subj, rt) /\ HasSuffix(subj) THEN Named(subj, rt) ELSE None

\* The first grant that does not make the loop continue.
principalFromAllows(allows, rt) ==
  LET names == {i \in DOMAIN allows : GrantNames(allows[i], rt) # None}
  IN  IF names = {} THEN None ELSE GrantNames(allows[Min(names)], rt)

---------------------------------------------------------------------------
(* The scope template: userScope of byon-setup, scopeTemplate of the rig.  *)

\* Resolved by the server for an account and a user name (a dotted name
\* brings tokens of its own).
userScope(account, name) ==
  << <<"identity", "status">>, <<"identity", "xkey">>,
     <<"identity", account>> \o name \o <<"sign", "record">>,
     <<"identity", account>> \o name \o <<"keys", "public">>,
     <<"SOULSTREAM", ">">>, <<"$JS", "API", ">">>, <<"$KV", ">">>, <<"$O", ">">>,
     <<"$SYS", "REQ", "USER", "INFO">> >>

===========================================================================
