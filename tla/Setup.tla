------------------------------- MODULE Setup -------------------------------
(***************************************************************************)
(* cmd/byon-setup: the operator's tool that configures auth callout on a   *)
(* managed NATS system through its control-plane API.  Every run starts    *)
(* from discovery with nothing remembered but the cloud and the output     *)
(* directory; a call the tool treats as fatal ends the run, and so does a  *)
(* crash, and the operator runs the tool again.                            *)
(*                                                                         *)
(* The API is external: it lists what exists, refuses to enable, to wire   *)
(* or to register what already is, and may fail a call having performed it *)
(* or not.  Ids are positions in the lists it returns.                     *)
(***************************************************************************)
EXTENDS Naturals, SequencesExt

CONSTANTS
  InitialAccounts,  \* account lists a system may start with
  InitialGroups,    \* signing key groups it may start with
  InitialCallouts,  \* "none", or "other": enabled for another control account
  AppFlags,         \* whether --app-account is given: TRUE, FALSE or both cases
  MaxMishaps        \* bound on failed calls and crashes

\* A control account is one --control-account names; an account matches when
\* its name contains the --app-account text.
Account == [kind : {"control", "plain", "system"}, matches : BOOLEAN]
Group   == [account : Nat, name : {"soulstream-user", "soulstream-auth-issuer", "auth-users"},
            programmatic : BOOLEAN]

ASSUME SetupConstants ==
  /\ InitialAccounts \subseteq Seq(Account)
  /\ InitialGroups \subseteq Seq(Group)
  /\ InitialCallouts \subseteq {"none", "other"}
  /\ AppFlags \subseteq BOOLEAN /\ MaxMishaps \in Nat

VARIABLES
  cloud,    \* accounts, groups, users, callout, target, listeners
  disk,     \* the output directory: file -> the group or user it is of
  tool,     \* where the running tool is, and its locals
  mishaps,  \* failed calls and crashes so far
  given     \* the flag, the same for every run, and the groups there were at first

vars == <<cloud, disk, tool, mishaps, given>>

Files == {"sk-soulstream-user.seed", "sk-soulstream-auth-issuer.seed", "auth-issuer.creds"}

\* 0 is Go's nil, "" or a missing file.
Fresh == [pc |-> "discover", app |-> 0, control |-> 0,
          appSk |-> 0, ctrlSk |-> 0, issuerSk |-> 0, issuer |-> 0]
Stopped == [Fresh EXCEPT !.pc = "stopped"]

At(pc, locals) == [locals EXCEPT !.pc = pc]

---------------------------------------------------------------------------
(* Calls.                                                                  *)

Mishap == mishaps < MaxMishaps /\ mishaps' = mishaps + 1

\* fatal(..., err): an error ends the run, whatever the API did.
Fatally(after, next) ==
  \/ cloud' = after /\ tool' = next /\ UNCHANGED mishaps
  \/ Mishap /\ cloud' \in {cloud, after} /\ tool' = Stopped

\* An error is logged and the run continues.
Tolerantly(refused, after, next) ==
  /\ \/ cloud' = (IF refused THEN cloud ELSE after) /\ UNCHANGED mishaps
     \/ Mishap /\ cloud' \in {cloud, IF refused THEN cloud ELSE after}
  /\ tool' = next

---------------------------------------------------------------------------
(* The run, in the order of main.                                          *)

theControl == SelectLastInSeq(cloud.accounts, LAMBDA a : a.kind = "control")

\* The last account the flag matches, or else the first plain one.
theApp ==
  IF given.appFlag THEN SelectLastInSeq(cloud.accounts, LAMBDA a : a.kind # "control" /\ a.matches)
             ELSE SelectInSeq(cloud.accounts, LAMBDA a : a.kind = "plain")

Discover ==
  /\ tool.pc = "discover"
  /\ IF theApp = 0
     THEN tool' = Stopped
     ELSE tool' = [Fresh EXCEPT !.pc = "control", !.app = theApp, !.control = theControl]
  /\ UNCHANGED <<cloud, disk, mishaps, given>>

CreateControl ==
  /\ tool.pc = "control"
  /\ IF tool.control # 0
     THEN tool' = At("appSk", tool) /\ UNCHANGED <<cloud, mishaps>>
     ELSE LET after == [cloud EXCEPT !.accounts = Append(@, [kind |-> "control", matches |-> FALSE])]
          IN  Fatally(after, [At("appSk", tool) EXCEPT !.control = Len(after.accounts)])
  /\ UNCHANGED <<disk, given>>

GroupIn(account, name, programmatic) ==
  [account |-> account, name |-> name, programmatic |-> programmatic]

\* ensureSkGroup takes the first group of that name, whatever its kind.
SkGroup(account, name) ==
  SelectInSeq(cloud.groups, LAMBDA g : g.account = account /\ g.name = name)

\* ensureSkGroup: reuse, or create and go on to write the seed that the
\* reply carries this once.  The step after next is where the group is used.
EnsureSkGroup(pc, account, name, field, seedPc, nextPc) ==
  /\ tool.pc = pc
  /\ LET have == SkGroup(account, name)
     IN  IF have # 0
         THEN tool' = [At(nextPc, tool) EXCEPT ![field] = have] /\ UNCHANGED <<cloud, mishaps>>
         ELSE LET after == [cloud EXCEPT !.groups = Append(@, GroupIn(account, name, TRUE))]
              IN  Fatally(after, [At(seedPc, tool) EXCEPT ![field] = Len(after.groups)])
  /\ UNCHANGED <<disk, given>>

\* Faulty: every seed goes to one file.
WriteSeedToOneFile(pc, file, group, nextPc) ==
  /\ tool.pc = pc
  /\ disk' = [disk EXCEPT !["sk-soulstream-user.seed"] = group]
  /\ tool' = At(nextPc, tool)
  /\ UNCHANGED <<cloud, mishaps, given>>

\* A failed write is fatal: see Crash.
WriteSeed(pc, file, group, nextPc) ==
  /\ tool.pc = pc
  /\ disk' = [disk EXCEPT ![file] = group]
  /\ tool' = At(nextPc, tool)
  /\ UNCHANGED <<cloud, mishaps, given>>

AppGroup     == EnsureSkGroup("appSk", tool.app, "soulstream-user", "appSk", "appSeed", "ctrlSk")
AppSeed      == WriteSeed("appSeed", "sk-soulstream-user.seed", tool.appSk, "ctrlSk")
ControlGroup == EnsureSkGroup("ctrlSk", tool.control, "soulstream-auth-issuer", "ctrlSk", "ctrlSeed", "enable")
ControlSeed  == WriteSeed("ctrlSeed", "sk-soulstream-auth-issuer.seed", tool.ctrlSk, "enable")

\* Faulty: an "already enabled" is fatal.
EnableFatally ==
  /\ tool.pc = "enable"
  /\ IF cloud.callout # "none"
     THEN tool' = Stopped /\ UNCHANGED <<cloud, mishaps>>
     ELSE Fatally([cloud EXCEPT !.callout = "ours"], At("config", tool))
  /\ UNCHANGED <<disk, given>>

Enable ==
  /\ tool.pc = "enable"
  /\ Tolerantly(cloud.callout # "none", [cloud EXCEPT !.callout = "ours"], At("config", tool))
  /\ UNCHANGED <<disk, given>>

\* Faulty: the run goes on without a callout config.
FindConfigOrNot ==
  /\ tool.pc = "config"
  /\ Fatally(cloud, At("target", tool))
  /\ UNCHANGED <<disk, given>>

\* The callout config of the control account, without which the run ends.
FindConfig ==
  /\ tool.pc = "config"
  /\ IF cloud.callout = "ours"
     THEN Fatally(cloud, At("target", tool))
     ELSE tool' = Stopped /\ UNCHANGED <<cloud, mishaps>>
  /\ UNCHANGED <<disk, given>>

\* Faulty: the two groups change places.
AddTargetSwapped ==
  /\ tool.pc = "target"
  /\ Tolerantly(cloud.target # <<>>, [cloud EXCEPT !.target = <<tool.ctrlSk, tool.appSk>>],
                At("issuerSk", tool))
  /\ UNCHANGED <<disk, given>>

AddTarget ==
  /\ tool.pc = "target"
  /\ Tolerantly(cloud.target # <<>>, [cloud EXCEPT !.target = <<tool.appSk, tool.ctrlSk>>],
                At("issuerSk", tool))
  /\ UNCHANGED <<disk, given>>

\* Faulty: the list is not consulted.
OnDemandGroupNever(account) == 0

OnDemandGroup(account) ==
  SelectInSeq(cloud.groups, LAMBDA g : g = GroupIn(account, "auth-users", FALSE))

EnsureOnDemandSkGroup ==
  /\ tool.pc = "issuerSk"
  /\ LET have == OnDemandGroup(tool.control)
     IN  IF have # 0
         THEN tool' = [At("issuer", tool) EXCEPT !.issuerSk = have] /\ UNCHANGED <<cloud, mishaps>>
         ELSE LET after == [cloud EXCEPT !.groups = Append(@, GroupIn(tool.control, "auth-users", FALSE))]
              IN  Fatally(after, [At("issuer", tool) EXCEPT !.issuerSk = Len(after.groups)])
  /\ UNCHANGED <<disk, given>>

\* The platform refuses users under programmatic groups (main.go:187-188).
EnsureNatsUser ==
  /\ tool.pc = "issuer"
  /\ LET have == SelectInSeq(cloud.users, LAMBDA u : u.account = tool.control)
     IN  IF have # 0
         THEN tool' = [At("register", tool) EXCEPT !.issuer = have] /\ UNCHANGED <<cloud, mishaps>>
         ELSE IF cloud.groups[tool.issuerSk].programmatic
         THEN tool' = Stopped /\ UNCHANGED <<cloud, mishaps>>
         ELSE LET after == [cloud EXCEPT !.users =
                              Append(@, [account |-> tool.control, group |-> tool.issuerSk])]
              IN  Fatally(after, [At("register", tool) EXCEPT !.issuer = Len(after.users)])
  /\ UNCHANGED <<disk, given>>

AddCalloutUser ==
  /\ tool.pc = "register"
  /\ Tolerantly(tool.issuer \in cloud.listeners,
                [cloud EXCEPT !.listeners = @ \cup {tool.issuer}], At("creds", tool))
  /\ UNCHANGED <<disk, given>>

DownloadCreds ==
  /\ tool.pc = "creds"
  /\ disk' = [disk EXCEPT !["auth-issuer.creds"] = tool.issuer]
  /\ tool' = At("done", tool)
  /\ UNCHANGED <<cloud, mishaps, given>>

Step ==
  \/ Discover \/ CreateControl
  \/ AppGroup \/ AppSeed \/ ControlGroup \/ ControlSeed
  \/ Enable \/ FindConfig \/ AddTarget
  \/ EnsureOnDemandSkGroup \/ EnsureNatsUser \/ AddCalloutUser \/ DownloadCreds

\* A listing or a file write fails, or the process is killed.
Crash ==
  /\ tool.pc \notin {"stopped", "done"}
  /\ Mishap
  /\ tool' = Stopped
  /\ UNCHANGED <<cloud, disk, given>>

Rerun ==
  /\ tool.pc \in {"stopped", "done"}
  /\ tool' = Fresh
  /\ UNCHANGED <<cloud, disk, mishaps, given>>

Init ==
  /\ \E a \in InitialAccounts, g \in InitialGroups, c \in InitialCallouts, f \in AppFlags :
       /\ \A i \in DOMAIN g : g[i].account \in DOMAIN a
       /\ cloud = [accounts |-> a, groups |-> g, users |-> <<>>, callout |-> c,
                   target |-> <<>>, listeners |-> {}]
       /\ given = [appFlag |-> f, groups |-> g]
  /\ disk = [f \in Files |-> 0]
  /\ tool = Fresh
  /\ mishaps = 0

Next == Step \/ Crash \/ Rerun

Spec == Init /\ [][Next]_vars

\* The tool is sequential code and the operator runs it again until it ends
\* well; calls fail finitely often because MaxMishaps bounds them.
FairSpec == Spec /\ WF_vars(Step) /\ WF_vars(Rerun)

---------------------------------------------------------------------------
(* Properties.                                                             *)

\* The variables stay within their types, ids within their lists, and the
\* issuer's user is under a group the platform allows.
TypeOK ==
  /\ cloud.accounts \in Seq(Account) /\ cloud.groups \in Seq(Group)
  /\ cloud.callout \in {"none", "ours", "other"}
  /\ \A i \in DOMAIN cloud.users : cloud.users[i].group \in DOMAIN cloud.groups
  /\ cloud.listeners \subseteq DOMAIN cloud.users
  /\ \A i \in DOMAIN cloud.target : cloud.target[i] \in DOMAIN cloud.groups
  /\ tool.app \in 0..Len(cloud.accounts) /\ tool.control \in 0..Len(cloud.accounts)
  /\ disk["auth-issuer.creds"] \in 0..Len(cloud.users)
  /\ tool.pc = "done" => cloud.callout = "ours"

\* Runs cut short anywhere and repeated never create a second group of one
\* name and kind, nor a second issuer user: the ensure functions look first.
NothingTwice ==
  /\ \A i, j \in DOMAIN cloud.groups : cloud.groups[i] = cloud.groups[j] => i = j
  /\ \A i, j \in DOMAIN cloud.users : cloud.users[i].account = cloud.users[j].account => i = j
  /\ Cardinality({i \in DOMAIN cloud.accounts : cloud.accounts[i].kind = "control"}) <= 1

\* A seed file is the seed of the very group that a later run would reuse
\* and wire: re-runs never leave a file beside a group it does not open.
SeedsMatchGroups ==
  /\ LET g == disk["sk-soulstream-user.seed"]
     IN  g # 0 => g = SkGroup(cloud.groups[g].account, "soulstream-user")
  /\ LET g == disk["sk-soulstream-auth-issuer.seed"]
     IN  g # 0 => g = SkGroup(cloud.groups[g].account, "soulstream-auth-issuer")

\* When the tool ends with "done", the files its next-steps text names exist.
SeedsInCustody == tool.pc = "done" => \A f \in Files : disk[f] # 0

\* When the tool ends with "done", callout admits into the app account through
\* the two groups, and the issuer listens.
DoneMeansWired ==
  tool.pc = "done" => cloud.target = <<tool.appSk, tool.ctrlSk>> /\ tool.issuer \in cloud.listeners

\* A run on a system with none of the groups, without a failed call, delivers
\* all of it: seeds, creds and wiring.
UndisturbedRunDelivers == mishaps = 0 /\ given.groups = <<>> => SeedsInCustody /\ DoneMeansWired

\* "re-runs must not fail here" (main.go:138-139): unless callout belongs to
\* another control account, running the tool again ends in a finished run,
\* however many earlier runs were cut short.
RerunsFinish == cloud.callout = "none" => <>(tool.pc = "done")

===========================================================================
