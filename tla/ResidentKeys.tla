------------------------------ MODULE ResidentKeys ------------------------------
(***************************************************************************)
(* SSH keys that live in a YubiKey (andiora-yubikey-manager: ssh.rs,       *)
(* git_signing.rs and the SSH and Git pages of window.rs): listing,        *)
(* creating, deleting, loading into the agent, and choosing one for Git.   *)
(* A call runs for as long as the touch takes; the command may do its work *)
(* and lose its answer, and the key at a device path may be another one    *)
(* when the call looks again.  The page keeps its listings by device path. *)
(***************************************************************************)
EXTENDS Integers, Sequences

CONSTANTS
  Keys,          \* the security keys
  MostCreated,   \* bound: credentials
  MostCalls,     \* bound: calls
  MostSwaps      \* bound: changes of the key in the port

\* What the constants must be.
ResidentConstants == {MostCreated, MostCalls, MostSwaps} \subseteq Nat

VARIABLES
  seat,          \* the keys at the device paths; one path, or Nobody
  resident,      \* the ssh: credentials in each key
  created,       \* credentials made so far
  results,       \* ssh_results: what the last listing of the path said
  agent,         \* the credentials the agent holds
  git,           \* Git's settings: format, signing key, sign commits, sign tags
  job,           \* the call under way behind the progress dialog
  told,          \* what the last call told the user
  calls, swaps

residentVars == <<seat, resident, created, results, agent, git, job, told, calls, swaps>>

Nobody == "nobody"
Unset == [format |-> "unset", key |-> 0, commits |-> "unset", tags |-> "unset"]
\* A call: its next step, the keys when it began (history), whether the port changed meanwhile
\* (history), and its variables.
NoJob == [op |-> "None", at |-> 0, base |-> [k \in Keys |-> {}], moved |-> FALSE, listed |-> {}, cred |-> 0,
          ok |-> FALSE, files |-> FALSE, old |-> Unset, new |-> Unset, failed |-> FALSE]
Unlisted == [ok |-> FALSE, found |-> {}]
Listing == IF seat = Nobody THEN {} ELSE resident[seat]

\* history: did the call change a key, and did the key stay in place meanwhile
Nothing == [what |-> "nothing", cred |-> 0, changed |-> FALSE, sure |-> FALSE, git |-> Unset]
Told(what, cred) ==
  [Nothing EXCEPT !.what = what, !.cred = cred, !.changed = (resident # job.base), !.sure = ~job.moved]
Done(message) == job' = NoJob /\ told' = message

Begun(operation) == [NoJob EXCEPT !.op = operation, !.at = 1, !.base = resident]
Begin(request) ==
  /\ job = NoJob /\ calls < MostCalls
  /\ calls' = calls + 1
  /\ job' = request
  /\ told' = Nothing

At(op, step) == job.op = op /\ job.at = step
GoOn(call) == job' = [call EXCEPT !.at = @ + 1]

(***************************************************************************)
(* inspect_resident_ssh, from the page.  A key that is gone, a wrong PIN   *)
(* and a missed touch are one error.                                       *)
(***************************************************************************)
InspectDevice ==
  /\ Begin(Begun("Inspect"))
  /\ seat # Nobody
  /\ UNCHANGED <<seat, resident, created, results, agent, git, swaps>>

EndInspect ==
  /\ At("Inspect", 1)
  /\ \/ seat # Nobody /\ results' = [ok |-> TRUE, found |-> Listing]
     \/ results' = Unlisted
  /\ Done(Nothing)
  /\ UNCHANGED <<seat, resident, created, agent, git, calls, swaps>>

(***************************************************************************)
(* create_resident_key: a listing, ssh-keygen, a listing.                  *)
(***************************************************************************)
CreateKey ==
  /\ Begin(Begun("Create"))
  /\ seat # Nobody /\ created < MostCreated
  /\ UNCHANGED <<seat, resident, created, results, agent, git, swaps>>

ListBefore ==
  /\ At("Create", 1)
  /\ \/ seat # Nobody /\ GoOn([job EXCEPT !.listed = Listing]) /\ UNCHANGED told
     \/ Done(Told("not created", 0))
  /\ UNCHANGED <<seat, resident, created, results, agent, git, calls, swaps>>

\* run_with_askpass fails by itself: the PIN was not taken, or the command not
\* waited for.  The error is passed on before anything is listed.
NoAnswer == [Nothing EXCEPT !.what = "no answer"]

\* ssh-keygen makes the credential or not, writes its two files or not, and
\* reports success only when it has done both; or there is no answer of it.
Keygen ==
  /\ At("Create", 2)
  /\ \/ /\ seat # Nobody
        /\ created' = created + 1
        /\ resident' = [resident EXCEPT ![seat] = @ \union {created'}]
     \/ UNCHANGED <<created, resident>>
  /\ \/ /\ \E files, ok \in BOOLEAN :
             (ok => files) /\ (files => created' # created) /\ GoOn([job EXCEPT !.ok = ok, !.files = files])
        /\ UNCHANGED told
     \/ Done(NoAnswer)
  /\ UNCHANGED <<seat, results, agent, git, calls, swaps>>

CreateSaysListed(new) ==
  IF new = {} THEN Told(IF job.ok THEN "inspect, do not retry" ELSE "not created", 0)
  ELSE IF job.ok /\ ~job.files THEN Told("inspect, do not retry", 0)
  ELSE Told(IF job.ok THEN "created" ELSE "created, do not retry", CHOOSE c \in new : TRUE)

\* The exit status alone.
CreateTrusts(new) ==
  IF job.ok /\ new # {} THEN Told("created", CHOOSE c \in new : TRUE) ELSE Told("not created", 0)
CreateSays(new) == CreateSaysListed(new)

ListAfter ==
  /\ At("Create", 3)
  /\ \/ /\ seat # Nobody
        /\ Done(CreateSays(Listing \ job.listed))
        /\ results' = IF told'.what = "created" THEN [ok |-> TRUE, found |-> Listing] ELSE results
     \/ Done(Told("inspect, do not retry", 0)) /\ UNCHANGED results
  /\ UNCHANGED <<seat, resident, created, agent, git, calls, swaps>>

(***************************************************************************)
(* delete_resident_credential: a listing that must hold the very           *)
(* credential, fido2-token -D, a listing that decides.                     *)
(***************************************************************************)
DeleteKey ==
  /\ \E c \in results.found : Begin([Begun("Delete") EXCEPT !.cred = c])
  /\ UNCHANGED <<seat, resident, created, results, agent, git, swaps>>

CheckCredential ==
  /\ At("Delete", 1)
  /\ \/ seat # Nobody /\ job.cred \in Listing /\ GoOn(job) /\ UNCHANGED told
     \/ Done(Told("not deleted", job.cred))
  /\ UNCHANGED <<seat, resident, created, results, agent, git, calls, swaps>>

\* The deletion may be committed and its answer lost.
DeleteCommand ==
  /\ At("Delete", 2)
  /\ \/ /\ seat # Nobody /\ job.cred \in resident[seat]
        /\ resident' = [resident EXCEPT ![seat] = @ \ {job.cred}]
        /\ \E ok \in BOOLEAN : GoOn([job EXCEPT !.ok = ok])
     \/ GoOn(job) /\ UNCHANGED resident
  /\ UNCHANGED <<seat, created, results, agent, git, told, calls, swaps>>

\* finish_delete.
FinishDelete(listing) == IF job.cred \in listing THEN "not deleted" ELSE "deleted"

VerifyDeleted ==
  /\ At("Delete", 3)
  /\ \/ /\ seat # Nobody
        /\ Done(Told(FinishDelete(Listing), job.cred))
        /\ results' = IF told'.what = "deleted" THEN [ok |-> TRUE, found |-> Listing] ELSE results
     \/ Done(Told("unknown, do not retry", job.cred)) /\ UNCHANGED results
  /\ UNCHANGED <<seat, resident, created, agent, git, calls, swaps>>

(***************************************************************************)
(* load_resident_keys: ssh-add -K takes every credential of the one key.   *)
(***************************************************************************)
LoadKeys ==
  /\ Begin([Begun("Load") EXCEPT !.listed = results.found])
  /\ results.ok /\ results.found # {} /\ ~(results.found \subseteq agent)
  /\ UNCHANGED <<seat, resident, created, results, agent, git, swaps>>

SshAdd ==
  /\ At("Load", 1)
  /\ \/ seat # Nobody /\ agent' = agent \union Listing
     \/ UNCHANGED agent
  /\ Done(IF job.listed \subseteq agent' THEN Told("loaded", 0) ELSE Told("not loaded", 0)) \/ Done(NoAnswer)
  /\ UNCHANGED <<seat, resident, created, results, git, calls, swaps>>

RemoveFromAgent ==
  /\ \E c \in results.found \intersect agent : agent' = agent \ {c}
  /\ job = NoJob
  /\ UNCHANGED <<seat, resident, created, results, git, job, told, calls, swaps>>

(***************************************************************************)
(* Git signing: four settings, written one by one, the key before the      *)
(* switch; a failure writes the old ones back, in the same order, and      *)
(* whether that succeeds is ignored.                                       *)
(***************************************************************************)
Settings == <<"format", "key", "commits", "tags">>

SelectKey ==
  /\ \E c \in results.found :
       Begin([Begun("Git") EXCEPT !.old = git,
                                  !.new = [format |-> "ssh", key |-> c, commits |-> "true", tags |-> "false"]])
  /\ UNCHANGED <<seat, resident, created, results, agent, git, swaps>>

DisableSigning ==
  /\ Begin([Begun("Git") EXCEPT !.old = git, !.new = [git EXCEPT !.commits = "false", !.tags = "false"]])
  /\ UNCHANGED <<seat, resident, created, results, agent, git, swaps>>

WriteSetting ==
  /\ job.op = "Git" /\ job.at <= Len(Settings)
  /\ git' = [git EXCEPT ![Settings[job.at]] = (IF job.failed THEN job.old ELSE job.new)[Settings[job.at]]]
  /\ GoOn(job)
  /\ UNCHANGED <<seat, resident, created, results, agent, told, calls, swaps>>

\* git config fails: the values read before go back, from the first; it fails
\* again, and the settings stay as they are, behind the same message.
SettingFails ==
  /\ job.op = "Git" /\ job.at <= Len(Settings)
  /\ \/ ~job.failed /\ job' = [job EXCEPT !.failed = TRUE, !.at = 1] /\ UNCHANGED told
     \/ job.failed /\ Done([Nothing EXCEPT !.what = "git torn"])
  /\ UNCHANGED <<seat, resident, created, results, agent, git, calls, swaps>>

EndGit ==
  /\ job.op = "Git" /\ job.at > Len(Settings)
  /\ Done(IF job.failed THEN [Nothing EXCEPT !.what = "git unchanged", !.git = job.old]
          ELSE [Nothing EXCEPT !.what = "git set", !.git = job.new])
  /\ UNCHANGED <<seat, resident, created, results, agent, git, calls, swaps>>

\* The application is killed behind the dialog.
Killed ==
  /\ job # NoJob
  /\ Done(Nothing) /\ results' = Unlisted
  /\ UNCHANGED <<seat, resident, created, agent, git, calls, swaps>>

\* The user pulls a key out or plugs one in.
SwapKey ==
  /\ swaps < MostSwaps /\ swaps' = swaps + 1
  /\ seat' \in (Keys \union {Nobody}) \ {seat}
  /\ job' = IF job = NoJob THEN job ELSE [job EXCEPT !.moved = TRUE]
  /\ UNCHANGED <<resident, created, results, agent, git, told, calls>>

Init ==
  /\ seat \in Keys
  /\ resident = [k \in Keys |-> IF k = seat THEN {1} ELSE {}]
  /\ created = 1 /\ results = Unlisted /\ agent = {}
  /\ \E commits \in {"unset", "true"} :  \* true: the user signs with GnuPG
       git = [Unset EXCEPT !.commits = commits]
  /\ job = NoJob /\ told = Nothing /\ calls = 0 /\ swaps = 0

Next ==
  \/ InspectDevice \/ EndInspect \/ CreateKey \/ ListBefore \/ Keygen \/ ListAfter
  \/ DeleteKey \/ CheckCredential \/ DeleteCommand \/ VerifyDeleted
  \/ LoadKeys \/ SshAdd \/ RemoveFromAgent
  \/ SelectKey \/ DisableSigning \/ WriteSetting \/ SettingFails \/ EndGit \/ Killed \/ SwapKey

Spec == Init /\ [][Next]_residentVars

(***************************************************************************)
(* Properties.  They speak of calls during which the key stayed in place.  *)
(***************************************************************************)
Stored == UNION {resident[k] : k \in Keys}

\* An answer that allows another try is given only when the call changed
\* nothing, whether or not the command told the truth: retrying never leaves
\* a second credential, and "created" and "deleted" are facts.
AnswersAreTrue ==
  told.sure =>
    /\ told.what \in {"not created", "not deleted"} => ~told.changed
    /\ told.what = "created" => told.changed /\ told.cred = created
    /\ told.what = "deleted" => told.cred \notin Stored

\* A selection for Git takes effect as a whole or not at all, unless taking a
\* failed one back fails as well; it is never reported as set when it is not.
SelectionIsWhole == told.what \in {"git set", "git unchanged"} => git = told.git

\* A credential is never deleted but by the call that names it.
OnlyNamedIsDeleted ==
  job.op = "Delete" => \A k \in Keys : job.base[k] \ {job.cred} \subseteq resident[k]

ResidentKeysAreHonest == AnswersAreTrue /\ SelectionIsWhole /\ OnlyNamedIsDeleted
================================================================================
