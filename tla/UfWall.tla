--------------------------------- MODULE UfWall ---------------------------------
(***************************************************************************)
(* The firewall front end (andiora-ufwall-gtk).  ufw names a rule by its   *)
(* place in the list, the front end keeps a list it read some time ago,    *)
(* and every change is a command of its own that needs authorization: the  *)
(* rule, profile and audit pages run such commands at the same time.  The  *)
(* service switch and the traffic auditor are modelled beside them.        *)
(***************************************************************************)
EXTENDS Naturals, Sequences, FiniteSets, SequencesExt

CONSTANTS
  MostRules,     \* rules are numbered in the order they are made
  MostIdle,      \* ticks without traffic after which the auditor forgets a connection
  MostTicks,     \* bound of the auditor's clock
  MostReads      \* reads of the Avahi units under way at once

\* What the constants must be.
WallConstants == {MostRules, MostIdle, MostTicks, MostReads} \subseteq Nat /\ MostIdle > 0

VARIABLES
  rules,      \* ufw's list: its lines in order, each of the rule that made it
  made,       \* rules made so far
  edit,       \* the editing dialog: the number it was opened with
  everything, \* the deletion of all rules
  profile,    \* the profile switch and its commands
  mdns,       \* the Avahi units, the switch, the helper and the reads under way
  audit,      \* the auditor: its table and its clock
  part        \* the part this behaviour uses: the three share nothing

wallVars == <<rules, made, edit, everything, profile, mdns, audit, part>>

\* A line is for one of the profile's two ports, or for none of them (0).
Ports == {1, 2}
NoEdit == [at |-> "None"]
NoSweep == [at |-> "None"]
Has(port) == \E i \in DOMAIN rules : rules[i].for = port
Elsewhere == part = "Rules" /\ UNCHANGED <<mdns, audit, part>>

(***************************************************************************)
(* What a command of one page does to the numbers another still holds: a   *)
(* sweep's are shifted by a change at one of them or before it, and the    *)
(* place an edit has just emptied is disturbed by any.                     *)
(***************************************************************************)
Shifted(n) ==
  IF everything.at = "Sweeping" /\ n <= Len(everything.numbers)
    THEN [everything EXCEPT !.shifted = TRUE] ELSE everything
Disturbed == IF edit.at = "Deleted" THEN [edit EXCEPT !.moved = TRUE] ELSE edit

DeleteNumber(n) == rules' = RemoveAt(rules, n)

(***************************************************************************)
(* A rule's line goes to `at'.  When it has no address it has a second line*)
(* for IPv6, which ufw numbers in the same list, behind its own first rules*)
(* or at the place that answers to `at' there: anywhere.                   *)
(***************************************************************************)
Add(port, at) ==
  LET line == [for |-> port, made |-> made + 1]
  IN  /\ made < MostRules /\ made' = made + 1
      /\ \/ rules' = InsertAt(rules, at, line) /\ everything' = Shifted(at)
         \/ \E other \in 1 .. Len(rules) + 2 :
              /\ rules' = InsertAt(InsertAt(rules, at, line), other, line)
              /\ everything' = Shifted(IF other < at THEN other ELSE at)

\* ufw takes a position only if a rule is there already.
InsertPosition(n) == n \in 1..Len(rules)

(***************************************************************************)
(* The rule page, quick allow and the audit page's block.  A rule page's   *)
(* rows and dialogs have the numbers of a list read some time ago: any.    *)
(***************************************************************************)
\* Quick allow, the audit page's block, and the dialog's new rule, which may have a position.
AddRule ==
  /\ \E at \in 1 .. Len(rules) + 1 : Add(0, at)
  /\ edit' = Disturbed
  /\ UNCHANGED profile /\ Elsewhere

DeleteRule ==
  /\ \E n \in DOMAIN rules : DeleteNumber(n) /\ everything' = Shifted(n)
  /\ edit' = Disturbed
  /\ UNCHANGED <<made, profile>> /\ Elsewhere

(***************************************************************************)
(* Editing: the old rule is deleted, then the new one inserted in its      *)
(* place, which is refused when the old one was the last.                  *)
(***************************************************************************)
SaveDeletes ==
  /\ edit = NoEdit
  /\ \E n \in DOMAIN rules :
       /\ DeleteNumber(n) /\ everything' = Shifted(n)
       /\ edit' = [at |-> "Deleted", number |-> n, last |-> n = Len(rules), moved |-> FALSE]
  /\ UNCHANGED <<made, profile>> /\ Elsewhere

SaveInserts ==
  /\ edit.at = "Deleted"
  /\ \/ /\ InsertPosition(edit.number) /\ Add(0, edit.number)
        /\ edit' = NoEdit
     \/ /\ edit' = [edit EXCEPT !.at = IF InsertPosition(edit.number) THEN "Refused" ELSE "Lost"]
        /\ UNCHANGED <<rules, made, everything>>
  /\ UNCHANGED profile /\ Elsewhere

\* After an error the dialog's button stays insensitive: it can only be closed.
CloseEdit ==
  /\ edit.at \in {"Refused", "Lost"} /\ edit' = NoEdit
  /\ UNCHANGED <<rules, made, everything, profile>> /\ Elsewhere

(***************************************************************************)
(* Delete all: the numbers are read once, then deleted from the highest    *)
(* down, so that no deletion moves a number still to come.  `strays' says  *)
(* that it deleted a line it had not read.                                 *)
(***************************************************************************)
DescendingNumbers(n) == [i \in 1..n |-> n + 1 - i]
\* A bug: the numbers are deleted in the order ufw lists them.
ListedNumbers(n) == [i \in 1..n |-> i]
SweepOrder(n) == DescendingNumbers(n)

ReadNumbers ==
  /\ everything = NoSweep
  /\ everything' = [at |-> "Sweeping", numbers |-> SweepOrder(Len(rules)), later |-> made,
                    shifted |-> FALSE, strays |-> FALSE]
  /\ UNCHANGED <<rules, made, edit, profile>> /\ Elsewhere

DeleteAllRules ==
  /\ everything.at = "Sweeping"
  /\ \/ /\ everything.numbers # <<>> /\ Head(everything.numbers) \in DOMAIN rules
        /\ DeleteNumber(Head(everything.numbers))
        /\ everything' = [everything EXCEPT !.numbers = Tail(@),
                            !.strays = @ \/ rules[Head(everything.numbers)].made > everything.later]
        /\ edit' = Disturbed
     \/ everything.numbers # <<>> /\ everything' = NoSweep /\ UNCHANGED <<rules, edit>>  \* a command failed
     \/ everything.numbers = <<>> /\ everything' = NoSweep /\ UNCHANGED <<rules, edit>>
  /\ UNCHANGED <<made, profile>> /\ Elsewhere

(***************************************************************************)
(* A profile: one command per port.  Allowing stops at the first failure;  *)
(* forbidding goes on and answers for the last port only.  The switch shows*)
(* rules read some time ago, so either may be asked for.                   *)
(***************************************************************************)
ToggleProfile ==
  /\ profile.at = "None"          \* the ports are in no other operation
  /\ \E at \in {"Allowing", "Forbidding"} : profile' = [at |-> at, next |-> 1]
  /\ UNCHANGED <<rules, made, edit, everything>> /\ Elsewhere

NextPort == profile' = IF profile.next = 2 THEN [at |-> "None"] ELSE [profile EXCEPT !.next = 2]

AllowApp ==
  /\ profile.at = "Allowing"
  /\ \/ /\ NextPort
        /\ \/ ~Has(profile.next) /\ edit' = Disturbed
              /\ \E at \in 1 .. Len(rules) + 1 : Add(profile.next, at)
           \/ Has(profile.next) /\ UNCHANGED <<rules, made, edit, everything>>
     \/ profile' = [at |-> "None"] /\ UNCHANGED <<rules, made, edit, everything>>
  /\ Elsewhere

\* `ufw delete allow' takes both lines of the port.
DeleteApp ==
  /\ profile.at = "Forbidding" /\ NextPort
  /\ \/ \E n \in DOMAIN rules :
           /\ rules[n].for = profile.next /\ everything' = Shifted(n) /\ edit' = Disturbed
           /\ \/ DeleteNumber(n)
              \/ \E m \in n + 1 .. Len(rules) :
                   rules[m].for = profile.next /\ rules' = RemoveAt(RemoveAt(rules, m), n)
           /\ \A i \in DOMAIN rules' : rules'[i].for # profile.next
     \/ UNCHANGED <<rules, edit, everything>>
  /\ UNCHANGED made /\ Elsewhere

(***************************************************************************)
(* Local discovery.  The helper unmasks, enables and starts the units, or  *)
(* masks and stops them.  The switch is set from reads that may begin at   *)
(* any time and end in any order: `early' are those that began before the  *)
(* helper last ended, and the switch is `settled' once a later one set it. *)
(***************************************************************************)
MdnsEnabled(units) == units.available /\ ~units.masked /\ (units.starts \/ units.active)
Reads == 1 .. MostReads
UnderWay == {r \in Reads : mdns.reads[r] # "None"}
Discovery(next) ==
  /\ part = "Discovery" /\ mdns' = next
  /\ UNCHANGED <<rules, made, edit, everything, profile, audit, part>>

\* The window refreshes at its start, whenever a watched file changes, and after the helper.
RefreshMdns ==
  \E r \in Reads \ UnderWay :
    Discovery([mdns EXCEPT !.reads[r] = "Asked", !.sensitive = FALSE, !.early = @ \ {r}])

LookMdns ==
  \E r \in Reads :
    /\ mdns.reads[r] = "Asked"
    /\ \/ Discovery([mdns EXCEPT !.reads[r] = IF MdnsEnabled(mdns.units) THEN "On" ELSE "Off"])
       \/ Discovery([mdns EXCEPT !.reads[r] = "None"])        \* failed: the switch stays insensitive

ApplyMdns ==
  \E r \in Reads :
    /\ mdns.reads[r] \in {"On", "Off"}
    /\ Discovery([mdns EXCEPT !.reads[r] = "None", !.shows = mdns.reads[r] = "On",
                     !.sensitive = mdns.units.available, !.settled = r \notin mdns.early])

\* The user's switch; while the helper runs it only moves.
SetMdns ==
  /\ mdns.sensitive
  /\ \/ mdns.step = "None"
        /\ Discovery([mdns EXCEPT !.shows = ~@, !.sensitive = FALSE,
                         !.step = IF mdns.shows THEN "Mask" ELSE "Unmask"])
     \/ mdns.step # "None" /\ Discovery([mdns EXCEPT !.shows = ~@])

MdnsHelper ==
  \/ mdns.step = "Mask" /\ Discovery([mdns EXCEPT !.units.masked = TRUE, !.step = "Stop"])
  \/ mdns.step = "Stop" /\ Discovery([mdns EXCEPT !.units.active = FALSE, !.step = "Done"])
  \/ mdns.step = "Unmask" /\ Discovery([mdns EXCEPT !.units.masked = FALSE, !.step = "Enable"])
  \/ mdns.step = "Enable" /\ Discovery([mdns EXCEPT !.units.starts = TRUE, !.step = "Start"])
  \/ mdns.step = "Start" /\ Discovery([mdns EXCEPT !.units.active = TRUE, !.step = "Done"])
  \/ mdns.step \notin {"None", "Done"} /\ Discovery([mdns EXCEPT !.step = "Done"])  \* refused or failed

MdnsReturns ==
  /\ mdns.step = "Done"
  /\ \E r \in Reads \ UnderWay :
       Discovery([mdns EXCEPT !.step = "None", !.reads[r] = "Asked", !.sensitive = FALSE,
                    !.early = UnderWay, !.settled = FALSE])

(***************************************************************************)
(* The auditor: one connection stands for all.                             *)
(***************************************************************************)
Audits(next) ==
  /\ part = "Audit" /\ audit' = next
  /\ UNCHANGED <<rules, made, edit, everything, profile, mdns, part>>

Packet == audit.clock < MostTicks /\ Audits([audit EXCEPT !.known = TRUE, !.busy = TRUE])
Tick ==
  /\ audit.clock < MostTicks
  /\ LET idle == IF audit.busy THEN 0 ELSE audit.idle + 1
     IN Audits([known |-> audit.known /\ idle < MostIdle, busy |-> FALSE, clock |-> audit.clock + 1,
                idle |-> IF audit.known /\ idle < MostIdle THEN idle ELSE 0,
                last |-> IF audit.busy THEN audit.clock + 1 ELSE audit.last])

\* The window opens over units and a list it knows nothing of yet.
OneRule == <<[for |-> 0, made |-> 2]>>
TwoRules == <<[for |-> 1, made |-> 1], [for |-> 0, made |-> 2]>>
Installed == [available |-> TRUE, masked |-> FALSE, starts |-> TRUE, active |-> TRUE]

Init ==
  /\ part \in {"Rules", "Discovery", "Audit"}
  /\ rules \in {OneRule, TwoRules} /\ (part # "Rules" => rules = OneRule) /\ made = 2
  /\ edit = NoEdit /\ everything = NoSweep
  /\ profile = [at |-> "None"]
  /\ \E units \in [available : BOOLEAN, masked : BOOLEAN, starts : BOOLEAN, active : BOOLEAN] :
       /\ part # "Discovery" => units = Installed
       /\ mdns = [units |-> units, shows |-> FALSE, sensitive |-> TRUE, step |-> "None",
                  reads |-> [r \in Reads |-> "None"], early |-> {}, settled |-> FALSE]
  /\ audit = [known |-> FALSE, busy |-> FALSE, idle |-> 0, clock |-> 0, last |-> 0]

Next ==
  \/ AddRule \/ DeleteRule
  \/ SaveDeletes \/ SaveInserts \/ CloseEdit
  \/ ReadNumbers \/ DeleteAllRules
  \/ ToggleProfile \/ AllowApp \/ DeleteApp
  \/ RefreshMdns \/ LookMdns \/ ApplyMdns \/ SetMdns \/ MdnsHelper \/ MdnsReturns
  \/ Packet \/ Tick

Spec == Init /\ [][Next]_wallVars

(***************************************************************************)
(* Deleting all rules deletes only lines it read, and all of them when it  *)
(* comes to its end, whatever other pages add and delete behind the numbers*)
(* it still holds; an edit that ufw refuses for its position was one of the*)
(* last rule, unless another command changed the list between its two; the *)
(* discovery switch shows the units' state once a read that began after the*)
(* helper ended has set it, until an older one does; and the auditor lists *)
(* every connection with recent traffic.                                   *)
(***************************************************************************)
DeleteAllIsExact ==
  everything.at = "Sweeping" /\ ~everything.shifted =>
    /\ ~everything.strays
    /\ everything.numbers = <<>> => \A i \in DOMAIN rules : rules[i].made > everything.later
EditLosesOnlyTheLast == edit.at = "Lost" /\ ~edit.moved => edit.last
MdnsIsShown == mdns.step = "None" /\ mdns.settled => mdns.shows = MdnsEnabled(mdns.units)
RecentIsListed == audit.last > 0 /\ audit.clock < audit.last + MostIdle => audit.known
UfWallIsHonest == DeleteAllIsExact /\ EditLosesOnlyTheLast /\ MdnsIsShown /\ RecentIsListed
================================================================================
