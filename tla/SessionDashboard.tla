--------------------------- MODULE SessionDashboard ----------------------------
(***************************************************************************)
(* useEpochGuardSession: the hook that polls one Session and lets its      *)
(* reader refresh or commit it, over an EpochStore that other clients and  *)
(* the service mutate, and a network that delays and reorders answers.     *)
(*                                                                         *)
(* Of the database this module keeps the revision and how far the Session  *)
(* is: EpochGuardService has the rest.  A session identifier is never used *)
(* again, so a Session that is gone stays gone.  The dashboard is mounted  *)
(* with its Session's identifier as its key: another Session is another    *)
(* instance of the hook.                                                   *)
(***************************************************************************)
EXTENDS EpochStore, Integers

CONSTANTS None,          \* the null pointer
          MaxRevision,    \* bound: mutations that anybody but this dashboard calls stop here
          MaxClicks,      \* bound: buttons clicked
          MaxGlitches     \* bound: requests lost or garbled, and writes of the store that fail

VARIABLES
  mounted,   \* the dashboard is on the page
  shown,     \* the snapshot in React's state
  latest,    \* latestRevisionRef
  failures,  \* failureCountRef
  hard,      \* hardFailureRef
  stale,     \* isStale and staleRef
  error,     \* an error is displayed
  timer,     \* the stale timer runs
  read,      \* the read in flight of each user of readSnapshot
  command,   \* the command in flight
  clicks,    \* buttons clicked
  told,      \* this instance was answered that its Session does not exist
  link,      \* "dead": what is in flight neither arrives nor fails
  glitches   \* requests lost or garbled

view == <<mounted, shown, latest, failures, hard, stale, error, timer, told>>
wires == <<read, command, clicks, link, glitches>>
dashboardVars == <<storeVars, view, wires>>

FAILURE_STALE_THRESHOLD == 3

-----------------------------------------------------------------------------
(* The Session in the database *)

Lives == {"none", "running", "blocked", "busy", "ready", "committed", "ended", "gone"}

NoSession == [life |-> "none", srev |-> 0]

(* A Session that moves to another state advances its revision. *)
InFlight(b) == b.life \in {"running", "busy"}

Move(b, life) == [life |-> life, srev |-> b.srev + 1]

(* The longest way a Session goes. *)
MaxMoves == 6

Outcomes == {"allow", "block", "fail"}

(* A command carries the revision of the snapshot it was clicked on, and the    *)
(* number of the click; another client has none.                                *)
SessionMutations ==
       [op : {"create", "allow", "block", "fail", "reset", "other"}]
  \cup [op : {"refresh", "commit"}, expected : 1..MaxMoves, by : 0..MaxClicks]

(* createSession, claimRefreshPlan, a validation, a failure, the effect gate,   *)
(* resetDemo, and a mutation that leaves the Session alone.                     *)
SessionApply(m, b) ==
  CASE m.op = "create" -> IF b.life = "none" THEN Move(b, "running") ELSE Refused
    [] m.op = "allow" -> IF InFlight(b) THEN Move(b, "ready") ELSE Refused
    [] m.op = "block" -> IF b.life = "running" THEN Move(b, "blocked") ELSE Refused
    [] m.op = "fail" -> IF InFlight(b) THEN Move(b, "ended") ELSE Refused
    [] m.op = "reset" -> IF b.life \in {"committed", "ended"} THEN Move(b, "gone") ELSE Refused
    [] m.op = "other" -> b
    [] m.op = "refresh" -> IF b.life = "blocked" /\ m.expected = b.srev THEN Move(b, "busy")
                           ELSE Refused
    [] m.op = "commit" -> IF b.life = "ready" /\ m.expected = b.srev THEN Move(b, "committed")
                          ELSE b

(* The store under a dashboard has one Session in it, and no other callbacks.   *)
ASSUME StoreOfOneSession ==
  /\ MaxClicks \in Nat
  /\ Mutations = SessionMutations
  /\ Empty = NoSession
  /\ \A m \in SessionMutations, b \in [life : Lives, srev : 0..MaxMoves] :
       Apply(m, b) = SessionApply(m, b)

(* What the caller of a command is answered once its mutation was published.    *)
(* A commit of a Session that has its Effect, or that was reset, is no error.   *)
Reply(m, b) ==
  IF m.op = "refresh" THEN "working"
  ELSE IF b.life \in {"committed", "gone"} \/ Apply(m, b) # b THEN "done"
  ELSE "conflict"

(* availableActions of a snapshot. *)
Offers(s, op) == s.life = (IF op = "refresh" THEN "blocked" ELSE "ready")

Exists(b) == b.life \notin {"none", "gone"}

-----------------------------------------------------------------------------
(* The wires *)

Reads == {"poll", "reload", "reread"}

SnapshotOf(d) == [rev |-> d.rev, life |-> d.body.life, srev |-> d.body.srev]

(* getSnapshot *)
Answer(d) == IF Exists(d.body) THEN [at |-> "snapshot", of |-> SnapshotOf(d)]
             ELSE [at |-> "notFound"]

At(place) == [at |-> place]

NoCommand == [at |-> "none", op |-> "commit", expected |-> 0, by |-> 0]

(* The mutation that the command in flight waits for. *)
Mine(m) == m.op \in {"refresh", "commit"} /\ command.at = "queued" /\ m.by = command.by

InServer == {"sent", "queued", "working"}

(* The command in the server gets to another place. *)
CommandAt(at) == command' = [command EXCEPT !.at = at]

(* What the caller of the running mutation is answered. *)
AnswerHead(at) ==
  IF Mine(Head(queue)) THEN CommandAt(at)
  ELSE UNCHANGED command

Troubles == faults + glitches

StoreRuns ==
  /\ ApplyMutation \/ WriteTemporary \/ RenameTemporary
  /\ UNCHANGED <<view, wires>>

(* throwClaimError: a claim that is refused conflicts, unless the Session is gone. *)
MutationThrows ==
  /\ Throw
  /\ AnswerHead(IF Exists(data.body) THEN "conflict" ELSE "notFound")
  /\ UNCHANGED <<view, read, clicks, link, glitches>>

MutationFails ==
  /\ Troubles < MaxGlitches
  /\ PersistFails
  /\ AnswerHead("failed")
  /\ UNCHANGED <<view, read, clicks, link, glitches>>

(* The refresh request is answered when its Run has settled the Session. *)
MutationPublished ==
  /\ Publish
  /\ IF Head(queue).op \in Outcomes /\ command.at = "working" THEN CommandAt("done")
     ELSE AnswerHead(Reply(Head(queue), data.body))
  /\ UNCHANGED <<view, read, clicks, link, glitches>>

(* The Runs of a Session end, or a start recovers what a crash left of them.    *)
RunEnds ==
  /\ InFlight(data.body)
  /\ \A i \in DOMAIN queue : queue[i].op \notin Outcomes
  /\ \E op \in Outcomes : Apply([op |-> op], data.body) # Refused /\ Mutate([op |-> op])
  /\ UNCHANGED <<view, wires>>

(* The service, or another client with the snapshot of now, calls mutate. *)
MutateElsewhere ==
  /\ data.rev + Len(queue) < MaxRevision
  /\ \/ \E op \in {"create", "reset", "other"} :
          /\ Apply([op |-> op], data.body) # Refused
          /\ Mutate([op |-> op])
     \/ \E op \in {"refresh", "commit"} :
          /\ Offers(data.body, op)
          /\ Mutate([op |-> op, expected |-> data.body.srev, by |-> 0])
  /\ UNCHANGED <<view, wires>>

(* The process dies: what it was answering fails. *)
ServerCrashes ==
  /\ Crash
  /\ IF command.at \in InServer THEN CommandAt("failed") ELSE UNCHANGED command
  /\ UNCHANGED <<view, read, clicks, link, glitches>>

ServerStarts == initialize /\ UNCHANGED <<view, wires>>

(* A read reaches the server, which answers from what it has published. *)
ServerAnswers(r) ==
  /\ up /\ link = "ok" /\ read[r].at = "sent"
  /\ read' = [read EXCEPT ![r] = Answer(data)]
  /\ UNCHANGED <<storeVars, view, command, clicks, link, glitches>>

(* A command reaches the server: commit and refresh look for the Session first. *)
ServerTakes ==
  /\ up /\ link = "ok" /\ command.at = "sent"
  /\ IF Exists(data.body)
     THEN /\ Mutate([op |-> command.op, expected |-> command.expected, by |-> command.by])
          /\ CommandAt("queued")
     ELSE CommandAt("notFound") /\ UNCHANGED storeVars
  /\ UNCHANGED <<view, read, clicks, link, glitches>>

(* What is lost on the way, or garbled, while server and network are healthy. *)
Glitch == up /\ Troubles < MaxGlitches /\ glitches' = glitches + 1

(* The network loses a read or its answer and the browser notices; a server     *)
(* that is down refuses it; or the server answers a snapshot that does not      *)
(* close.                                                                       *)
ReadFails(r) ==
  /\ link = "ok" /\ read[r].at = "sent"
  /\ \/ Glitch /\ \E a \in {"failed", "mismatch"} : read' = [read EXCEPT ![r] = At(a)]
     \/ ~up /\ read' = [read EXCEPT ![r] = At("failed")] /\ UNCHANGED glitches
  /\ UNCHANGED <<storeVars, view, command, clicks, link>>

(* The same of a command; the server goes on with what it has of it. *)
CommandFails ==
  /\ link = "ok" /\ command.at \in InServer
  /\ Glitch \/ (~up /\ UNCHANGED glitches)
  /\ CommandAt("failed")
  /\ UNCHANGED <<storeVars, view, read, clicks, link>>

(* The network neither delivers nor fails, for a while or for good. *)
LinkDies ==
  /\ link = "ok" /\ Troubles < MaxGlitches
  /\ link' = "dead" /\ glitches' = glitches + 1
  /\ UNCHANGED <<storeVars, view, read, command, clicks>>

LinkRecovers ==
  /\ link = "dead" /\ link' = "ok"
  /\ UNCHANGED <<storeVars, view, read, command, clicks, glitches>>

-----------------------------------------------------------------------------
(* What becomes of an answer *)

(* Mutation of Accept: the deadline is not set again. *)
AcceptOnce(s) ==
  /\ latest' = s.rev
  /\ shown' = s
  /\ failures' = 0
  /\ hard' = FALSE /\ stale' = FALSE /\ error' = FALSE
  /\ UNCHANGED <<timer, told>>

(* A snapshot that is not older than the latest accepted one. *)
Accept(s) ==
  /\ latest' = s.rev
  /\ shown' = s
  /\ failures' = 0
  /\ hard' = FALSE /\ stale' = FALSE /\ error' = FALSE
  /\ timer' = TRUE
  /\ UNCHANGED told

(* applyTypedFailClosed: nothing may be clicked until a snapshot is accepted.   *)
(* Of a Session that does not exist not even the snapshot is kept.  A snapshot  *)
(* that cannot be decoded, or is another Session's, does the same.              *)
FailClosed(notFound) ==
  /\ failures' = FAILURE_STALE_THRESHOLD
  /\ hard' = TRUE /\ stale' = TRUE /\ error' = TRUE
  /\ timer' = FALSE
  /\ IF notFound THEN latest' = -1 /\ shown' = None /\ told' = TRUE
     ELSE UNCHANGED <<latest, shown, told>>

(* A failure that says nothing of the Session counts. *)
CountFailure ==
  /\ failures' = IF failures < FAILURE_STALE_THRESHOLD THEN failures + 1 ELSE failures
  /\ stale' = (stale \/ failures' = FAILURE_STALE_THRESHOLD)
  /\ error' = TRUE
  /\ UNCHANGED <<shown, latest, hard, timer, told>>

(* Mutation of Poll: the loop ends with a read that failed. *)
PollWhileHealthy ==
  /\ mounted /\ read["poll"].at = "none" /\ ~error
  /\ read' = [read EXCEPT !["poll"] = At("sent")]
  /\ UNCHANGED <<storeVars, view, command, clicks, link, glitches>>

(* Mutation of TakeAnswer: whatever arrives is shown. *)
TakeAnyAnswer(a) ==
  CASE a.at = "failed" -> CountFailure
    [] a.at = "mismatch" -> FailClosed(FALSE)
    [] a.at = "notFound" -> FailClosed(TRUE)
    [] OTHER -> Accept(a.of)

(* readSnapshot, from its answer on. *)
TakeAnswer(a) ==
  CASE a.at = "failed" -> CountFailure
    [] a.at = "mismatch" -> FailClosed(FALSE)
    [] a.at = "notFound" -> FailClosed(TRUE)
    [] a.of.rev < latest -> UNCHANGED <<shown, latest, failures, hard, stale, error, timer, told>>
    [] OTHER -> Accept(a.of)

(* An answer of a read arrives; the re-read of a command ends the command. *)
Deliver(r) ==
  /\ link = "ok" /\ read[r].at \notin {"none", "sent"}
  /\ TakeAnswer(read[r])
  /\ read' = [read EXCEPT ![r] = At("none")]
  /\ IF r = "reread" THEN command' = NoCommand ELSE UNCHANGED command
  /\ UNCHANGED <<storeVars, mounted, clicks, link, glitches>>

(* The answer of a command arrives.  Its content is never shown: a snapshot is  *)
(* read again, after a conflict too; the command itself is not repeated.        *)
DeliverCommand ==
  /\ link = "ok"
  /\ CASE command.at \in {"done", "conflict"} ->
            /\ CommandAt("rereading")
            /\ read' = [read EXCEPT !["reread"] = At("sent")]
            /\ error' = (error \/ command.at = "conflict")
            /\ UNCHANGED <<shown, latest, failures, hard, stale, timer, told>>
       [] command.at = "notFound" ->
            /\ FailClosed(TRUE) /\ command' = NoCommand /\ UNCHANGED read
       [] command.at = "failed" ->
            /\ error' = TRUE /\ command' = NoCommand
            /\ UNCHANGED <<read, shown, latest, failures, hard, stale, timer, told>>
       [] OTHER -> FALSE
  /\ UNCHANGED <<storeVars, mounted, clicks, link, glitches>>

-----------------------------------------------------------------------------
(* The page *)

(* Everything an instance starts with, and its effect sets again. *)
Fresh ==
  /\ shown' = None /\ latest' = -1 /\ failures' = 0
  /\ hard' = FALSE /\ stale' = FALSE /\ error' = FALSE /\ told' = FALSE
  /\ command' = NoCommand

(* The page learns the Session's identifier, and shows its dashboard. *)
Mount ==
  /\ ~mounted /\ data.body.life # "none"
  /\ mounted' = TRUE /\ timer' = TRUE
  /\ Fresh
  /\ read' = [read EXCEPT !["poll"] = At("sent")]
  /\ UNCHANGED <<storeVars, clicks, link, glitches>>

(* The reader leaves: requests are aborted, timers cleared. *)
Leave ==
  /\ mounted
  /\ mounted' = FALSE /\ timer' = FALSE
  /\ Fresh
  /\ read' = [r \in Reads |-> At("none")]
  /\ UNCHANGED <<storeVars, clicks, link, glitches>>

(* The poll timer runs from the end of one read to the start of the next. *)
Poll ==
  /\ mounted /\ read["poll"].at = "none"
  /\ read' = [read EXCEPT !["poll"] = At("sent")]
  /\ UNCHANGED <<storeVars, view, command, clicks, link, glitches>>

(* The reader clicks "Retry GET", which is there beside a snapshot. *)
Reload ==
  /\ mounted /\ shown # None /\ (stale \/ error) /\ read["reload"].at = "none"
  /\ clicks < MaxClicks /\ clicks' = clicks + 1
  /\ read' = [read EXCEPT !["reload"] = At("sent")]
  /\ UNCHANGED <<storeVars, view, command, link, glitches>>

(* staleAfterMs passed since the last accepted snapshot. *)
StaleTimer ==
  /\ timer
  /\ timer' = FALSE /\ stale' = TRUE
  /\ UNCHANGED <<storeVars, wires, mounted, shown, latest, failures, hard, error, told>>

(* The reader clicks a command that the snapshot offers. *)
Click(op) ==
  /\ mounted /\ shown # None /\ ~stale /\ ~hard /\ command.at = "none"
  /\ Offers(shown, op)
  /\ clicks < MaxClicks
  /\ clicks' = clicks + 1
  /\ command' = [at |-> "sent", op |-> op, expected |-> shown.srev, by |-> clicks']
  /\ error' = FALSE
  /\ UNCHANGED <<storeVars, read, link, glitches, mounted, shown, latest, failures, hard,
                 stale, timer, told>>

-----------------------------------------------------------------------------
(* Specification *)

DashboardInit ==
  /\ StoreInit
  /\ mounted = FALSE /\ timer = FALSE
  /\ shown = None /\ latest = -1 /\ failures = 0
  /\ hard = FALSE /\ stale = FALSE /\ error = FALSE /\ told = FALSE
  /\ read = [r \in Reads |-> At("none")]
  /\ command = NoCommand /\ clicks = 0
  /\ link = "ok" /\ glitches = 0

ServerNext ==
  \/ StoreRuns \/ MutationThrows \/ MutationFails \/ MutationPublished
  \/ RunEnds \/ MutateElsewhere
  \/ ServerCrashes \/ ServerStarts
  \/ \E r \in Reads : ServerAnswers(r)
  \/ ServerTakes

NetworkNext ==
  (\E r \in Reads : ReadFails(r)) \/ CommandFails \/ LinkDies \/ LinkRecovers

PageNext ==
  \/ \E r \in Reads : Deliver(r)
  \/ DeliverCommand
  \/ Mount \/ Leave \/ Poll \/ Reload \/ StaleTimer
  \/ \E op \in {"refresh", "commit"} : Click(op)

DashboardNext == ServerNext \/ NetworkNext \/ PageNext

(* A read and a command on a live network reach the server or its closed port,  *)
(* and their answers the page; the poll timer fires.                            *)
ReadGoesOn(r) ==
  \/ ServerAnswers(r) \/ (~up /\ ReadFails(r)) \/ Deliver(r)
  \/ r = "poll" /\ Poll

CommandGoesOn == ServerTakes \/ (~up /\ CommandFails) \/ DeliverCommand

(* A process that runs goes on with its queue, and the Runs of a Session end.   *)
(* No button must be clicked, no server started, no network recover.            *)
DashboardFairness ==
  /\ WF_dashboardVars(StoreRuns \/ MutationThrows \/ MutationPublished)
  /\ WF_dashboardVars(RunEnds)
  /\ \A r \in Reads : WF_dashboardVars(ReadGoesOn(r))
  /\ WF_dashboardVars(CommandGoesOn)
  /\ WF_dashboardVars(StaleTimer)

DashboardSpec == DashboardInit /\ [][DashboardNext]_dashboardVars

FairDashboardSpec == DashboardSpec /\ DashboardFairness
-----------------------------------------------------------------------------
(* Properties *)

(* While its dashboard stays on the page a view never goes back to an older     *)
(* revision, and never shows two different Sessions at one revision: late       *)
(* answers are dropped, and no crash of the server takes a revision back that   *)
(* was shown.                                                                   *)
ShownNeverGoesBack ==
  [][shown # None /\ shown' # None =>
       shown'.rev > shown.rev \/ shown' = shown]_dashboardVars

(* A view whose server is down, or whose requests neither arrive nor fail,      *)
(* becomes stale and stays it, so that nothing can be clicked on it.            *)
LostServerIsNoticed ==
  <>[](mounted /\ (~up \/ link = "dead")) => <>[]stale

(* Once server and network stay up, the view shows what the store has, or, of a *)
(* Session that was reset, nothing: whatever was lost, delayed or reordered     *)
(* before, the poll goes on.                                                    *)
ViewConverges ==
  <>[](mounted /\ up /\ link = "ok")
    => <>[](shown = IF Exists(data.body) THEN SnapshotOf(data) ELSE None)

(* A pending command disables every button: it ends whether its mutation is     *)
(* published, refused or not written, whether the server crashes, the request   *)
(* is lost or its revision was stale.  Only a network that never fails a        *)
(* request keeps it.                                                            *)
CommandSettles == command.at # "none" ~> (command.at = "none" \/ link = "dead")

(* Of a Session that the server said does not exist no snapshot is shown again: *)
(* "a 404 clears the executable Snapshot", and old answers do not take the      *)
(* view back.                                                                   *)
GoneStaysGone == told => shown = None
================================================================================
