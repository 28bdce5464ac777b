----------------------------- MODULE BugReporter -----------------------------
(***************************************************************************)
(* The bug reporters of the React and Angular SDKs (sdk-react/src/bug-     *)
(* reporter.tsx, sdk-angular/src/bug-reporter.component.ts) in one page:   *)
(* each replaces the console's functions by its own, which call those they *)
(* it found, and puts those back when it goes; React's does the same with  *)
(* fetch.  Beside the captures, the form of one reporter and POST          *)
(* /sdk/bug-report.  What a user typed is a number, new with every edit.   *)
(***************************************************************************)
EXTENDS Integers, Sequences, SequencesExt, FiniteSetsExt

CONSTANTS
    Reporters,    \* instances of the widget
    Kept,         \* entries a reporter keeps (100)
    MaxPrinted,   \* bound: entries printed
    MaxEdits,     \* bound: edits of the description
    MaxReports    \* bound: reports submitted

ASSUME ReporterAssumption ==
    /\ Reporters # {} /\ Kept \in Nat \ {0}
    /\ {MaxPrinted, MaxEdits, MaxReports} \subseteq Nat

VARIABLES
    console,      \* the reporters whose functions a call of the console goes through, last one first
    found,        \* what the console was when each reporter noted it
    life,         \* whether each reporter is in the page
    printed,      \* entries printed so far
    since,        \* history: how many had been printed when each reporter replaced the console
    consoleLogs,  \* the entries each reporter keeps
    nested,       \* history: reporters have gone in the reverse of the order in which they came, and none
                  \* came or went between another's two steps
    description,  \* what the form shows, 0 if nothing
    edits,        \* edits so far
    sending, sentShown, \* the states of the form
    report,       \* the report on its way: what was typed, and where it is
    reports,      \* the reports that the API has stored
    unanswered,   \* history: reports that were stored and whose answer was lost
    thanked,      \* what was typed for the last report that was answered
    crossed,      \* history: the edits made while a report was on its way
    wiped         \* history: what was wiped from the form, and what its report said

captures == <<console, found, life, printed, since, consoleLogs, nested>>
reportHistory == <<unanswered, crossed, wiped>>
reporterForm == <<description, edits, sending, sentShown, report, reports, thanked, reportHistory>>
reporterVars == <<captures, reporterForm>>

NoReport == [typed |-> 0, at |-> "none"]

ReporterTypeOK ==
    /\ console \in Seq(Reporters) /\ found \in [Reporters -> Seq(Reporters)]
    /\ life \in [Reporters -> {"new", "made", "mounted", "gone"}] /\ nested \in BOOLEAN
    /\ printed \in 0 .. MaxPrinted /\ since \in [Reporters -> 0 .. MaxPrinted]
    /\ consoleLogs \in [Reporters -> Seq(1 .. MaxPrinted)]
    /\ \A w \in Reporters : Len(consoleLogs[w]) <= Kept
    /\ description \in 0 .. MaxEdits /\ edits \in 0 .. MaxEdits /\ {sending, sentShown} \subseteq BOOLEAN
    /\ report \in [typed : 0 .. MaxEdits, at : {"none", "screenshot", "posted", "stored", "refused"}]
    /\ reports \in Seq(1 .. MaxEdits) /\ unanswered \subseteq 1 .. MaxEdits
    /\ thanked \in 0 .. MaxEdits /\ crossed \subseteq 1 .. MaxEdits
    /\ wiped \subseteq [shown : 0 .. MaxEdits, reported : 1 .. MaxEdits]

ReporterInit ==
    /\ console = <<>> /\ found = [w \in Reporters |-> <<>>] /\ life = [w \in Reporters |-> "new"]
    /\ printed = 0 /\ since = [w \in Reporters |-> 0] /\ consoleLogs = [w \in Reporters |-> <<>>] /\ nested = TRUE
    /\ description = 0 /\ edits = 0 /\ sending = FALSE /\ sentShown = FALSE /\ thanked = 0
    /\ report = NoReport /\ reports = <<>> /\ unanswered = {} /\ crossed = {} /\ wiped = {}

-----------------------------------------------------------------------------
(* The captures *)

\* Angular's reporter notes the console's functions when it is made ...
Construct(w) ==
    /\ life[w] = "new"
    /\ life' = [life EXCEPT ![w] = "made"] /\ found' = [found EXCEPT ![w] = console]
    /\ UNCHANGED <<console, printed, since, consoleLogs, nested, reporterForm>>

\* The console as reporter w left it.
Own(w) == IF life[w] = "mounted" THEN <<w>> \o found[w] ELSE found[w]

\* ... and replaces them when it is initialised, by functions that call those it noted.
Mount(w) ==
    /\ life[w] = "made"
    /\ life' = [life EXCEPT ![w] = "mounted"]
    /\ console' = <<w>> \o found[w] /\ nested' = (nested /\ console = Own(w))
    /\ since' = [since EXCEPT ![w] = printed]
    /\ UNCHANGED <<found, printed, consoleLogs, reporterForm>>

\* The effect of React's does both.
MountAtOnce(w) ==
    /\ life[w] = "new"
    /\ life' = [life EXCEPT ![w] = "mounted"]
    /\ found' = [found EXCEPT ![w] = console] /\ console' = <<w>> \o console
    /\ since' = [since EXCEPT ![w] = printed]
    /\ UNCHANGED <<printed, consoleLogs, nested, reporterForm>>

\* What it noted is put back, whoever has replaced it in turn.
Unmount(w) ==
    /\ life[w] \in {"made", "mounted"}
    /\ life' = [life EXCEPT ![w] = "gone"]
    /\ console' = found[w] /\ nested' = (nested /\ console = Own(w))
    /\ UNCHANGED <<found, printed, since, consoleLogs, reporterForm>>

LastOf(entries) == IF Len(entries) > Kept THEN Tail(entries) ELSE entries

\* An entry goes through all the functions, also those of reporters that have gone.
PrintEntry ==
    /\ printed < MaxPrinted /\ printed' = printed + 1
    /\ consoleLogs' = [w \in Reporters |-> IF w \in ToSet(console)
                                           THEN LastOf(Append(consoleLogs[w], printed'))
                                           ELSE consoleLogs[w]]
    /\ UNCHANGED <<console, found, life, since, nested, reporterForm>>

-----------------------------------------------------------------------------
(* The form *)

\* The description can be changed until thanks are shown, also while a report is on its way.
Edit ==
    /\ ~sentShown /\ edits < MaxEdits
    /\ edits' = edits + 1 /\ description' = edits'
    /\ crossed' = IF sending THEN crossed \cup {edits'} ELSE crossed
    /\ UNCHANGED <<captures, sending, sentShown, report, reports, thanked, unanswered, wiped>>

\* React's widget makes a screenshot first; Angular's posts at once.
Submit(first) ==
    /\ description # 0 /\ ~sending /\ ~sentShown /\ Len(reports) < MaxReports
    /\ sending' = TRUE /\ report' = [typed |-> description, at |-> first]
    /\ UNCHANGED <<captures, description, edits, sentShown, reports, thanked, reportHistory>>

Moves(at, next) == report.at = at /\ report' = [report EXCEPT !.at = next]

PostReport ==
    /\ Moves("screenshot", "posted")
    /\ UNCHANGED <<captures, description, edits, sending, sentShown, reports, thanked, reportHistory>>

\* POST /sdk/bug-report stores a report or refuses it.
Store ==
    /\ Moves("posted", "stored") /\ reports' = Append(reports, report.typed)
    /\ UNCHANGED <<captures, description, edits, sending, sentShown, thanked, reportHistory>>
Refuse ==
    /\ Moves("posted", "refused")
    /\ UNCHANGED <<captures, description, edits, sending, sentShown, reports, thanked, reportHistory>>

Thank ==
    /\ report.at = "stored"
    /\ sentShown' = TRUE /\ sending' = FALSE /\ report' = NoReport
    /\ thanked' = report.typed
    /\ UNCHANGED <<captures, description, edits, reports, reportHistory>>

\* An error, or an answer that is lost: the form is as it was.
FailReport ==
    /\ report.at \in {"stored", "refused"}
    /\ unanswered' = IF report.at = "stored" THEN unanswered \cup {report.typed} ELSE unanswered
    /\ sending' = FALSE /\ report' = NoReport
    /\ UNCHANGED <<captures, description, edits, sentShown, reports, thanked, crossed, wiped>>

\* Two seconds later the form is closed and empty.
Close ==
    /\ sentShown /\ sentShown' = FALSE /\ description' = 0
    /\ wiped' = wiped \cup {[shown |-> description, reported |-> thanked]}
    /\ UNCHANGED <<captures, edits, sending, report, reports, thanked, unanswered, crossed>>

ReporterNext ==
    \/ \E w \in Reporters : Construct(w) \/ Mount(w) \/ MountAtOnce(w) \/ Unmount(w)
    \/ PrintEntry \/ Edit \/ (\E first \in {"screenshot", "posted"} : Submit(first))
    \/ PostReport \/ Store \/ Refuse \/ Thank \/ FailReport \/ Close

-----------------------------------------------------------------------------
(* Properties *)

\* Reporters that go in the reverse of the order in which they came leave the console as the page had
\* it, and each of those in the page keeps the last entries since it came.  In another order, or when
\* two are made before either is initialised, one that has gone can stay in the console for good, and
\* one that is there hear nothing.
NestedCapture ==
    nested =>
        /\ ToSet(console) = {w \in Reporters : life[w] = "mounted"}
        /\ \A w \in ToSet(console) :
              consoleLogs[w] = LET first == Max({since[w], printed - Kept} \cap Nat)
                               IN  [i \in 1 .. printed - first |-> first + i]

\* A report whose answer was not lost is not stored twice.
StoredTwiceIfLost ==
    \A i, j \in DOMAIN reports : i # j /\ reports[i] = reports[j] => reports[i] \in unanswered

\* What is wiped from the form after the thanks was reported, but for what was typed while the report
\* was on its way: that is gone.
WipedWasReported == \A x \in wiped : x.shown = x.reported \/ x.shown \in crossed

\* Captures come and go as they should, and the form loses and doubles nothing by itself.
ReporterInv == ReporterTypeOK /\ NestedCapture /\ StoredTwiceIfLost /\ WipedWasReported
=============================================================================
