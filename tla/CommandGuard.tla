---------------------------- MODULE CommandGuard ----------------------------
(***************************************************************************)
(* What POST /agent/commands/execute (platform/api/src/routes/agent-       *)
(* commands.ts) does with one command of any risk: lib/command-guard.ts    *)
(* judges it, the handler asks for what that risk requires, and lib/       *)
(* command-exec.ts judges it again and runs it without a shell.  A command *)
(* is lines of words as they are written, quotes included, of one kind and *)
(* never a word of quotes alone; it is judged as it is written and run     *)
(* without the quotes.  The approval is as the handler finds it: its life  *)
(* is in AgentCommands.                                                    *)
(***************************************************************************)
EXTENDS Naturals, Sequences, SequencesExt

CONSTANTS
    Words,       \* the words of commands, as they are written
    Spelled,     \* each without its quotes
    ReadAlone,   \* words that match a rule of one word, as far as its \b, which allows without more
    Reads,       \* program and word that match a rule of two, the second as far as its \b: without more
    Mutations,   \*   with confirm and a reason
    Destructive, \*   and with an approval
    Forbidden,   \* sets of words that, all in one command, match a rule that denies: their order is
                 \*   left out
    Chaining,    \* words in which a shell would chain, pipe or substitute
    Quoting,     \* words with an odd number of quotes
    MaxLines,    \* bound: lines of a command
    MaxWords     \* bound: words of a line

\* A rule of two words asks for a blank after the program.
ASSUME GuardAssumption ==
    /\ DOMAIN Spelled = Words /\ ReadAlone \subseteq Words
    /\ Reads \cup Mutations \cup Destructive \subseteq Words \X Words
    /\ \A s, t \in {Reads, Mutations, Destructive} : s # t => s \cap t = {}
    /\ \A rule \in Reads \cup Mutations \cup Destructive :
          rule[1] \notin Quoting \cup ReadAlone /\ Spelled[rule[1]] = rule[1]
    /\ Forbidden \subseteq SUBSET Words /\ {} \notin Forbidden
    /\ Chaining \cup Quoting \subseteq Words /\ {MaxLines, MaxWords} \subseteq Nat

VARIABLES
    lines,      \* the command that was sent
    given,      \* what was sent with it
    approval,   \* the approval it names
    phase,      \* what the handler does next, or how it answered
    judged,     \* the words that were judged
    argv        \* what was run: program and arguments, each the words of it without quotes

guardVars == <<lines, given, approval, phase, judged, argv>>

Approvals == {"none", "missing", "undecided", "other", "expired", "approved"}
Texts == {Spelled[w] : w \in Words}
Spell(words) == [i \in DOMAIN words |-> Spelled[words[i]]]
Phases == {"execute", "run", "done", "refused", "failed"}

GuardTypeOK ==
    /\ given \subseteq {"confirm", "reason"} /\ approval \in Approvals /\ phase \in Phases
    /\ lines \in Seq(Seq(Words)) /\ judged \in Seq(Words) /\ argv \in Seq(Seq(Texts))

GuardInit ==
    /\ \E n \in 0 .. MaxLines : lines \in [1 .. n -> BoundedSeq(Words, MaxWords)]
    /\ given \in SUBSET {"confirm", "reason"} /\ approval \in Approvals
    /\ phase = "execute" /\ judged = <<>> /\ argv = <<>>

-----------------------------------------------------------------------------
(* lib/command-guard.ts *)

\* The lines, blank ones dropped, become one, with one blank between two words.
NormalizeCommand(command) == FlattenSeq(command)

Denied(words) ==
    \/ words = <<>> \/ ToSet(words) \cap Chaining # {}
    \/ \E rule \in Forbidden : rule \subseteq ToSet(words)

\* Rules that allow look at how a command begins.
Begins(words, rules) == Len(words) >= 2 /\ <<words[1], words[2]>> \in rules
Alone(words) == words # <<>> /\ words[1] \in ReadAlone

\* Mutant: the rules that allow come first.
AllowFirst(words) ==
    IF Begins(words, Reads) \/ Alone(words) THEN "read"
    ELSE IF Begins(words, Mutations) THEN "mutating"
    ELSE IF Begins(words, Destructive) THEN "destructive" ELSE "denied"

ValidateCommand(words) ==
    IF Denied(words) THEN "denied"
    ELSE IF Begins(words, Reads) \/ Alone(words) THEN "read"
    ELSE IF Begins(words, Mutations) THEN "mutating"
    ELSE IF Begins(words, Destructive) THEN "destructive" ELSE "denied"

-----------------------------------------------------------------------------
(* POST /agent/commands/execute *)

\* What a command of a level is refused without.
Required(level) == IF level = "read" THEN {} ELSE {"confirm", "reason"}

ExecuteCommand ==
    LET words == NormalizeCommand(lines)
        level == ValidateCommand(words)
    IN
    /\ phase = "execute"
    /\ judged' = words
    /\ phase' = IF /\ level # "denied" /\ Required(level) \subseteq given
                   /\ level = "destructive" => approval = "approved"
                THEN "run" ELSE "refused"
    /\ UNCHANGED <<lines, given, approval, argv>>

\* splitArgv: a quotation is one argument, or a part of one; its quotes are taken away.
SplitArgv(words) ==
    LET Split(acc, word) ==
            LET open == IF word \in Quoting THEN ~acc.open ELSE acc.open
            IN  [open |-> open,
                 args |-> IF acc.open
                          THEN [acc.args EXCEPT ![Len(acc.args)] = Append(@, Spelled[word])]
                          ELSE Append(acc.args, <<Spelled[word]>>)]
    IN  FoldLeft(Split, [open |-> FALSE, args |-> <<>>], words).args

\* executeValidatedCommand judges the words again.  A program that fails, or runs for more than a
\* minute, is answered as such.
RunCommandLine(ok) ==
    LET words == NormalizeCommand(<<judged>>) IN
    /\ phase = "run"
    /\ IF ValidateCommand(words) = "denied"
       THEN phase' = "failed" /\ UNCHANGED argv
       ELSE phase' = (IF ok THEN "done" ELSE "failed") /\ argv' = SplitArgv(words)
    /\ UNCHANGED <<lines, given, approval, judged>>

GuardNext == ExecuteCommand \/ \E ok \in BOOLEAN : RunCommandLine(ok)

-----------------------------------------------------------------------------
(* Properties *)

Ran == argv # <<>>

\* "Denied patterns are evaluated first and always reject" (command-guard.ts:22): what is written so
\* that it matches a rule that denies does not run, on whichever line it stands and whatever the
\* command begins with.  It does run where a quote within a word keeps the rule from matching.
DeniedNeverRuns == Ran => \A rule \in Forbidden : ~(rule \subseteq ToSet(FlattenSeq(lines)))

\* A program runs once, with every word of every line for its arguments and no other: a line break, a
\* chaining word or a quotation begins no second command and hides no word from the judgement, and up
\* to the first quotation over several words each word is an argument of its own.
OneCommand ==
    Ran => /\ FlattenSeq(argv) = Spell(FlattenSeq(lines)) /\ ToSet(judged) \cap Chaining = {}
           /\ \A i \in DOMAIN judged :
                 (\A k \in 1 .. i : judged[k] \notin Quoting) => argv[i] = <<Spelled[judged[i]]>>

\* Only a command that begins as a rule does runs, a destructive one with its approval; by a rule of two
\* words it runs the program of the rule, and the rule's verb too unless there are quotes in it.
RunByRule ==
    Ran => \/ Alone(judged)
           \/ /\ \/ Begins(judged, Reads)
                 \/ Begins(judged, Mutations) /\ given = {"confirm", "reason"}
                 \/ Begins(judged, Destructive) /\ given = {"confirm", "reason"} /\ approval = "approved"
              /\ argv[1] = <<judged[1]>>
              /\ judged[2] \notin Quoting /\ Spelled[judged[2]] = judged[2] => argv[2] = <<judged[2]>>

\* The guard and the argument splitter agree on what one command is.
GuardInv == GuardTypeOK /\ DeniedNeverRuns /\ OneCommand /\ RunByRule
=============================================================================
