------------------------------ MODULE CliLine ------------------------------
(* From the words of a command line to the command that runs (cli/core/app.ts, *)
(* argv.ts, repl.ts, history.ts): a single command, or the lines of a session   *)
(* whose connection and identity are frozen when it starts, with the consent to *)
(* use the device's identity, the confirmation a command may need, Ctrl-C, and  *)
(* the history file. What a command does is not modelled.                       *)
EXTENDS Integers, Sequences, SequencesExt, FiniteSetsExt

CONSTANTS Invocations,  \* how the tool may be started
          Lines,        \* what may be entered in a session
          Commands,     \* the registry: name -> definition
          HistoryLimit, \* entries the history keeps
          MaxLines      \* lines entered in a session

VARIABLES phase,    \* "start", "consent", "prompt", "entered", "running", "ended"
          session,  \* the resolved configuration, and whether there is a session
          line,     \* the words of the line being executed
          signal,   \* the AbortController of what runs: "none", "armed", "aborted"
          ran,      \* the contexts the handlers got
          history,  \* entries of the history file
          code,     \* the exit code
          left      \* lines still entered
vars == <<phase, session, line, signal, ran, history, code, left>>

NoSession == [interactive |-> FALSE, zone |-> "none", device |-> FALSE, yes |-> FALSE,
              silent |-> FALSE, consent |-> "none", start |-> <<>>]
Init == /\ phase = "start" /\ session = NoSession /\ line = <<>> /\ signal = "none"
        /\ ran = <<>> /\ history = <<>> /\ code = 0 /\ left = MaxLines

-----------------------------------------------------------------------------
(* Words. A word is [k, name, inline]: "word" (a plain one, its text is name),  *)
(* "opt" (--name or --name=inline), "end" (--) or "help".                        *)
ScopedFlags == {"wait", "yes"}
ScopedTexts == {"output", "trace-id"}
Flags == ScopedFlags \union {"cli", "version", "verbose", "non-interactive"}
Texts == ScopedTexts \union {"zone", "profile", "identity"}

NoArgs == [input |-> <<>>, scoped |-> <<>>, place |-> 1, next |-> 1, plain |-> FALSE,
           error |-> "none", help |-> FALSE]
Given(f, key, value) == [x \in DOMAIN f \union {key} |-> IF x = key THEN value ELSE f[x]]
Wrong(acc, why) == [acc EXCEPT !.error = why]
\* readOptionValue: the value of the option at i, and the words it takes.
Value(argv, i) ==
    IF argv[i].inline # "none"
    THEN [ok |-> argv[i].inline # "", value |-> argv[i].inline, words |-> 1]
    ELSE IF i < Len(argv) /\ argv[i + 1].k \notin {"opt", "end"}
    THEN [ok |-> TRUE, value |-> argv[i + 1].name, words |-> 2]
    ELSE [ok |-> FALSE, value |-> "", words |-> 1]

Positional(cmd, acc, w) ==
    IF acc.place > Len(cmd.positionals) THEN Wrong(acc, "TOO_MANY_ARGUMENTS")
    ELSE [acc EXCEPT !.input = Given(@, cmd.positionals[acc.place], w.name), !.place = @ + 1]
\* setGlobal, for what is said of this command only.
Scoped(acc, name, v) ==
    IF ~v.ok THEN Wrong(acc, "MISSING_ARGUMENT")
    ELSE IF name \in DOMAIN acc.scoped THEN Wrong(acc, "DUPLICATE_ARGUMENT")
    ELSE [acc EXCEPT !.scoped = Given(@, name, v.value)]
Flag(w) == [ok |-> w.inline = "none", value |-> "TRUE", words |-> 1]
\* An option of the command itself.
Option(cmd, acc, name, w, v) ==
    IF name \notin DOMAIN cmd.options THEN Wrong(acc, "UNKNOWN_OPTION")
    ELSE IF name \in DOMAIN acc.input THEN Wrong(acc, "DUPLICATE_ARGUMENT")
    ELSE LET got == IF cmd.options[name] = "boolean" THEN Flag(w) ELSE v
         IN  IF ~got.ok THEN Wrong(acc, "MISSING_ARGUMENT")
             ELSE IF cmd.options[name] = "integer" /\ got.value # "7" THEN Wrong(acc, "INVALID_ARGUMENT")
             ELSE [acc EXCEPT !.input = Given(@, name, got.value)]
\* Which of the three an option is, and the words it takes with it.
Reserved(repl, name) == repl /\ name \in Flags \union Texts
Taken(cmd, argv, i, repl) ==
    LET name == argv[i].name
    IN  IF name \in ScopedFlags /\ repl THEN 1
        ELSE IF ~Reserved(repl, name) /\ name \in DOMAIN cmd.options /\ cmd.options[name] = "boolean" THEN 1
        ELSE Value(argv, i).words

\* The word at i: after an error, and as the value of an option, it is passed
\* over; after "--" it is a plain one.
ParseWord(cmd, argv, repl, acc, i) ==
    LET w == argv[i]  v == Value(argv, i)
        After(a, n) == [a EXCEPT !.next = i + n]
    IN  IF acc.error # "none" \/ i < acc.next THEN acc
        ELSE IF acc.plain \/ w.k = "word" THEN After(Positional(cmd, acc, w), 1)
        ELSE IF w.k = "end" THEN [acc EXCEPT !.plain = TRUE]
        ELSE IF w.k = "help" THEN [acc EXCEPT !.help = TRUE]
        ELSE After(IF ~Reserved(repl, w.name) THEN Option(cmd, acc, w.name, w, v)
                   ELSE IF w.name \in ScopedFlags THEN Scoped(acc, w.name, Flag(w))
                   ELSE IF w.name \in ScopedTexts THEN Scoped(acc, w.name, v)
                   ELSE Wrong(acc, "SESSION_OPTION_FROZEN"), Taken(cmd, argv, i, repl))
\* What is known after the first n words.
ReadWords(cmd, argv, repl) ==
    LET read[n \in 0..Len(argv)] ==
          IF n = 0 THEN NoArgs ELSE ParseWord(cmd, argv, repl, read[n - 1], n)
    IN  read
\* parseCommandArgs: then what is required must be there.
ParseCommandArgs(cmd, argv, repl) ==
    LET acc == ReadWords(cmd, argv, repl)[Len(argv)]
    IN  IF acc.error = "none" /\ ~(ToSet(cmd.required) \subseteq DOMAIN acc.input)
        THEN Wrong(acc, "MISSING_ARGUMENT") ELSE acc

Words(ws, k) == \E i \in DOMAIN ws : ws[i].k = k
\* parseInvocation's globals come first, then module and verb, then the rest.
Global(acc, w) ==
    IF acc.error # "none" THEN acc
    ELSE IF w.name \notin Flags \union Texts THEN Wrong(acc, "UNKNOWN_OPTION")
    ELSE Scoped(acc, w.name, IF w.name \in Flags THEN Flag(w)
                             ELSE [ok |-> w.inline \notin {"none", ""}, value |-> w.inline, words |-> 1])
ReadGlobals(ws) ==
    LET read[n \in 0..Len(ws)] == IF n = 0 THEN NoArgs ELSE Global(read[n - 1], ws[n])
    IN  read
GlobalsOf(inv) == ReadGlobals(inv.globals)[Len(inv.globals)]
Said(acc, name) == name \in DOMAIN acc.scoped
Text(acc, name, otherwise) == IF Said(acc, name) THEN acc.scoped[name] ELSE otherwise

-----------------------------------------------------------------------------
Ends(with) == phase' = "ended" /\ code' = with /\ line' = <<>> /\ signal' = "none"
Chosen(g) == Said(g, "zone") \/ Said(g, "profile") \/ Said(g, "identity")
Resolved(inv, g) ==
    [interactive |-> Said(g, "cli"), zone |-> Text(g, "zone", "here"),
     device |-> ~Chosen(g), yes |-> Said(g, "yes"), silent |-> Said(g, "non-interactive"),
     consent |-> "none", start |-> inv.globals]
\* approveImplicitDeviceIdentity: may this session be the device's?
MayBeDevice(s) == ~s.device \/ s.yes
Opens(s, argv) ==
    IF MayBeDevice(s) THEN /\ session' = s /\ UNCHANGED <<signal, ran, history, left>> /\ code' = 0
                           /\ IF s.interactive THEN phase' = "prompt" /\ line' = <<>>
                              ELSE phase' = "running" /\ line' = argv
    ELSE IF s.silent THEN session' = s /\ Ends(4) /\ UNCHANGED <<ran, history, left>>
    ELSE session' = s /\ phase' = "consent" /\ line' = argv /\ UNCHANGED <<signal, ran, history, code, left>>

Runnable(words) == Len(words) >= 1 /\ words[1].name \in DOMAIN Commands
Args(words) == Tail(words)
\* run(): usage errors end with 2, help with 0; nothing of it opens a session.
Starts(inv) ==
    LET g == GlobalsOf(inv)
    IN  /\ phase = "start"
        /\ IF g.error # "none" THEN Ends(2) /\ UNCHANGED <<session, ran, history, left>>
           ELSE IF Said(g, "cli")
           THEN IF inv.words # <<>> \/ Said(g, "non-interactive") \/ Said(g, "yes")
                   \/ Said(g, "wait") \/ Said(g, "trace-id")
                THEN Ends(2) /\ UNCHANGED <<session, ran, history, left>>
                ELSE Opens(Resolved(inv, g), <<>>)
           ELSE IF ~Runnable(inv.words) THEN Ends(2) /\ UNCHANGED <<session, ran, history, left>>
           ELSE IF Words(Args(inv.words), "help") THEN Ends(0) /\ UNCHANGED <<session, ran, history, left>>
           ELSE LET cmd == Commands[inv.words[1].name]
                IN  IF \/ cmd.local /\ Chosen(g)
                       \/ ParseCommandArgs(cmd, Args(inv.words), FALSE).error # "none"
                       \/ Text(g, "output", "json") = "raw" /\ ~cmd.raw
                    THEN Ends(2) /\ UNCHANGED <<session, ran, history, left>>
                    ELSE IF cmd.local
                    THEN /\ session' = [Resolved(inv, g) EXCEPT !.device = FALSE, !.zone = "local"]
                         /\ phase' = "running" /\ line' = inv.words /\ UNCHANGED <<signal, ran, history, code, left>>
                    ELSE Opens(Resolved(inv, g), inv.words)
Consents(yes) ==
    /\ phase = "consent"
    /\ IF ~yes THEN Ends(4) /\ UNCHANGED <<session, ran, history, left>>
       ELSE /\ session' = [session EXCEPT !.consent = "given"] /\ UNCHANGED <<line, signal, ran, history, code, left>>
            /\ phase' = IF session.interactive THEN "prompt" ELSE "running"

\* l.secret: SECRET_WORDS finds one in the text of the line.
Secret(l) == l.secret \/ (Runnable(l.words) /\ (\/ Commands[l.words[1].name].secret
                                               \/ \E i \in DOMAIN l.words : /\ l.words[i].k = "opt"
                                                                            /\ l.words[i].name = "key"))
Remembered(l) == IF Secret(l) \/ (history # <<>> /\ Last(history) = l) THEN history
                 ELSE LET h == Append(history, l)
                      IN  SubSeq(h, Max({1, Len(h) - HistoryLimit + 1}), Len(h))
\* runRepl: a line is split, remembered, and only then can be interrupted.
Enters(l) ==
    /\ phase = "prompt" /\ left > 0 /\ left' = left - 1
    /\ IF l.kind = "exit" THEN Ends(0) /\ UNCHANGED <<session, ran, history>>
       ELSE IF l.kind # "command" THEN UNCHANGED <<phase, session, line, signal, ran, history, code>>
       ELSE /\ history' = Remembered(l) /\ phase' = "entered" /\ line' = l.words
            /\ UNCHANGED <<session, signal, ran, code>>
\* The history cannot be written: the error leaves the session.
HistoryFails == phase = "entered" /\ Ends(9) /\ UNCHANGED <<session, ran, history, left>>
\* executeInteractiveLine: an error is printed, and the prompt comes back.
LineStarts ==
    /\ phase = "entered"
    /\ IF \/ ~Runnable(line) \/ Words(Args(line), "help")
          \/ ParseCommandArgs(Commands[line[1].name], Args(line), TRUE).error # "none"
          \/ LET p == ParseCommandArgs(Commands[line[1].name], Args(line), TRUE)
             IN  Text(p, "output", "table") = "raw" /\ ~Commands[line[1].name].raw
       THEN phase' = "prompt" /\ line' = <<>> /\ UNCHANGED signal
       ELSE phase' = "running" /\ signal' = "armed" /\ UNCHANGED line
    /\ UNCHANGED <<session, ran, history, code, left>>

\* executeAndEmit: what the handler gets, of the line and of the session.
\* Seeded: one --yes confirms the rest of the session.
StaysConfirmed(s, p) == \/ s.yes \/ Said(p, "yes")
                        \/ ran # <<>> /\ Last(ran).confirmed
Confirmed(s, p) == IF s.interactive THEN Said(p, "yes") ELSE s.yes
Context(s, words) ==
    LET p == ParseCommandArgs(Commands[words[1].name], Args(words), s.interactive)
    IN  [words |-> words, input |-> p.input, zone |-> s.zone, confirmed |-> Confirmed(s, p)]
Handles == /\ phase = "running" /\ (line # <<>>)
           /\ ran' = Append(ran, Context(session, line)) /\ phase' = "handling"
           /\ UNCHANGED <<session, line, signal, history, code, left>>
Interrupts == /\ phase \in {"running", "handling"} /\ signal = "armed" /\ signal' = "aborted"
              /\ UNCHANGED <<phase, session, line, ran, history, code, left>>
Finishes(with) == /\ phase = "handling" /\ UNCHANGED <<session, ran, history, left>>
                  /\ IF session.interactive THEN phase' = "prompt" /\ line' = <<>> /\ signal' = "none" /\ UNCHANGED code
                     ELSE Ends(with)
\* ensureValid may fail before the handler is called.
SessionLost == /\ phase = "running" /\ UNCHANGED <<session, ran, history, left>>
               /\ IF session.interactive THEN phase' = "prompt" /\ line' = <<>> /\ signal' = "none" /\ UNCHANGED code
                  ELSE Ends(3)

Next == \/ \E inv \in Invocations : Starts(inv)
        \/ \E yes \in BOOLEAN : Consents(yes)
        \/ \E l \in Lines : Enters(l)
        \/ HistoryFails \/ LineStarts \/ Handles \/ Interrupts \/ SessionLost
        \/ \E with \in {0, 6, 8} : Finishes(with)
Spec == Init /\ [][Next]_vars

-----------------------------------------------------------------------------
\* Whether --yes is said as an option: not as a value, not after "--".
SaysYes(cmd, words) == \E i \in 2..Len(words) :
    /\ words[i].k = "opt" /\ words[i].name = "yes"
    /\ \A j \in 2..(i - 1) : words[j].k # "end"
\* A command runs with exactly what its own line, and the start of the tool,
\* said: confirmed only by a --yes of its line (or of the single command's
\* start), where the session was opened, as the device only with consent; and a
\* line that asks for help runs nothing.
RunsAsSaid ==
    \A i \in DOMAIN ran : LET c == ran[i] IN
        /\ c.confirmed => IF session.interactive THEN SaysYes(Commands[c.words[1].name], c.words)
                          ELSE \E j \in DOMAIN session.start : session.start[j].name = "yes"
        /\ c.zone = session.zone
        /\ session.device => session.consent = "given" \/ session.yes
        /\ ~Words(Args(c.words), "help")
        /\ ToSet(Commands[c.words[1].name].required) \subseteq DOMAIN c.input
\* Asking is not done where the user said nobody is there to answer.
AsksOnlyWhoAnswers == phase = "consent" => ~session.silent /\ ~session.yes
\* The history keeps the last lines, and none with a secret that could run: the
\* options of a command that is not known are not looked at, so that a line whose
\* command was mistyped is kept with what it says (history.ts:50).
HistoryIsSafe ==
    /\ Len(history) <= HistoryLimit
    /\ \A i \in DOMAIN history : history[i].hide => ~Runnable(history[i].words)
=============================================================================
