------------------------------- MODULE Vault -------------------------------
(***************************************************************************)
(* A markdown file of the vault, shared by a person and the runtime.  The  *)
(* runtime owns the lines between a BEGIN and an END marker:               *)
(* WorldModel.update_belief_state() replaces them in a belief document,    *)
(* ReflectionEngine.run_weekly() adds a rule per troubled domain to those  *)
(* of the playbook.  Several processes write; a person edits at any time.  *)
(***************************************************************************)
EXTENDS Naturals, Sequences, FiniteSets, FiniteSetsExt, SequencesExt

CONSTANTS
    VaultWriters,   \* calls that may be in progress at once
    BeliefSections, \* sections of the belief document
    Beliefs,        \* contents written there
    HumanLines,
    TaskDomain,     \* [tasks -> domain of the task's request]
    WindowDays,
    MaxEdits, MaxWrites, MaxWeeks, MaxDeaths, MaxHistory, LastDay   \* bounds

ASSUME VaultAssumption ==
    /\ IsFiniteSet(DOMAIN TaskDomain) /\ WindowDays \in Nat /\ LastDay \in Nat /\ MaxHistory \in Nat
    /\ MaxEdits \in Nat /\ MaxWrites \in Nat /\ MaxWeeks \in Nat /\ MaxDeaths \in Nat

VARIABLES
    file,       \* sequence of lines, or NoFile
    kind,       \* which file: "belief" or "playbook"
    call,       \* [VaultWriters -> call in progress]
    history,    \* ledger events that matter to reflection; every task is requested first
    today,
    edits, writes, deaths

vaultVars == <<file, kind, call, history, today, edits, writes, deaths>>

Line(type, text) == [type |-> type, text |-> text]
BeginMark(s) == Line("begin", s)
EndMark(s) == Line("end", s)
NoFile == <<Line("none", "")>>
Header == Line("header", "")

Sections == BeliefSections \union {"reflections"}
TaskDomains == {TaskDomain[t] : t \in DOMAIN TaskDomain} \union {"unknown"}

-----------------------------------------------------------------------------
(* Block surgery: the pattern is not greedy, so a block goes from the first  *)
(* BEGIN to the first END after it.                                          *)
Ends(text, s, b) == {e \in (b + 1)..Len(text) : text[e] = EndMark(s)}
Begins(text, s) == {b \in 1..Len(text) : text[b] = BeginMark(s)}

_has_block(text, s) == \E b \in Begins(text, s) : Ends(text, s, b) # {}

BlockStart(text, s) == Min(Begins(text, s))
BlockEnd(text, s) == Min(Ends(text, s, BlockStart(text, s)))

_extract_block(text, s) ==
    IF ~_has_block(text, s) THEN <<>>
    ELSE SubSeq(text, BlockStart(text, s) + 1, BlockEnd(text, s) - 1)

_replace_block(text, s, managed) ==
    SubSeq(text, 1, BlockStart(text, s) - 1) \o managed
        \o SubSeq(text, BlockEnd(text, s) + 1, Len(text))

Managed(s, content) == <<BeginMark(s)>> \o content \o <<EndMark(s)>>

\* What the pattern would take if it were greedy.
NewText_Greedy(text, s, content) ==
    IF text = NoFile THEN <<Header>> \o Managed(s, content)
    ELSE IF ~_has_block(text, s) THEN text \o Managed(s, content)
    ELSE SubSeq(text, 1, BlockStart(text, s) - 1) \o Managed(s, content)
             \o SubSeq(text, Max({e \in 1..Len(text) : text[e].type = "end"}) + 1, Len(text))

NewText(text, s, content) ==
    IF text = NoFile THEN <<Header>> \o Managed(s, content)
    ELSE IF _has_block(text, s) THEN _replace_block(text, s, Managed(s, content))
    ELSE text \o Managed(s, content)

-----------------------------------------------------------------------------
(* Reflection: corrections, rollbacks and commits of the window, by domain.  *)
InWindow == {i \in 1..Len(history) : history[i].day + WindowDays >= today}

\* A request that is older than the window does not tell its task's domain.
domain_of(t) ==
    IF \E i \in InWindow : history[i].task = t /\ history[i].type = "TASK_REQUESTED"
    THEN TaskDomain[t] ELSE "unknown"

Tally(d, type) == Cardinality({i \in InWindow : history[i].type = type /\ domain_of(history[i].task) = d})

Trouble10(d) == 15 * Tally(d, "USER_CORRECTION") + 30 * Tally(d, "STATE_ROLLBACK_TRIGGERED")
Successes(d) == Max({Tally(d, "MUTATION_COMMITTED"), 1})

\* (1.5 corrections + 3 rollbacks) / max(successes, 1) >= 0.40
is_high_friction(d) == Trouble10(d) >= 4 * Successes(d)

\* Highest score first.
Worst(ds) == {d \in ds : \A x \in ds : Trouble10(d) * Successes(x) >= Trouble10(x) * Successes(d)}

-----------------------------------------------------------------------------
NoCall == [pc |-> "idle", section |-> "", todo |-> {}, lines |-> <<>>, fresh |-> TRUE]
SetCall(w, c) == call' = [call EXCEPT ![w] = c]

\* The file changes: what the calls in progress have read is no longer in it.
Outdated == [w \in VaultWriters |->
               IF call[w].pc \in {"compose", "replace"}
               THEN [call[w] EXCEPT !.fresh = FALSE] ELSE call[w]]

\* update_belief_state(): the file is read and the new text made.
UpdateReads(w, s, c) ==
    /\ kind = "belief" /\ call[w].pc = "idle" /\ writes < MaxWrites
    /\ SetCall(w, [NoCall EXCEPT !.pc = "replace", !.section = s,
                             !.lines = NewText(file, s, <<Line("text", c)>>)])
    /\ writes' = writes + 1
    /\ UNCHANGED <<file, kind, history, today, edits, deaths>>

\* run_weekly(): the window is analysed once, then a rule is written per domain.
Analyze(w) ==
    /\ kind = "playbook" /\ call[w].pc = "idle" /\ writes < MaxWeeks
    /\ SetCall(w, [NoCall EXCEPT !.pc = "next", !.section = "reflections",
                             !.todo = {d \in TaskDomains : is_high_friction(d)}])
    /\ writes' = writes + 1
    /\ UNCHANGED <<file, kind, history, today, edits, deaths>>

\* apply_to_playbook() reads the block it adds to ...
ExtractRules(w) ==
    /\ call[w].pc = "next"
    /\ IF call[w].todo = {} THEN SetCall(w, NoCall)
       ELSE \E d \in Worst(call[w].todo) :
              SetCall(w, [call[w] EXCEPT !.pc = "compose", !.fresh = TRUE, !.todo = @ \ {d},
                         !.lines = _extract_block(file, "reflections") \o <<Line("text", d)>>])
    /\ UNCHANGED <<file, kind, history, today, edits, writes, deaths>>

\* ... and _write_managed_block() reads the file again.  The new block is a
\* template to re.sub: one with a stray backslash raises, and the run with it.
ComposeBlock(w) ==
    /\ call[w].pc = "compose"
    /\ IF /\ _has_block(file, "reflections")
          /\ \E i \in 1..Len(call[w].lines) : call[w].lines[i].text = "back\\slash"
       THEN SetCall(w, NoCall)
       ELSE SetCall(w, [call[w] EXCEPT !.pc = "replace", !.lines = NewText(file, "reflections", @)])
    /\ UNCHANGED <<file, kind, history, today, edits, writes, deaths>>

Replaced(w) ==
    call' = [Outdated EXCEPT ![w] = IF kind = "belief" THEN NoCall
                                    ELSE [call[w] EXCEPT !.pc = "next", !.lines = <<>>]]

\* The text goes to a file of its own, which then takes the place of the old.
Replace(w) ==
    /\ call[w].pc = "replace" /\ file' = call[w].lines
    /\ Replaced(w) /\ UNCHANGED <<kind, history, today, edits, writes, deaths>>

\* The process dies, at worst with its own file half written.
Die(w) ==
    /\ call[w].pc # "idle" /\ deaths < MaxDeaths /\ deaths' = deaths + 1
    /\ SetCall(w, NoCall) /\ UNCHANGED <<file, kind, history, today, edits, writes>>

\* A person saves the file with a line more or less, a marker perhaps.
Save ==
    /\ edits < MaxEdits /\ edits' = edits + 1 /\ file # NoFile
    /\ \E i \in 1..Len(file) :
         \/ file' = SubSeq(file, 1, i - 1) \o SubSeq(file, i + 1, Len(file))
         \/ \E h \in HumanLines :
              file' = SubSeq(file, 1, i) \o <<Line("human", h)>> \o SubSeq(file, i + 1, Len(file))
    /\ call' = Outdated
    /\ UNCHANGED <<kind, history, today, writes, deaths>>

\* A run reads the ledger once, at its start: what happens later is the next
\* run's, so the events come before the first.
Untouched == writes = 0 /\ edits = 0

\* The ledger goes on: a task is corrected, rolled back or committed.
RecordEvent(t, type) ==
    /\ kind = "playbook" /\ Len(history) < MaxHistory /\ Untouched
    /\ history' = Append(history, [task |-> t, type |-> type, day |-> today])
    /\ UNCHANGED <<file, kind, call, today, edits, writes, deaths>>

DayPasses ==
    /\ kind = "playbook" /\ today < LastDay /\ Untouched /\ today' = today + 1
    /\ UNCHANGED <<file, kind, call, history, edits, writes, deaths>>

-----------------------------------------------------------------------------
VaultInit ==
    /\ kind \in {"belief", "playbook"}
    /\ file \in {NoFile} \union {<<Line("human", h)>> : h \in HumanLines}
    /\ call = [w \in VaultWriters |-> NoCall] /\ today = 0
    /\ history = SetToSeq({[task |-> t, type |-> "TASK_REQUESTED", day |-> 0] : t \in DOMAIN TaskDomain})
    /\ edits = 0 /\ writes = 0 /\ deaths = 0

VaultNext ==
    \/ \E w \in VaultWriters :
         \/ \E s \in BeliefSections, c \in Beliefs : UpdateReads(w, s, c)
         \/ Analyze(w) \/ ExtractRules(w) \/ ComposeBlock(w) \/ Replace(w) \/ Die(w)
    \/ Save \/ DayPasses
    \/ \E t \in DOMAIN TaskDomain :
         \E type \in {"USER_CORRECTION", "STATE_ROLLBACK_TRIGGERED", "MUTATION_COMMITTED"} :
            RecordEvent(t, type)

-----------------------------------------------------------------------------
Marks(text) == {i \in 1..Len(text) : text[i].type \in {"begin", "end"}}

\* A line is the runtime's if the markers on either side of it are a pair.
Owned(text, i) ==
    \E b, e \in Marks(text) :
        /\ b < i /\ i < e /\ {m \in Marks(text) : b < m /\ m < e} = {}
        /\ text[b].type = "begin" /\ text[e] = EndMark(text[b].text)

\* Every marker belongs to such a pair.
WellMarked(text) ==
    \A m \in Marks(text) : \E n \in Marks(text) :
        /\ {x \in Marks(text) : (m < x /\ x < n) \/ (n < x /\ x < m)} = {}
        /\ text[m].text = text[n].text
        /\ IF text[m].type = "begin" THEN m < n /\ text[n].type = "end"
                                     ELSE n < m /\ text[n].type = "begin"

HumanText(text) == {i \in 1..Len(text) : text[i].type = "human" /\ ~Owned(text, i)}

\* What the person wrote in one text is in the other, in the same order, and
\* nothing else.
SameHumanText(before, after) ==
    \E moved \in [HumanText(before) -> HumanText(after)] :
        /\ \A i, j \in HumanText(before) : i < j => moved[i] < moved[j]
        /\ \A i \in HumanText(before) : after[moved[i]].text = before[i].text
        /\ \A k \in HumanText(after) : \E i \in HumanText(before) : moved[i] = k

Replaces(w) == call[w].pc = "replace" /\ call'[w].pc # "replace" /\ deaths' = deaths

\* "Everything outside survives every update": where the markers pair up and
\* nobody saved since the update first read the file, the lines the person wrote
\* outside the blocks are the same before and after, in the same order, the
\* markers still pair up, and the other sections' blocks stand.
HumanTextSurvives ==
    [][\A w \in VaultWriters :
         Replaces(w) /\ call[w].fresh /\ WellMarked(file) =>
             /\ SameHumanText(file, file') /\ WellMarked(file')
             /\ \A s \in Sections \ {call[w].section} :
                  _extract_block(file', s) = _extract_block(file, s)]_vaultVars

\* The claim without the conditions.
HumanTextAlwaysSurvives ==
    [][\A w \in VaultWriters : Replaces(w) /\ file # NoFile => SameHumanText(file, file')]_vaultVars

\* A weekly run adds to the rules of earlier ones: none that was in the block
\* when the run began to read is gone when it has written.
RulesAccumulate ==
    [][\A w \in VaultWriters :
         Replaces(w) /\ kind = "playbook" /\ call[w].fresh /\ WellMarked(file) =>
             LET before == _extract_block(file, "reflections")
             IN  SubSeq(_extract_block(file', "reflections"), 1, Len(before)) = before]_vaultVars

\* A domain whose tasks of the window all failed is never overlooked for want of
\* a success to divide by, if their requests are in the window too.
\* ("unknown" is no domain: it is where the others' failures are counted.)
OnlyFailed(d) ==
    LET of(type) == {i \in InWindow : history[i].type = type /\ TaskDomain[history[i].task] = d} IN
    /\ of("USER_CORRECTION") \union of("STATE_ROLLBACK_TRIGGERED") # {}
    /\ of("MUTATION_COMMITTED") = {}
    /\ \A t \in DOMAIN TaskDomain : TaskDomain[t] = d => domain_of(t) = d

FailuresAreReported ==
    [][\A w \in VaultWriters :
         call[w].pc = "idle" /\ call'[w].pc = "next" =>
             \A d \in TaskDomains \ {"unknown"} : OnlyFailed(d) => d \in call'[w].todo]_vaultVars

VaultSound == HumanTextSurvives /\ RulesAccumulate /\ FailuresAreReported
=============================================================================
