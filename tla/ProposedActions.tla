--------------------------- MODULE ProposedActions --------------------------
(***************************************************************************)
(* Writes the chat model asks for in one thread.  A write is stored as a   *)
(* proposal; a later message that is nothing but a confirmation turns the  *)
(* proposal into a capability, which the tool gate consumes before the     *)
(* tool runs.  Turns of one thread run concurrently, and the HTTP routes   *)
(* propose, confirm and cancel next to them.                               *)
(***************************************************************************)
EXTENDS Naturals, Sequences, FiniteSets

CONSTANTS
    Turn,           \* chat requests; a schedule is named by the turn that proposed it
    Write,          \* calls of the other write tools, with their arguments
    Entries,        \* calendar entries of a proposed schedule
    MaxActions,     \* bound on rows of proposed_actions
    MaxCalls,       \* bound on the tool calls of a turn (MAX_LOOPS rounds)
    None

ASSUME ProposedActionsAssumption ==
    /\ {Entries, MaxActions, MaxCalls} \subseteq Nat
    /\ Write \cap Turn = {} /\ None \notin Write \cup Turn

Action == 1..MaxActions         \* in the order of created_at
Call == Write \cup Turn         \* tool name and arguments

VARIABLES
    actions,    \* rows of proposed_actions
    overdue,    \* rows whose expires_at has passed
    last,       \* the thread's last assistant message: what it proposed
    turn,       \* the chat requests
    writes,     \* tool executions under each action
    calendar    \* calendar rows saved for each entry of a schedule

vars == <<actions, overdue, last, turn, writes, calendar>>

Absent == [status |-> "absent", call |-> None]
Nothing == [proposal |-> None, plan |-> None]
NotBegun == [pc |-> "idle", seen |-> Nothing, intent |-> "unknown", call |-> None, id |-> None,
             calls |-> 0, says |-> Nothing, entry |-> 0]

Init ==
    /\ actions = [a \in Action |-> Absent]
    /\ overdue = {}
    /\ last = Nothing
    /\ turn = [t \in Turn |-> NotBegun]
    /\ writes = [a \in Action |-> <<>>]
    /\ calendar = [t \in Turn |-> [i \in 1..Entries |-> 0]]

-----------------------------------------------------------------------------
(* The rows and their transitions, each under the row's lock.              *)

SameTool(c, d) == (c \in Write) <=> (d \in Write)

Pending == {a \in Action : actions[a].status = "proposed" /\ a \notin overdue}

LatestOf(S) == IF S = {} THEN None ELSE CHOOSE a \in S : \A b \in S : b <= a

LatestPending == LatestOf(Pending)
LatestPendingOf(c) == LatestOf({a \in Pending : SameTool(actions[a].call, c)})

Free == {a \in Action : actions[a].status = "absent"}
NewAction == CHOOSE a \in Free : \A b \in Free : a <= b

Create(c) == actions' = [actions EXCEPT ![NewAction] = [status |-> "proposed", call |-> c]]

\* Mutant: a confirmation that finds the row confirmed succeeds too.
ConfirmableAgain(a) == actions[a].status \in {"proposed", "confirmed"} /\ a \notin overdue

Confirmable(a) == actions[a].status = "proposed" /\ a \notin overdue

ConfirmRow(a) ==
    actions' = IF Confirmable(a) THEN [actions EXCEPT ![a].status = "confirmed"]
               ELSE IF actions[a].status = "proposed"
                    THEN [actions EXCEPT ![a].status = "expired"]
                    ELSE actions

\* Mutant: a replay of a consumed capability is let through.
ConsumableTwice(a, c) ==
    actions[a].status \in {"confirmed", "consumed"} /\ a \notin overdue /\ actions[a].call = c

\* Mutant: the expiry was checked when the row was confirmed.
ConsumableOverdue(a, c) == actions[a].status = "confirmed" /\ actions[a].call = c

Consumable(a, c) == actions[a].status = "confirmed" /\ a \notin overdue /\ actions[a].call = c

ConsumeRow(a, c) ==
    actions' = IF Consumable(a, c) THEN [actions EXCEPT ![a].status = "consumed"]
               ELSE IF actions[a].status = "confirmed" /\ a \in overdue
                    THEN [actions EXCEPT ![a].status = "expired"]
                    ELSE actions

-----------------------------------------------------------------------------
(* The HTTP routes.                                                        *)

ProposeAction ==
    /\ Free # {}
    /\ \E c \in Write : Create(c)
    /\ UNCHANGED <<overdue, last, turn, writes, calendar>>

ConfirmAction ==
    /\ \E a \in Action : actions[a].status = "proposed" /\ ConfirmRow(a)
    /\ UNCHANGED <<overdue, last, turn, writes, calendar>>

CancelAction ==
    /\ \E a \in Action :
        /\ actions[a].status \in {"proposed", "confirmed"}
        /\ actions' = [actions EXCEPT ![a].status = "cancelled"]
    /\ UNCHANGED <<overdue, last, turn, writes, calendar>>

\* Listing a thread's actions marks the overdue ones.
ListActions ==
    /\ \E a \in overdue : actions[a].status \in {"proposed", "confirmed"}
    /\ actions' = [a \in Action |->
        IF a \in overdue /\ actions[a].status \in {"proposed", "confirmed"}
        THEN [actions[a] EXCEPT !.status = "expired"] ELSE actions[a]]
    /\ UNCHANGED <<overdue, last, turn, writes, calendar>>

\* One lifetime for all: the oldest row runs out first.
TimePasses ==
    /\ \E a \in Action \ overdue :
        /\ actions[a].status # "absent"
        /\ 1..(a - 1) \subseteq overdue
        /\ overdue' = overdue \cup {a}
    /\ UNCHANGED <<actions, last, turn, writes, calendar>>

-----------------------------------------------------------------------------
(* A chat turn: what the message means.                                    *)

At(t, label) == turn[t].pc = label

\* The history is read before the message is stored and recognized.
BeginTurn(t) ==
    /\ At(t, "idle")
    /\ \E label \in {"match", "classify"} :
        turn' = [turn EXCEPT ![t].pc = label, ![t].seen = last]
    /\ UNCHANGED <<actions, overdue, last, writes, calendar>>

\* Any other message: rules or the classifier, which cannot confirm anything.
Classify(t) ==
    /\ At(t, "classify")
    /\ \E intent \in {"write", "schedule_propose", "unknown"} :
        turn' = [turn EXCEPT ![t].pc = "agent", ![t].intent = intent]
    /\ UNCHANGED <<actions, overdue, last, writes, calendar>>

\* The newest pending row says what is confirmed; without one, or when the
\* lookup fails, the last assistant message does.
Found(t, durable) ==
    IF durable # None THEN [call |-> actions[durable].call, id |-> durable]
    ELSE [call |-> turn[t].seen.proposal, id |-> turn[t].id]

MatchRule(t) ==
    /\ At(t, "match")
    /\ \E durable \in {LatestPending, None} :
        LET found == Found(t, durable) IN
        turn' = IF found.call # None
                THEN [turn EXCEPT ![t].pc = "finalize", ![t].intent = "action_confirm",
                                  ![t].call = found.call, ![t].id = found.id]
                ELSE IF turn[t].seen.plan # None
                     THEN [turn EXCEPT ![t].pc = "schedule", ![t].intent = "schedule_commit",
                                       ![t].call = turn[t].seen.plan]
                     ELSE [turn EXCEPT ![t].pc = "agent"]
    /\ UNCHANGED <<actions, overdue, last, writes, calendar>>

\* The slots are updated from a second lookup, which may find something else.
FinalizeIntent(t) ==
    /\ At(t, "finalize")
    /\ \E durable \in {LatestPending, None} :
        LET found == Found(t, durable) IN
        turn' = [turn EXCEPT ![t].pc = IF found.id = None THEN "lookup" ELSE "confirm",
                             ![t].call = IF found.call = None THEN @ ELSE found.call,
                             ![t].id = found.id]
    /\ UNCHANGED <<actions, overdue, last, writes, calendar>>

\* No id: the newest pending row of the tool, if it is this very call.
LookUpCapability(t) ==
    /\ At(t, "lookup")
    /\ turn' = [turn EXCEPT ![t].pc = "confirm", ![t].id = LatestPendingOf(turn[t].call)]
    /\ UNCHANGED <<actions, overdue, last, writes, calendar>>

\* A schedule was shown by a read-only tool: its row is made now, unless one waits.
CreateScheduleCapability(t) ==
    LET plan == turn[t].call  existing == LatestPendingOf(plan) IN
    /\ At(t, "schedule")
    /\ IF existing # None /\ actions[existing].call = plan
       THEN turn' = [turn EXCEPT ![t].pc = "confirm", ![t].id = existing] /\ UNCHANGED actions
       ELSE /\ Free # {}
            /\ Create(plan)
            /\ turn' = [turn EXCEPT ![t].pc = "confirm", ![t].id = NewAction]
    /\ UNCHANGED <<overdue, last, writes, calendar>>

\* The capability is bound to the turn only if this confirmation issued it.
ConfirmCapability(t) ==
    LET a == turn[t].id IN
    /\ At(t, "confirm")
    /\ IF a # None /\ actions[a].call = turn[t].call
       THEN /\ ConfirmRow(a)
            /\ turn' = [turn EXCEPT ![t].pc = "agent", ![t].id = IF Confirmable(a) THEN a ELSE None]
       ELSE turn' = [turn EXCEPT ![t].pc = "agent", ![t].id = None] /\ UNCHANGED actions
    /\ UNCHANGED <<overdue, last, writes, calendar>>

\* A storage error while recognizing leaves the intent unknown, without tools.
RecognitionFails(t) ==
    /\ turn[t].pc \in {"finalize", "lookup", "schedule", "confirm"}
    /\ turn' = [turn EXCEPT ![t] = [NotBegun EXCEPT !.pc = "agent", !.seen = turn[t].seen]]
    /\ UNCHANGED <<actions, overdue, last, writes, calendar>>

-----------------------------------------------------------------------------
(* The agent loop: the model's tool calls, each past the policy gate.      *)

CanCall(t) == At(t, "agent") /\ turn[t].calls < MaxCalls

\* propose_publishing_schedule writes nothing.
ProposeSchedule(t) ==
    /\ CanCall(t) /\ turn[t].intent = "schedule_propose"
    /\ turn' = [turn EXCEPT ![t].calls = @ + 1, ![t].says.plan = t]
    /\ UNCHANGED <<actions, overdue, last, writes, calendar>>

\* ToolApprovalRequired: the call is stored; if that fails it is only shown.
PersistProposedAction(t) ==
    /\ CanCall(t) /\ turn[t].intent = "write"
    /\ \E c \in Write :
        /\ turn' = [turn EXCEPT ![t].calls = @ + 1, ![t].says.proposal = c]
        /\ (Free # {} /\ Create(c)) \/ UNCHANGED actions
    /\ UNCHANGED <<overdue, last, writes, calendar>>

\* Under a confirmation the model has the approved tool only, and the gate
\* admits the approved arguments only, for the capability it then consumes.
AuthorizeToolCall(t) ==
    LET a == turn[t].id IN
    /\ CanCall(t) /\ turn[t].intent \in {"action_confirm", "schedule_commit"}
    /\ \E c \in {d \in Call : SameTool(d, turn[t].call)} :
        IF c = turn[t].call /\ a # None
        THEN /\ ConsumeRow(a, c)
             /\ turn' = [turn EXCEPT ![t].calls = @ + 1,
                            ![t].pc = IF ~Consumable(a, c) THEN "agent" ELSE IF c \in Write THEN "tool" ELSE "commit",
                            ![t].entry = 0]
        ELSE turn' = [turn EXCEPT ![t].calls = @ + 1] /\ UNCHANGED actions
    /\ UNCHANGED <<overdue, last, writes, calendar>>

Execute(t) == writes' = [writes EXCEPT ![turn[t].id] = Append(@, turn[t].call)]

\* The tool writes, or raises with or without having written.
RunTool(t) ==
    /\ At(t, "tool")
    /\ turn' = [turn EXCEPT ![t].pc = "agent"]
    /\ \/ Execute(t) \/ UNCHANGED writes
    /\ UNCHANGED <<actions, overdue, last, calendar>>

\* commit_publishing_schedule saves entry by entry, each under a key of its own
\* made from the action, which no other execution has; an error ends it half way.
CommitEntry(t) ==
    /\ At(t, "commit")
    /\ \/ /\ turn[t].entry < Entries
          /\ turn' = [turn EXCEPT ![t].entry = @ + 1]
          /\ calendar' = [calendar EXCEPT ![turn[t].call][turn[t].entry + 1] = @ + 1]
          /\ UNCHANGED writes
       \/ turn' = [turn EXCEPT ![t].pc = "agent"] /\ Execute(t) /\ UNCHANGED calendar
    /\ UNCHANGED <<actions, overdue, last>>

\* The turn's message replaces what the thread last said; a failed turn keeps
\* no tool events.
Reply(t) ==
    /\ At(t, "agent")
    /\ turn' = [turn EXCEPT ![t] = [NotBegun EXCEPT !.pc = "done"]]
    /\ last' \in {turn[t].says, Nothing}
    /\ UNCHANGED <<actions, overdue, writes, calendar>>

\* The process dies, or storing the reply fails.
Die(t) ==
    /\ turn[t].pc \notin {"idle", "done"}
    /\ turn' = [turn EXCEPT ![t] = [NotBegun EXCEPT !.pc = "done"]]
    /\ UNCHANGED <<actions, overdue, last, writes, calendar>>

Chat(t) ==
    \/ BeginTurn(t) \/ Classify(t) \/ MatchRule(t) \/ FinalizeIntent(t) \/ LookUpCapability(t)
    \/ CreateScheduleCapability(t) \/ ConfirmCapability(t) \/ RecognitionFails(t)
    \/ ProposeSchedule(t) \/ PersistProposedAction(t) \/ AuthorizeToolCall(t)
    \/ RunTool(t) \/ CommitEntry(t) \/ Reply(t) \/ Die(t)

Next ==
    \/ ProposeAction \/ ConfirmAction \/ CancelAction \/ ListActions \/ TimePasses
    \/ \E t \in Turn : Chat(t)

Spec == Init /\ [][Next]_vars

-----------------------------------------------------------------------------
(* Properties. *)

Says == [proposal : Write \cup {None}, plan : Turn \cup {None}]
Row == [status : {"absent", "proposed", "confirmed", "consumed", "cancelled", "expired"},
        call : Call \cup {None}]
ChatTurn == [pc : {"idle", "match", "classify", "finalize", "lookup", "schedule", "confirm",
                   "agent", "tool", "commit", "done"},
             seen : Says,
             intent : {"unknown", "write", "schedule_propose", "schedule_commit", "action_confirm"},
             call : Call \cup {None}, id : Action \cup {None}, calls : 0..MaxCalls,
             says : Says, entry : 0..Entries]

\* Every variable has its type.
TypeOK ==
    /\ actions \in [Action -> Row]
    /\ overdue \subseteq Action
    /\ last \in Says
    /\ turn \in [Turn -> ChatTurn]
    /\ writes \in [Action -> Seq(Call)]
    /\ calendar \in [Turn -> [1..Entries -> Nat]]

\* An action is executed at most once, exactly as it was stored, and only when
\* its capability was consumed: never a cancelled or expired one, however many
\* turns confirm it and however often the model repeats the call
\* (consume_proposed_action, authorize_tool_call).
ExecutedOnceAsStored ==
    \A a \in Action : writes[a] \in {<<>>, <<actions[a].call>>}
        /\ (writes[a] # <<>> => actions[a].status = "consumed")

\* A turn holds a capability only if it confirmed it itself: no two turns have
\* the same one, so a double confirmation runs one write
\* (confirm_proposed_action, bind_server_approval).
Holds(t) == IF turn[t].pc \in {"agent", "tool", "commit"} THEN {turn[t].id} \ {None} ELSE {}

OneHolder == \A s, t \in Turn : s # t => Holds(s) \cap Holds(t) = {}

\* A capability that was used, cancelled or has expired stays so, and an overdue
\* row is neither confirmed nor consumed.
ClosedStaysClosed ==
    [][\A a \in Action :
        /\ actions[a].status \in {"consumed", "cancelled", "expired"} => actions'[a] = actions[a]
        /\ a \in overdue /\ actions'[a].status # actions[a].status
            => actions'[a].status \in {"proposed", "cancelled", "expired"}]_vars

\* What the gate is said to do for a confirmed schedule: concurrent requests
\* read the same history, and the plan is still committed at most once.
PlanCommittedOnce == \A t \in Turn, i \in 1..Entries : calendar[t][i] <= 1
=============================================================================
