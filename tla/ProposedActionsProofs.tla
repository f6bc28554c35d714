------------------------ MODULE ProposedActionsProofs -----------------------
(***************************************************************************)
(* Theorems about ProposedActions, for any turns, calls, rows and bounds.  *)
(***************************************************************************)
EXTENDS ProposedActions, TLAPS, WellFoundedInduction

-----------------------------------------------------------------------------
(* Choosing a row. *)

\* A set of numbers has a least one (the order of created_at).
LEMMA Least ==
  ASSUME NEW S, S \subseteq Nat, S # {}
  PROVE  \E x \in S : \A y \in S : x <= y
<1>1. PICK x \in S : \A y \in S : ~(<<y, x>> \in OpToRel(<, Nat))
  BY NatLessThanWellFounded, WFMin
<1>2. ASSUME NEW y \in S PROVE x <= y
  <2>1. x \in Nat /\ y \in Nat
    OBVIOUS
  <2>2. ~(y < x)
    BY <1>1, <2>1 DEF OpToRel
  <2> QED BY <2>1, <2>2
<1> QED BY <1>2

\* A bounded one has a greatest.
LEMMA Greatest ==
  ASSUME NEW N \in Nat, NEW S, S \subseteq 1..N, S # {}
  PROVE  \E x \in S : \A y \in S : y <= x
<1> DEFINE T == {n \in Nat : \E s \in S : n = N - s}
<1>1. T \subseteq Nat OBVIOUS
<1>2. T # {}
  <2>1. PICK s \in S : TRUE OBVIOUS
  <2>2. s \in 1..N /\ N - s \in Nat BY <2>1
  <2>3. N - s \in T BY <2>1, <2>2
  <2> QED BY <2>3
<1>3. \A s \in S : N - s \in T OBVIOUS
<1>4. \A n \in T : \E s \in S : n = N - s OBVIOUS
<1> HIDE DEF T
<1>5. PICK m \in T : \A y \in T : m <= y BY <1>1, <1>2, Least
<1>6. PICK x \in S : m = N - x BY <1>4
<1>7. \A y \in S : N - x <= N - y BY <1>3, <1>5, <1>6
<1>8. \A y \in S : y <= x BY <1>7
<1> QED BY <1>8

\* get_latest_pending_action finds one of the rows it looks through, or none.
LEMMA LatestFound ==
  ASSUME NEW S, S \subseteq Action
  PROVE  LatestOf(S) \in S \cup {None}
<1>1. MaxActions \in Nat BY ProposedActionsAssumption
<1>2. CASE S # {}
  <2>1. \E x \in S : \A y \in S : y <= x BY <1>1, <1>2, Greatest DEF Action
  <2> QED BY <1>2, <2>1 DEF LatestOf
<1> QED BY <1>2 DEF LatestOf

\* A new row is one that was not there.
LEMMA NewIsFree ==
  ASSUME Free # {}
  PROVE  NewAction \in Free
<1>1. Free \subseteq Nat BY DEF Free, Action
<1>2. \E a \in Free : \A b \in Free : a <= b BY <1>1, Least
<1> QED BY <1>2 DEF NewAction

-----------------------------------------------------------------------------
(* Types. *)

\* What a turn is about to store, or does under a capability, is a call.
HasCall(t) == turn[t].pc \in {"schedule", "tool", "commit"} => turn[t].call # None

TInv == TypeOK /\ \A t \in Turn : HasCall(t)

LEMMA InitTyped == Init => TInv
BY ProposedActionsAssumption DEF Init, TInv, TypeOK, HasCall, Row, ChatTurn, Says, Absent, Nothing, NotBegun, Call

\* What recognition finds is a call or nothing.
LEMMA FoundTyped ==
  ASSUME TypeOK, NEW t \in Turn, NEW durable \in {LatestPending, None}
  PROVE  /\ Found(t, durable).call \in Call \cup {None}
         /\ Found(t, durable).id \in Action \cup {None}
<1>1. LatestPending \in Action \cup {None}
  BY LatestFound DEF LatestPending, Pending
<1>2. /\ actions \in [Action -> Row]
      /\ turn[t].seen.proposal \in Call \cup {None}
      /\ turn[t].id \in Action \cup {None}
  BY DEF TypeOK, ChatTurn, Says, Call
<1>3. CASE durable # None
  <2>1. durable \in Action /\ actions[durable].call \in Call \cup {None}
    BY <1>1, <1>2, <1>3 DEF Row
  <2> QED BY <2>1, <1>3 DEF Found
<1>4. CASE durable = None
  BY <1>2, <1>4 DEF Found
<1> QED BY <1>3, <1>4

-----------------------------------------------------------------------------
(* What a step can do to a row. *)

Advanced(a, status) == actions'[a] = [actions[a] EXCEPT !.status = status]

RowMoves(a) ==
    \/ actions'[a] = actions[a]
    \/ actions[a].status = "absent" /\ actions'[a].status = "proposed"
    \/ actions[a].status = "proposed" /\ a \notin overdue /\ Advanced(a, "confirmed")
    \/ actions[a].status = "confirmed" /\ a \notin overdue /\ Advanced(a, "consumed")
    \/ /\ actions[a].status \in {"proposed", "confirmed"}
       /\ Advanced(a, "cancelled") \/ Advanced(a, "expired")

RowsMove == actions' \in [Action -> Row] /\ \A a \in Action : RowMoves(a)

LEMMA NoRowMoves ==
  ASSUME TypeOK, UNCHANGED actions
  PROVE  RowsMove
BY DEF TypeOK, RowsMove, RowMoves

LEMMA CreateMoves ==
  ASSUME TypeOK, NEW c \in Call, Free # {}, Create(c)
  PROVE  RowsMove
<1>1. NewAction \in Action /\ actions[NewAction].status = "absent"
  BY NewIsFree DEF Free
<1> QED BY <1>1 DEF Create, TypeOK, Row, RowsMove, RowMoves

LEMMA ConfirmMoves ==
  ASSUME TypeOK, NEW a \in Action, ConfirmRow(a)
  PROVE  RowsMove
BY DEF ConfirmRow, Confirmable, TypeOK, Row, RowsMove, RowMoves, Advanced

LEMMA ConsumeMoves ==
  ASSUME TypeOK, NEW a \in Action, NEW c, ConsumeRow(a, c)
  PROVE  RowsMove
BY DEF ConsumeRow, Consumable, TypeOK, Row, RowsMove, RowMoves, Advanced

LEMMA CancelMoves ==
  ASSUME TypeOK, CancelAction
  PROVE  RowsMove
BY DEF CancelAction, TypeOK, Row, RowsMove, RowMoves, Advanced

LEMMA ListMoves ==
  ASSUME TypeOK, ListActions
  PROVE  RowsMove
BY DEF ListActions, TypeOK, Row, RowsMove, RowMoves, Advanced

\* Every step moves every row along its lifecycle or leaves it.
LEMMA StepMovesRows ==
  ASSUME TInv, [Next]_vars
  PROVE  RowsMove
<1> USE DEF TInv
<1>1. CASE ProposeAction
  BY <1>1, CreateMoves DEF ProposeAction, Call
<1>2. CASE ConfirmAction
  BY <1>2, ConfirmMoves DEF ConfirmAction
<1>3. CASE CancelAction
  BY <1>3, CancelMoves
<1>4. CASE ListActions
  BY <1>4, ListMoves
<1>5. ASSUME NEW t \in Turn, CreateScheduleCapability(t) PROVE RowsMove
  <2>1. turn[t].pc = "schedule" BY <1>5 DEF CreateScheduleCapability, At
  <2>2. turn[t].call \in Call BY <2>1 DEF TypeOK, ChatTurn, HasCall
  <2>3. UNCHANGED actions \/ (Free # {} /\ Create(turn[t].call))
    BY <1>5 DEF CreateScheduleCapability
  <2> QED BY <2>2, <2>3, NoRowMoves, CreateMoves
<1>6. ASSUME NEW t \in Turn, ConfirmCapability(t) PROVE RowsMove
  <2>1. turn[t].id \in Action \cup {None} BY DEF TypeOK, ChatTurn
  <2>2. UNCHANGED actions \/ (turn[t].id # None /\ ConfirmRow(turn[t].id))
    BY <1>6 DEF ConfirmCapability
  <2> QED BY <2>1, <2>2, NoRowMoves, ConfirmMoves
<1>7. ASSUME NEW t \in Turn, PersistProposedAction(t) PROVE RowsMove
  <2>1. UNCHANGED actions \/ (Free # {} /\ \E c \in Call : Create(c))
    BY <1>7 DEF PersistProposedAction, Call
  <2> QED BY <2>1, NoRowMoves, CreateMoves
<1>8. ASSUME NEW t \in Turn, AuthorizeToolCall(t) PROVE RowsMove
  <2>1. turn[t].id \in Action \cup {None} BY DEF TypeOK, ChatTurn
  <2>2. UNCHANGED actions \/ (turn[t].id # None /\ \E c \in Call : ConsumeRow(turn[t].id, c))
    BY <1>8 DEF AuthorizeToolCall
  <2> QED BY <2>1, <2>2, NoRowMoves, ConsumeMoves
<1>9. CASE UNCHANGED actions
  BY <1>9, NoRowMoves
<1>10. ASSUME NEW t \in Turn, Chat(t) PROVE RowsMove
  BY <1>5, <1>6, <1>7, <1>8, <1>9, <1>10
     DEF Chat, BeginTurn, Classify, MatchRule, FinalizeIntent, LookUpCapability, RecognitionFails,
         ProposeSchedule, RunTool, CommitEntry, Reply, Die
<1> QED BY <1>1, <1>2, <1>3, <1>4, <1>9, <1>10 DEF Next, TimePasses, vars

-----------------------------------------------------------------------------
(* What a step of a turn can do to it. *)

\* Only turn t moves, and it stays well formed.
Moves(t) ==
    /\ turn' = [turn EXCEPT ![t] = turn'[t]]
    /\ turn'[t] \in ChatTurn
    /\ HasCall(t)'

LEMMA NotBegunTyped == NotBegun \in ChatTurn
BY ProposedActionsAssumption DEF ChatTurn, NotBegun, Nothing, Says

LEMMA CallCounted ==
  ASSUME TInv, NEW t \in Turn, CanCall(t)
  PROVE  turn[t].pc = "agent" /\ turn[t].calls + 1 \in 0..MaxCalls
<1>1. turn[t].pc = "agent" /\ turn[t].calls < MaxCalls
  BY DEF CanCall, At
<1>2. turn[t].calls \in 0..MaxCalls
  BY DEF TInv, TypeOK, ChatTurn
<1> QED BY <1>1, <1>2, ProposedActionsAssumption

LEMMA RecognitionTyped ==
  ASSUME TInv, NEW t \in Turn,
         \/ BeginTurn(t) \/ Classify(t) \/ MatchRule(t) \/ FinalizeIntent(t) \/ LookUpCapability(t)
         \/ CreateScheduleCapability(t) \/ ConfirmCapability(t) \/ RecognitionFails(t)
  PROVE  Moves(t)
<1> DEFINE old == turn[t]
<1>1. turn \in [Turn -> ChatTurn] /\ last \in Says /\ turn[t] \in ChatTurn
  BY DEF TInv, TypeOK
<1> USE <1>1 DEF Moves, HasCall
<1>2. CASE BeginTurn(t)
  <2>1. PICK label \in {"match", "classify"} :
          turn' = [turn EXCEPT ![t].pc = label, ![t].seen = last]
    BY <1>2 DEF BeginTurn
  <2> QED BY <2>1 DEF ChatTurn
<1>3. CASE Classify(t)
  <2>1. PICK intent \in {"write", "schedule_propose", "unknown"} :
          turn' = [turn EXCEPT ![t].pc = "agent", ![t].intent = intent]
    BY <1>3 DEF Classify
  <2> QED BY <2>1 DEF ChatTurn
<1>4. CASE MatchRule(t)
  <2>1. PICK durable \in {LatestPending, None} :
          turn' = IF Found(t, durable).call # None
                  THEN [turn EXCEPT ![t].pc = "finalize", ![t].intent = "action_confirm",
                                    ![t].call = Found(t, durable).call, ![t].id = Found(t, durable).id]
                  ELSE IF turn[t].seen.plan # None
                       THEN [turn EXCEPT ![t].pc = "schedule", ![t].intent = "schedule_commit",
                                         ![t].call = turn[t].seen.plan]
                       ELSE [turn EXCEPT ![t].pc = "agent"]
    BY <1>4 DEF MatchRule
  <2>2. /\ Found(t, durable).call \in Call \cup {None}
        /\ Found(t, durable).id \in Action \cup {None}
    BY FoundTyped DEF TInv
  <2>3. turn[t].seen.plan \in Call \cup {None} BY DEF ChatTurn, Says, Call
  <2>4. CASE Found(t, durable).call # None
    <3>1. PICK call \in Call \cup {None}, id \in Action \cup {None} :
            turn' = [turn EXCEPT ![t].pc = "finalize", ![t].intent = "action_confirm",
                                 ![t].call = call, ![t].id = id]
      BY <2>1, <2>2, <2>4
    <3> QED BY <3>1 DEF ChatTurn
  <2>5. CASE Found(t, durable).call = None /\ turn[t].seen.plan # None
    <3>1. PICK call \in Call \cup {None} :
            /\ call # None
            /\ turn' = [turn EXCEPT ![t].pc = "schedule", ![t].intent = "schedule_commit",
                                    ![t].call = call]
      BY <2>1, <2>3, <2>5
    <3> QED BY <3>1 DEF ChatTurn
  <2>6. CASE Found(t, durable).call = None /\ turn[t].seen.plan = None
    <3>1. turn' = [turn EXCEPT ![t].pc = "agent"]
      BY <2>1, <2>6
    <3> QED BY <3>1 DEF ChatTurn
  <2> QED BY <2>4, <2>5, <2>6
<1>5. CASE FinalizeIntent(t)
  <2>1. PICK durable \in {LatestPending, None} :
          turn' = [turn EXCEPT ![t].pc = IF Found(t, durable).id = None THEN "lookup" ELSE "confirm",
                               ![t].call = IF Found(t, durable).call = None THEN @
                                           ELSE Found(t, durable).call,
                               ![t].id = Found(t, durable).id]
    BY <1>5 DEF FinalizeIntent
  <2>2. /\ Found(t, durable).call \in Call \cup {None}
        /\ Found(t, durable).id \in Action \cup {None}
    BY FoundTyped DEF TInv
  <2>3. PICK label \in {"lookup", "confirm"}, call \in Call \cup {None}, id \in Action \cup {None} :
          turn' = [turn EXCEPT ![t].pc = label, ![t].call = call, ![t].id = id]
    <3>1. turn[t].call \in Call \cup {None} BY DEF ChatTurn
    <3> QED BY <2>1, <2>2, <3>1
  <2> QED BY <2>3 DEF ChatTurn
<1>6. CASE LookUpCapability(t)
  <2>1. LatestPendingOf(turn[t].call) \in Action \cup {None}
    BY LatestFound DEF LatestPendingOf, Pending
  <2> QED BY <1>6, <2>1 DEF LookUpCapability, ChatTurn
<1>7. CASE CreateScheduleCapability(t)
  <2>1. LatestPendingOf(turn[t].call) \in Action \cup {None}
    BY LatestFound DEF LatestPendingOf, Pending
  <2>2. Free # {} => NewAction \in Action BY NewIsFree DEF Free
  <2> QED BY <1>7, <2>1, <2>2 DEF CreateScheduleCapability, ChatTurn
<1>8. CASE ConfirmCapability(t)
  BY <1>8 DEF ConfirmCapability, ChatTurn
<1>9. CASE RecognitionFails(t)
  <2>1. NotBegun \in ChatTurn /\ turn[t].seen \in Says
    BY NotBegunTyped DEF ChatTurn
  <2>2. turn' = [turn EXCEPT ![t] = [NotBegun EXCEPT !.pc = "agent", !.seen = turn[t].seen]]
    BY <1>9 DEF RecognitionFails
  <2> QED BY <2>1, <2>2 DEF ChatTurn
<1> QED BY <1>2, <1>3, <1>4, <1>5, <1>6, <1>7, <1>8, <1>9

LEMMA ExecutionTyped ==
  ASSUME TInv, NEW t \in Turn,
         \/ ProposeSchedule(t) \/ PersistProposedAction(t) \/ AuthorizeToolCall(t)
         \/ RunTool(t) \/ CommitEntry(t) \/ Reply(t) \/ Die(t)
  PROVE  Moves(t)
<1>1. turn \in [Turn -> ChatTurn] /\ last \in Says /\ turn[t] \in ChatTurn
  BY DEF TInv, TypeOK
<1>2. MaxCalls \in Nat /\ Entries \in Nat
  BY ProposedActionsAssumption
<1> USE <1>1, <1>2 DEF Moves, HasCall
<1>3. CASE ProposeSchedule(t)
  <2>1. turn' = [turn EXCEPT ![t].calls = @ + 1, ![t].says.plan = t] /\ CanCall(t)
    BY <1>3 DEF ProposeSchedule
  <2>2. [turn[t].says EXCEPT !.plan = t] \in Says BY DEF ChatTurn, Says
  <2> QED BY <2>1, <2>2, CallCounted DEF ChatTurn
<1>4. CASE PersistProposedAction(t)
  <2>1. PICK c \in Write : turn' = [turn EXCEPT ![t].calls = @ + 1, ![t].says.proposal = c]
    BY <1>4 DEF PersistProposedAction
  <2>2. [turn[t].says EXCEPT !.proposal = c] \in Says BY DEF ChatTurn, Says
  <2>3. CanCall(t) BY <1>4 DEF PersistProposedAction
  <2> QED BY <2>1, <2>2, <2>3, CallCounted DEF ChatTurn
<1>5. CASE AuthorizeToolCall(t)
  <2>1. PICK c \in Call :
          turn' = IF c = turn[t].call /\ turn[t].id # None
                  THEN [turn EXCEPT ![t].calls = @ + 1,
                          ![t].pc = IF ~Consumable(turn[t].id, c) THEN "agent"
                                    ELSE IF c \in Write THEN "tool" ELSE "commit",
                          ![t].entry = 0]
                  ELSE [turn EXCEPT ![t].calls = @ + 1]
    BY <1>5 DEF AuthorizeToolCall
  <2>2. c # None BY ProposedActionsAssumption DEF Call
  <2>3. turn[t].pc = "agent" /\ turn[t].calls + 1 \in 0..MaxCalls
    BY <1>5, CallCounted DEF AuthorizeToolCall
  <2>4. CASE c = turn[t].call /\ turn[t].id # None
    <3>1. PICK label \in {"agent", "tool", "commit"} :
            turn' = [turn EXCEPT ![t].calls = @ + 1, ![t].pc = label, ![t].entry = 0]
      BY <2>1, <2>4
    <3>2. turn[t].call # None BY <2>2, <2>4
    <3>3. 0 \in 0..Entries OBVIOUS
    <3> QED BY <2>3, <3>1, <3>2, <3>3 DEF ChatTurn
  <2>5. CASE ~(c = turn[t].call /\ turn[t].id # None)
    <3>1. turn' = [turn EXCEPT ![t].calls = @ + 1] BY <2>1, <2>5
    <3> QED BY <2>3, <3>1 DEF ChatTurn
  <2> QED BY <2>4, <2>5
<1>6. CASE RunTool(t)
  BY <1>6 DEF RunTool, ChatTurn
<1>7. CASE CommitEntry(t)
  <2>1. CASE turn[t].entry < Entries /\ turn' = [turn EXCEPT ![t].entry = @ + 1]
    <3>1. turn[t].entry + 1 \in 0..Entries BY <2>1 DEF ChatTurn
    <3> QED BY <2>1, <3>1 DEF ChatTurn, TInv
  <2>2. CASE turn' = [turn EXCEPT ![t].pc = "agent"]
    BY <2>2 DEF ChatTurn
  <2> QED BY <1>7, <2>1, <2>2 DEF CommitEntry
<1>8. CASE Reply(t)
  BY <1>8, ProposedActionsAssumption DEF Reply, ChatTurn, NotBegun, Nothing, Says
<1>9. CASE Die(t)
  BY <1>9, ProposedActionsAssumption DEF Die, ChatTurn, NotBegun, Nothing, Says
<1> QED BY <1>3, <1>4, <1>5, <1>6, <1>7, <1>8, <1>9

LEMMA TurnMoves ==
  ASSUME TInv, [Next]_vars
  PROVE  UNCHANGED turn \/ \E t \in Turn : Chat(t) /\ Moves(t)
<1>1. ASSUME NEW t \in Turn, Chat(t) PROVE Moves(t)
  BY <1>1, RecognitionTyped, ExecutionTyped DEF Chat
<1> QED BY <1>1 DEF Next, ProposeAction, ConfirmAction, CancelAction, ListActions, TimePasses, vars

-----------------------------------------------------------------------------
(* Type correctness. *)

\* Recognising what a turn asks for writes neither its memory nor the calendar, ...
LEMMA RecognitionIsQuiet ==
  ASSUME NEW t \in Turn,
         \/ BeginTurn(t) \/ Classify(t) \/ MatchRule(t) \/ FinalizeIntent(t) \/ LookUpCapability(t)
         \/ CreateScheduleCapability(t) \/ ConfirmCapability(t) \/ RecognitionFails(t)
  PROVE  UNCHANGED <<last, calendar>>
BY DEF BeginTurn, Classify, MatchRule, FinalizeIntent, LookUpCapability,
       CreateScheduleCapability, ConfirmCapability, RecognitionFails

\* ... and neither do the routes.
LEMMA RoutesAreQuiet ==
  ASSUME ProposeAction \/ ConfirmAction \/ CancelAction \/ ListActions \/ TimePasses \/ UNCHANGED vars
  PROVE  UNCHANGED <<last, calendar>>
BY DEF vars, ProposeAction, ConfirmAction, CancelAction, ListActions, TimePasses

LEMMA StepTyped ==
  ASSUME TInv, [Next]_vars
  PROVE  TInv'
<1>1. actions' \in [Action -> Row]
  BY StepMovesRows DEF RowsMove
<1>2. overdue' \subseteq Action
  BY DEF TInv, TypeOK, Next, Chat, vars, ProposeAction, ConfirmAction, CancelAction, ListActions,
         TimePasses, BeginTurn, Classify, MatchRule, FinalizeIntent, LookUpCapability,
         CreateScheduleCapability, ConfirmCapability, RecognitionFails, ProposeSchedule,
         PersistProposedAction, AuthorizeToolCall, RunTool, CommitEntry, Reply, Die
<1>3. turn' \in [Turn -> ChatTurn] /\ \A t \in Turn : HasCall(t)'
  <2>1. CASE UNCHANGED turn
    BY <2>1 DEF TInv, TypeOK, HasCall
  <2>2. ASSUME NEW t \in Turn, Moves(t)
        PROVE  turn' \in [Turn -> ChatTurn] /\ \A u \in Turn : HasCall(u)'
    BY <2>2 DEF Moves, TInv, TypeOK, HasCall
  <2> QED BY <2>1, <2>2, TurnMoves
<1>4. last' \in Says
  <2>1. UNCHANGED last \/ \E t \in Turn : Reply(t)
    <3>1. ASSUME NEW t \in Turn,
                 \/ ProposeSchedule(t) \/ PersistProposedAction(t) \/ AuthorizeToolCall(t)
                 \/ RunTool(t) \/ CommitEntry(t) \/ Die(t)
          PROVE  UNCHANGED last
      BY <3>1 DEF ProposeSchedule, PersistProposedAction, AuthorizeToolCall, RunTool, CommitEntry, Die
    <3> QED BY <3>1, RecognitionIsQuiet, RoutesAreQuiet DEF Next, Chat
  <2>2. Nothing \in Says BY DEF Nothing, Says
  <2> QED BY <2>1, <2>2 DEF Reply, TInv, TypeOK, ChatTurn
<1>5. writes' \in [Action -> Seq(Call)]
  <2>1. UNCHANGED writes \/ \E t \in Turn : turn[t].pc \in {"tool", "commit"} /\ Execute(t)
    BY DEF Next, Chat, vars, ProposeAction, ConfirmAction, CancelAction, ListActions,
         TimePasses, BeginTurn, Classify, MatchRule, FinalizeIntent, LookUpCapability,
         CreateScheduleCapability, ConfirmCapability, RecognitionFails, ProposeSchedule,
         PersistProposedAction, AuthorizeToolCall, RunTool, CommitEntry, Reply, Die, At
  <2>2. ASSUME NEW t \in Turn, turn[t].pc \in {"tool", "commit"}, Execute(t)
        PROVE  writes' \in [Action -> Seq(Call)]
    <3>1. turn[t].call \in Call
      BY <2>2 DEF TInv, TypeOK, HasCall, ChatTurn
    <3>2. writes \in [Action -> Seq(Call)]
      BY DEF TInv, TypeOK
    <3>3. \A w \in Seq(Call) : Append(w, turn[t].call) \in Seq(Call)
      BY <3>1
    <3> QED BY <2>2, <3>2, <3>3 DEF Execute
  <2> QED BY <2>1, <2>2 DEF TInv, TypeOK
<1>6. calendar' \in [Turn -> [1..Entries -> Nat]]
  <2>1. calendar \in [Turn -> [1..Entries -> Nat]]
    BY DEF TInv, TypeOK
  <2>2. \/ UNCHANGED calendar
        \/ \E u, i : calendar' = [calendar EXCEPT ![u][i] = @ + 1]
    <3>1. ASSUME NEW t \in Turn,
                 \/ ProposeSchedule(t) \/ PersistProposedAction(t) \/ AuthorizeToolCall(t)
                 \/ RunTool(t) \/ Reply(t) \/ Die(t)
          PROVE  UNCHANGED calendar
      BY <3>1 DEF ProposeSchedule, PersistProposedAction, AuthorizeToolCall, RunTool, Reply, Die
    <3>2. ASSUME NEW t \in Turn, CommitEntry(t)
          PROVE  \/ UNCHANGED calendar
                 \/ \E u, i : calendar' = [calendar EXCEPT ![u][i] = @ + 1]
      BY <3>2 DEF CommitEntry
    <3> QED BY <3>1, <3>2, RecognitionIsQuiet, RoutesAreQuiet DEF Next, Chat
  <2>3. ASSUME NEW u, NEW i, calendar' = [calendar EXCEPT ![u][i] = @ + 1]
        PROVE  calendar' \in [Turn -> [1..Entries -> Nat]]
    <3>1. CASE u \in Turn
      <4> DEFINE row == calendar[u]
                 bumped == [row EXCEPT ![i] = @ + 1]
      <4>0. row \in [1..Entries -> Nat] BY <2>1, <3>1
      <4>1. bumped \in [1..Entries -> Nat]
        <5> HIDE DEF row
        <5>1. \A n \in Nat : n + 1 \in Nat OBVIOUS
        <5>2. CASE i \in 1..Entries
          <6>1. row[i] + 1 \in Nat BY <4>0, <5>1, <5>2
          <6> QED BY <4>0, <5>2, <6>1
        <5>3. CASE i \notin 1..Entries
          <6>1. bumped = row BY <4>0, <5>3
          <6> QED BY <4>0, <6>1
        <5> QED BY <5>2, <5>3
      <4> QED BY <2>1, <2>3, <3>1, <4>1
    <3> QED BY <2>1, <2>3, <3>1
  <2> QED BY <2>1, <2>2, <2>3
<1> QED BY <1>1, <1>2, <1>3, <1>4, <1>5, <1>6 DEF TInv, TypeOK

\* Every row, turn and execution stays well formed, and a turn never reaches a
\* write without the call it confirmed (ProposedActionRepository, chat_agent).
THEOREM TypeCorrect == Spec => []TypeOK
<1>1. Spec => []TInv BY InitTyped, StepTyped, PTL DEF Spec
<1>2. TInv => TypeOK BY DEF TInv
<1> QED BY <1>1, <1>2, PTL

-----------------------------------------------------------------------------
(* Closed rows. *)

\* A row that was consumed, cancelled or has expired is never written again, and
\* an overdue one is only closed: ClosedStaysClosed, for any number of rows and
\* turns (consume_proposed_action, _expire_due).
THEOREM ClosedStays == Spec => ClosedStaysClosed
<1>1. ASSUME TInv, [Next]_vars
      PROVE  \A a \in Action :
               /\ actions[a].status \in {"consumed", "cancelled", "expired"} => actions'[a] = actions[a]
               /\ a \in overdue /\ actions'[a].status # actions[a].status
                   => actions'[a].status \in {"proposed", "cancelled", "expired"}
  <2>1. RowsMove BY <1>1, StepMovesRows
  <2> QED BY <1>1, <2>1 DEF TInv, TypeOK, Row, RowsMove, RowMoves, Advanced
<1>2. Spec => []TInv BY InitTyped, StepTyped, PTL DEF Spec
<1> QED BY <1>1, <1>2, PTL DEF Spec, ClosedStaysClosed

-----------------------------------------------------------------------------
(* Capabilities: who holds one, and what was executed under it. *)

\* A message starts without a capability.
StartsFree(t) == turn[t].pc \in {"idle", "match", "classify"} => turn[t].id = None

\* A capability in use is past its proposal, and stores the call the turn confirmed.
BoundToCall(t) ==
    turn[t].pc \in {"agent", "tool", "commit"} /\ turn[t].id # None
        => /\ actions[turn[t].id].status \notin {"absent", "proposed"}
           /\ actions[turn[t].id].call = turn[t].call

\* A tool runs under a consumed capability that nothing was executed under yet.
ClearedToRun(t) ==
    turn[t].pc \in {"tool", "commit"}
        => /\ turn[t].id # None
           /\ actions[turn[t].id].status = "consumed"
           /\ writes[turn[t].id] = <<>>

HoldInv ==
    /\ TInv
    /\ \A t \in Turn : StartsFree(t) /\ BoundToCall(t) /\ ClearedToRun(t)
    /\ ExecutedOnceAsStored
    /\ OneHolder

LEMMA InitHolds == Init => HoldInv
<1>1. Init => TInv BY InitTyped
<1>2. ASSUME Init PROVE \A t \in Turn : turn[t].pc = "idle" /\ turn[t].id = None
  BY <1>2 DEF Init, NotBegun
<1>3. ASSUME Init PROVE ExecutedOnceAsStored
  BY <1>3 DEF Init, ExecutedOnceAsStored
<1> QED BY <1>1, <1>2, <1>3 DEF HoldInv, StartsFree, BoundToCall, ClearedToRun, OneHolder, Holds

\* The four ways a step of turn t can touch its capability.
Idles(t) ==         \* it holds none after the step
    /\ StartsFree(t)'
    /\ turn'[t].pc \in {"agent", "tool", "commit"} => turn'[t].pc = "agent" /\ turn'[t].id = None
    /\ UNCHANGED writes

Keeps(t) ==         \* it goes on with the one it has
    /\ turn[t].pc \in {"agent", "commit"} /\ turn'[t].pc = turn[t].pc
    /\ turn'[t].id = turn[t].id /\ turn'[t].call = turn[t].call
    /\ UNCHANGED writes

Confirms(t) ==      \* it confirms a proposal of its call and binds it
    /\ turn'[t].pc = "agent" /\ turn'[t].id # None
    /\ actions[turn'[t].id].status = "proposed" /\ actions'[turn'[t].id].status = "confirmed"
    /\ actions[turn'[t].id].call = turn'[t].call
    /\ UNCHANGED writes

Consumes(t) ==      \* it consumes the one it has
    /\ turn[t].pc = "agent" /\ turn[t].id # None
    /\ turn'[t].pc \in {"tool", "commit"}
    /\ turn'[t].id = turn[t].id /\ turn'[t].call = turn[t].call
    /\ actions[turn[t].id].status = "confirmed" /\ actions'[turn[t].id].status = "consumed"
    /\ UNCHANGED writes

Finishes(t) ==      \* its tool wrote, or did not, and it goes on
    /\ turn[t].pc \in {"tool", "commit"} /\ turn'[t].pc = "agent"
    /\ turn'[t].id = turn[t].id /\ turn'[t].call = turn[t].call
    /\ Execute(t) \/ UNCHANGED writes

Touches(t) == Idles(t) \/ Keeps(t) \/ Confirms(t) \/ Consumes(t) \/ Finishes(t)

LEMMA RecognitionTouches ==
  ASSUME HoldInv, NEW t \in Turn,
         \/ BeginTurn(t) \/ Classify(t) \/ MatchRule(t) \/ FinalizeIntent(t) \/ LookUpCapability(t)
         \/ CreateScheduleCapability(t) \/ RecognitionFails(t)
  PROVE  Idles(t)
<1>1. turn \in [Turn -> ChatTurn] /\ turn[t] \in ChatTurn /\ StartsFree(t)
  BY DEF HoldInv, TInv, TypeOK
<1> USE <1>1 DEF Idles, StartsFree
<1>2. CASE BeginTurn(t)
  BY <1>2 DEF BeginTurn, At, ChatTurn
<1>3. CASE Classify(t)
  BY <1>3 DEF Classify, At, ChatTurn
<1>4. CASE MatchRule(t)
  BY <1>4 DEF MatchRule, At, ChatTurn
<1>5. CASE FinalizeIntent(t)
  BY <1>5 DEF FinalizeIntent, At, ChatTurn
<1>6. CASE LookUpCapability(t)
  BY <1>6 DEF LookUpCapability, At, ChatTurn
<1>7. CASE CreateScheduleCapability(t)
  BY <1>7 DEF CreateScheduleCapability, At, ChatTurn
<1>8. CASE RecognitionFails(t)
  BY <1>8 DEF RecognitionFails, NotBegun
<1> QED BY <1>2, <1>3, <1>4, <1>5, <1>6, <1>7, <1>8

LEMMA ChatTouches ==
  ASSUME HoldInv, NEW t \in Turn, Chat(t)
  PROVE  Touches(t)
<1>1. turn \in [Turn -> ChatTurn] /\ turn[t] \in ChatTurn /\ actions \in [Action -> Row]
  BY DEF HoldInv, TInv, TypeOK
<1>2. CASE ConfirmCapability(t)
  <2> DEFINE a == turn[t].id
  <2>1. CASE a # None /\ actions[a].call = turn[t].call /\ Confirmable(a)
    <3>1. a \in Action BY <1>1, <2>1 DEF ChatTurn
    <3>2. turn' = [turn EXCEPT ![t].pc = "agent", ![t].id = a]
      BY <1>2, <2>1 DEF ConfirmCapability
    <3>3. actions' = [actions EXCEPT ![a].status = "confirmed"]
      BY <1>2, <2>1 DEF ConfirmCapability, ConfirmRow
    <3>4. actions'[a].status = "confirmed" BY <1>1, <3>1, <3>3 DEF Row
    <3>5. turn'[t].pc = "agent" /\ turn'[t].id = a /\ turn'[t].call = turn[t].call
      BY <1>1, <3>2 DEF ChatTurn
    <3> QED BY <1>2, <2>1, <3>4, <3>5 DEF ConfirmCapability, Confirmable, Touches, Confirms
  <2>2. CASE ~(a # None /\ actions[a].call = turn[t].call /\ Confirmable(a))
    <3>1. turn' = [turn EXCEPT ![t].pc = "agent", ![t].id = None]
      BY <1>2, <2>2 DEF ConfirmCapability
    <3> QED BY <1>1, <1>2, <3>1 DEF ConfirmCapability, ChatTurn, Touches, Idles, StartsFree
  <2> QED BY <2>1, <2>2
<1>3. CASE ProposeSchedule(t)
  BY <1>1, <1>3 DEF ProposeSchedule, CanCall, At, ChatTurn, Touches, Keeps
<1>4. CASE PersistProposedAction(t)
  BY <1>1, <1>4 DEF PersistProposedAction, CanCall, At, ChatTurn, Touches, Keeps
<1>5. CASE AuthorizeToolCall(t)
  <2> DEFINE a == turn[t].id
  <2>1. turn[t].pc = "agent" /\ UNCHANGED writes
    BY <1>5 DEF AuthorizeToolCall, CanCall, At
  <2>2. PICK c \in Call :
          IF c = turn[t].call /\ a # None
          THEN /\ ConsumeRow(a, c)
               /\ turn' = [turn EXCEPT ![t].calls = @ + 1,
                              ![t].pc = IF ~Consumable(a, c) THEN "agent"
                                        ELSE IF c \in Write THEN "tool" ELSE "commit",
                              ![t].entry = 0]
          ELSE turn' = [turn EXCEPT ![t].calls = @ + 1]
    BY <1>5 DEF AuthorizeToolCall
  <2>3. CASE c = turn[t].call /\ a # None /\ Consumable(a, c)
    <3>1. a \in Action BY <1>1, <2>3 DEF ChatTurn
    <3>2. actions' = [actions EXCEPT ![a].status = "consumed"]
      BY <2>2, <2>3 DEF ConsumeRow
    <3>3. actions'[a].status = "consumed" BY <1>1, <3>1, <3>2 DEF Row
    <3>4. PICK label \in {"tool", "commit"} :
            turn' = [turn EXCEPT ![t].calls = @ + 1, ![t].pc = label, ![t].entry = 0]
      BY <2>2, <2>3
    <3>5. turn'[t].pc \in {"tool", "commit"} /\ turn'[t].id = a /\ turn'[t].call = turn[t].call
      BY <1>1, <3>4 DEF ChatTurn
    <3> QED BY <2>1, <2>3, <3>3, <3>5 DEF Consumable, Touches, Consumes
  <2>4. CASE ~(c = turn[t].call /\ a # None /\ Consumable(a, c))
    <3>1. \/ turn' = [turn EXCEPT ![t].calls = @ + 1, ![t].pc = "agent", ![t].entry = 0]
          \/ turn' = [turn EXCEPT ![t].calls = @ + 1]
      BY <2>2, <2>4
    <3>2. turn'[t].pc = "agent" /\ turn'[t].id = a /\ turn'[t].call = turn[t].call
      BY <1>1, <2>1, <3>1 DEF ChatTurn
    <3> QED BY <2>1, <3>2 DEF Touches, Keeps
  <2> QED BY <2>3, <2>4
<1>6. CASE RunTool(t)
  BY <1>1, <1>6 DEF RunTool, At, ChatTurn, Touches, Finishes
<1>7. CASE CommitEntry(t)
  BY <1>1, <1>7 DEF CommitEntry, At, ChatTurn, Touches, Keeps, Finishes
<1>8. CASE Reply(t) \/ Die(t)
  BY <1>1, <1>8 DEF Reply, Die, NotBegun, Touches, Idles, StartsFree
<1> QED BY <1>2, <1>3, <1>4, <1>5, <1>6, <1>7, <1>8, RecognitionTouches DEF Chat, Touches

\* A row past its proposal keeps its call and stays past it; a closed one is kept.
LEMMA RowKept ==
  ASSUME RowsMove, NEW a \in Action, actions[a] \in Row, actions[a].status \notin {"absent", "proposed"}
  PROVE  /\ actions'[a].status \notin {"absent", "proposed"} /\ actions'[a].call = actions[a].call
         /\ actions[a].status = "consumed" => actions'[a] = actions[a]
BY DEF RowsMove, RowMoves, Advanced, Row

\* A step that leaves the executions alone keeps what was executed as stored.
LEMMA WritesKept ==
  ASSUME HoldInv, RowsMove, UNCHANGED writes
  PROVE  ExecutedOnceAsStored'
BY DEF HoldInv, TInv, TypeOK, Row, ExecutedOnceAsStored, RowsMove, RowMoves

\* What another turn relies on survives the step of turn t, when t writes only
\* under its own capability.
LEMMA OthersHold ==
  ASSUME HoldInv, RowsMove, NEW u \in Turn, turn'[u] = turn[u],
         \/ UNCHANGED writes
         \/ \E t \in Turn \ {u} : turn[t].pc \in {"tool", "commit"} /\ Execute(t)
  PROVE  (StartsFree(u) /\ BoundToCall(u) /\ ClearedToRun(u))'
<1>1. /\ turn[u] \in ChatTurn /\ actions \in [Action -> Row] /\ writes \in [Action -> Seq(Call)]
      /\ StartsFree(u) /\ BoundToCall(u) /\ ClearedToRun(u)
  BY DEF HoldInv, TInv, TypeOK
<1>2. turn[u].id \in Action \cup {None}
  BY <1>1 DEF ChatTurn
<1>3. StartsFree(u)' BY <1>1 DEF StartsFree
<1>4. BoundToCall(u)'
  BY <1>1, <1>2, RowKept DEF BoundToCall
<1>5. ASSUME turn[u].pc \in {"tool", "commit"} PROVE writes'[turn[u].id] = <<>>
  <2>1. turn[u].id \in Action /\ writes[turn[u].id] = <<>>
    BY <1>1, <1>2, <1>5 DEF ClearedToRun
  <2>2. ASSUME NEW t \in Turn \ {u}, turn[t].pc \in {"tool", "commit"}, Execute(t)
        PROVE  writes'[turn[u].id] = <<>>
    <3>1. ClearedToRun(t) /\ Holds(t) \cap Holds(u) = {} BY DEF HoldInv, OneHolder
    <3>2. turn[t].id # turn[u].id
      BY <1>1, <1>5, <2>2, <3>1 DEF Holds, ClearedToRun
    <3> QED BY <1>1, <2>1, <2>2, <3>2 DEF Execute
  <2> QED BY <2>1, <2>2
<1>6. ClearedToRun(u)'
  BY <1>1, <1>2, <1>5, RowKept DEF ClearedToRun
<1> QED BY <1>3, <1>4, <1>6

\* And turn t's own claims survive it.
LEMMA OwnHold ==
  ASSUME HoldInv, RowsMove, NEW t \in Turn, Moves(t), Touches(t)
  PROVE  (StartsFree(t) /\ BoundToCall(t) /\ ClearedToRun(t))'
<1>1. /\ turn[t] \in ChatTurn /\ actions \in [Action -> Row] /\ writes \in [Action -> Seq(Call)]
      /\ StartsFree(t) /\ BoundToCall(t) /\ ClearedToRun(t) /\ ExecutedOnceAsStored
  BY DEF HoldInv, TInv, TypeOK
<1>2. turn[t].id \in Action \cup {None} /\ turn'[t].id \in Action \cup {None}
  BY <1>1 DEF ChatTurn, Moves
<1>3. CASE Idles(t)
  BY <1>3 DEF Idles, BoundToCall, ClearedToRun
<1>4. CASE Keeps(t)
  BY <1>1, <1>2, <1>4, RowKept DEF Keeps, StartsFree, BoundToCall, ClearedToRun
<1>5. CASE Confirms(t)
  <2> DEFINE a == turn'[t].id
  <2>1. a \in Action BY <1>2, <1>5 DEF Confirms
  <2>2. actions'[a].status = "confirmed" /\ actions'[a].call = actions[a].call
    BY <1>1, <1>5, <2>1 DEF Confirms, RowsMove, RowMoves, Advanced, Row
  <2> QED BY <1>5, <2>2 DEF Confirms, StartsFree, BoundToCall, ClearedToRun
<1>6. CASE Consumes(t)
  <2> DEFINE a == turn[t].id
  <2>1. a \in Action BY <1>2, <1>6 DEF Consumes
  <2>2. actions'[a].status = "consumed" /\ actions'[a].call = turn[t].call
    BY <1>1, <1>6, <2>1, RowKept DEF Consumes, BoundToCall
  <2>3. writes'[a] = <<>>
    BY <1>1, <1>6, <2>1 DEF Consumes, ExecutedOnceAsStored
  <2> QED BY <1>6, <2>2, <2>3 DEF Consumes, StartsFree, BoundToCall, ClearedToRun
<1>7. CASE Finishes(t)
  BY <1>1, <1>2, <1>7, RowKept DEF Finishes, StartsFree, BoundToCall, ClearedToRun
<1> QED BY <1>3, <1>4, <1>5, <1>6, <1>7 DEF Touches

\* A turn gains a capability only from a proposal, which nobody holds.
LEMMA HoldersKept ==
  ASSUME HoldInv, NEW t \in Turn, Moves(t), Touches(t)
  PROVE  OneHolder'
<1>1. \A u \in Turn : u # t => Holds(u)' = Holds(u)
  BY DEF Moves, HoldInv, TInv, TypeOK, Holds
<1>2. \A u \in Turn : u # t => Holds(t)' \cap Holds(u) = {}
  <2>1. CASE Confirms(t)
    <3>1. \A u \in Turn : turn'[t].id \notin Holds(u)
      BY <2>1 DEF Confirms, HoldInv, BoundToCall, Holds
    <3> QED BY <2>1, <3>1 DEF Confirms, Holds
  <2>2. CASE ~Confirms(t)
    <3>1. Holds(t)' \subseteq Holds(t)
      BY <2>2 DEF Touches, Idles, Keeps, Consumes, Finishes, Holds
    <3> QED BY <3>1 DEF HoldInv, OneHolder
  <2> QED BY <2>1, <2>2
<1>3. \A u, v \in Turn : u # v => Holds(u) \cap Holds(v) = {}
  BY DEF HoldInv, OneHolder
<1>4. ASSUME NEW u \in Turn, NEW v \in Turn, u # v
      PROVE  Holds(u)' \cap Holds(v)' = {}
  BY <1>1, <1>2, <1>3, <1>4
<1> QED BY <1>4 DEF OneHolder

\* A tool's execution is the first under its capability, of the call it stores.
LEMMA ExecutedAsStored ==
  ASSUME HoldInv, RowsMove, NEW t \in Turn, Finishes(t), Execute(t)
  PROVE  ExecutedOnceAsStored'
<1> DEFINE a == turn[t].id
<1>1. /\ actions \in [Action -> Row] /\ writes \in [Action -> Seq(Call)]
      /\ turn[t] \in ChatTurn /\ BoundToCall(t) /\ ClearedToRun(t) /\ ExecutedOnceAsStored
  BY DEF HoldInv, TInv, TypeOK
<1>2. /\ a \in Action /\ writes[a] = <<>>
      /\ actions[a].status = "consumed" /\ actions[a].call = turn[t].call
  BY <1>1 DEF Finishes, ClearedToRun, BoundToCall, ChatTurn
<1>3. actions'[a] = actions[a] BY <1>1, <1>2, RowKept
<1>4. writes'[a] = <<turn[t].call>>
  BY <1>1, <1>2 DEF Execute
<1>5. \A b \in Action : b # a => writes'[b] = writes[b]
  BY <1>1 DEF Execute
<1>6. ASSUME NEW b \in Action
      PROVE  /\ writes'[b] \in {<<>>, <<actions'[b].call>>}
             /\ writes'[b] # <<>> => actions'[b].status = "consumed"
  <2>1. CASE b = a BY <1>2, <1>3, <1>4, <2>1
  <2>2. CASE b # a
    <3>1. CASE writes[b] = <<>> BY <1>5, <2>2, <3>1
    <3>2. CASE writes[b] # <<>>
      <4>1. actions[b].status = "consumed" /\ writes[b] = <<actions[b].call>>
        BY <1>1, <3>2 DEF ExecutedOnceAsStored
      <4>2. actions'[b] = actions[b] BY <1>1, <4>1, RowKept
      <4> QED BY <1>5, <2>2, <4>1, <4>2
    <3> QED BY <3>1, <3>2
  <2> QED BY <2>1, <2>2
<1> QED BY <1>6 DEF ExecutedOnceAsStored

LEMMA StepHolds ==
  ASSUME HoldInv, [Next]_vars
  PROVE  HoldInv'
<1>1. TInv' /\ RowsMove
  BY StepTyped, StepMovesRows DEF HoldInv
<1>2. CASE UNCHANGED <<turn, writes>>
  <2>1. \A u \in Turn : (StartsFree(u) /\ BoundToCall(u) /\ ClearedToRun(u))'
    BY <1>1, <1>2, OthersHold
  <2>2. OneHolder' BY <1>2 DEF HoldInv, OneHolder, Holds
  <2> QED BY <1>1, <1>2, <2>1, <2>2, WritesKept DEF HoldInv
<1>3. ASSUME NEW t \in Turn, Chat(t) PROVE HoldInv'
  <2>1. Moves(t) BY <1>3, RecognitionTyped, ExecutionTyped DEF Chat, HoldInv
  <2>2. Touches(t) BY <1>3, ChatTouches
  <2>3. UNCHANGED writes \/ (Finishes(t) /\ Execute(t))
    BY <2>2 DEF Touches, Idles, Keeps, Confirms, Consumes, Finishes
  <2>4. ASSUME NEW u \in Turn PROVE (StartsFree(u) /\ BoundToCall(u) /\ ClearedToRun(u))'
    <3>1. CASE u = t BY <1>1, <2>1, <2>2, <3>1, OwnHold
    <3>2. CASE u # t
      <4>1. turn'[u] = turn[u] BY <2>1, <3>2 DEF Moves, HoldInv, TInv, TypeOK
      <4>2. Finishes(t) => turn[t].pc \in {"tool", "commit"} BY DEF Finishes
      <4> QED BY <1>1, <2>3, <3>2, <4>1, <4>2, OthersHold
    <3> QED BY <3>1, <3>2
  <2>5. ExecutedOnceAsStored' BY <1>1, <2>3, WritesKept, ExecutedAsStored
  <2>6. OneHolder' BY <2>1, <2>2, HoldersKept
  <2> QED BY <1>1, <2>4, <2>5, <2>6 DEF HoldInv
<1> QED BY <1>2, <1>3
     DEF Next, ProposeAction, ConfirmAction, CancelAction, ListActions, TimePasses, vars

LEMMA AlwaysHolds == Spec => []HoldInv
BY InitHolds, StepHolds, PTL DEF Spec

\* However many turns confirm an action, and however often the model repeats its
\* call, it is executed at most once, as it was stored, under a consumed
\* capability: ExecutedOnceAsStored (consume_proposed_action, authorize_tool_call).
THEOREM ExecutedOnce == Spec => []ExecutedOnceAsStored
<1>1. HoldInv => ExecutedOnceAsStored BY DEF HoldInv
<1> QED BY <1>1, AlwaysHolds, PTL

\* No two chat turns ever hold the same capability: OneHolder
\* (confirm_proposed_action, bind_server_approval).
THEOREM CapabilityHasOneHolder == Spec => []OneHolder
<1>1. HoldInv => OneHolder BY DEF HoldInv
<1> QED BY <1>1, AlwaysHolds, PTL

=============================================================================
