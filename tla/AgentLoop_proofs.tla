--------------------------- MODULE AgentLoop_proofs ---------------------------
(***************************************************************************)
(* Proofs about rollouts with agent loops, for any number of workers,      *)
(* servers, conversations, tokens and rollouts: the types, the even spread *)
(* of conversations, servers that are ready for every request, transcripts *)
(* that are aligned with their masks, the room left for an answer, and the *)
(* server a conversation stays with.                                       *)
(***************************************************************************)
EXTENDS AgentLoop, FiniteSetTheorems, SequenceTheorems, TLAPS

Author == {"prompt", "model", "tool", "user"}

LEMMA TokensFacts ==
  ASSUME NEW S, NEW a \in S, NEW n \in Nat
  PROVE  /\ Tokens(a, n) \in Seq(S) /\ Len(Tokens(a, n)) = n
         /\ \A i \in 1..n : Tokens(a, n)[i] = a
  BY DEF Tokens

\* A sequence without entry i.
LEMMA WithoutAt ==
  ASSUME NEW S, NEW q \in Seq(S), NEW i \in 1..Len(q)
  PROVE  /\ Without(q, i) \in Seq(S) /\ Len(Without(q, i)) = Len(q) - 1
         /\ \A k \in 1..(Len(q) - 1) : Without(q, i)[k] = IF k < i THEN q[k] ELSE q[k + 1]
<1> DEFINE l == SubSeq(q, 1, i - 1)
           r == SubSeq(q, i + 1, Len(q))
<1>1. Len(q) \in Nat /\ i \in Nat /\ i >= 1 /\ i <= Len(q)
  OBVIOUS
<1>2. l \in Seq(S) /\ Len(l) = i - 1 /\ \A k \in 1..(i - 1) : l[k] = q[k]
  BY <1>1
<1>3. r \in Seq(S) /\ Len(r) = Len(q) - i /\ \A k \in 1..(Len(q) - i) : r[k] = q[i + k]
  BY <1>1
<1>4. Without(q, i) = l \o r
  BY DEF Without
<1> HIDE DEF l, r
<1>5. /\ l \o r \in Seq(S) /\ Len(l \o r) = Len(l) + Len(r)
      /\ \A k \in 1..(Len(l) + Len(r)) : (l \o r)[k] = IF k <= Len(l) THEN l[k] ELSE r[k - Len(l)]
  BY <1>2, <1>3, ConcatProperties
<1>6. Without(q, i) \in Seq(S) /\ Len(Without(q, i)) = Len(q) - 1
  BY <1>1, <1>2, <1>3, <1>4, <1>5
<1>7. ASSUME NEW k \in 1..(Len(q) - 1)
      PROVE  Without(q, i)[k] = IF k < i THEN q[k] ELSE q[k + 1]
  <2>1. CASE k < i
    <3>1. k \in 1..(i - 1) /\ k \in 1..(Len(l) + Len(r)) /\ k <= Len(l)
      BY <1>1, <1>2, <1>3, <2>1
    <3> QED BY <1>2, <1>4, <1>5, <2>1, <3>1
  <2>2. CASE ~(k < i)
    <3>1. /\ k \in 1..(Len(l) + Len(r)) /\ ~(k <= Len(l))
          /\ k - Len(l) \in 1..(Len(q) - i) /\ i + (k - Len(l)) = k + 1
      BY <1>1, <1>2, <1>3, <2>2
    <3> QED BY <1>3, <1>4, <1>5, <2>2, <3>1
  <2> QED BY <2>1, <2>2
<1> QED BY <1>6, <1>7

LEMMA RememberType ==
  ASSUME NEW I, NEW q \in Seq([id : I, server : Server]), Len(q) <= MaxCache,
         NEW id \in I, NEW s \in Server
  PROVE  /\ Remember(q, id, s) \in Seq([id : I, server : Server])
         /\ Len(Remember(q, id, s)) <= MaxCache
<1> DEFINE E == [id : I, server : Server]
           others == Others(q, id)
<1>1. others \in Seq(E) /\ Len(others) <= MaxCache
  <2> DEFINE found == {i \in DOMAIN q : q[i].id = id}
             i == CHOOSE i \in found : TRUE
  <2>1. CASE found = {}
    BY <2>1 DEF Others
  <2>2. CASE found # {}
    <3>1. i \in found
      BY <2>2
    <3>2. i \in 1..Len(q)
      BY <3>1
    <3>3. Without(q, i) \in Seq(E) /\ Len(Without(q, i)) = Len(q) - 1
      BY <3>2, WithoutAt
    <3>4. others = Without(q, i)
      BY <2>2 DEF Others
    <3>5. Len(q) \in Nat /\ MaxCache \in Nat
      BY SizeAssumption
    <3> HIDE DEF others, i, E
    <3>6. QED BY <3>3, <3>4, <3>5
  <2>3. QED BY <2>1, <2>2
<1>2. [id |-> id, server |-> s] \in E
  OBVIOUS
<1> DEFINE kept == IF Len(others) = MaxCache THEN Tail(others) ELSE others
<1> HIDE DEF others, E
<1>3. kept \in Seq(E) /\ Len(kept) < MaxCache
  <2>1. MaxCache \in Nat \ {0}
    BY SizeAssumption
  <2>2. CASE Len(others) = MaxCache
    BY <1>1, <2>1, <2>2
  <2>3. CASE Len(others) # MaxCache
    BY <1>1, <2>1, <2>3
  <2>4. QED BY <2>2, <2>3
<1> HIDE DEF kept
<1>4. /\ Append(kept, [id |-> id, server |-> s]) \in Seq(E)
      /\ Len(Append(kept, [id |-> id, server |-> s])) = Len(kept) + 1
  BY <1>2, <1>3
<1>5. Remember(q, id, s) = Append(kept, [id |-> id, server |-> s])
  BY DEF Remember, kept, others
<1>6. Len(kept) \in Nat /\ MaxCache \in Nat
  BY <1>3, SizeAssumption
<1>7. QED BY <1>3, <1>4, <1>5, <1>6 DEF E

-----------------------------------------------------------------------------
(* Types. *)

\* The server of a request is one of the pool.
LEMMA ChosenServer ==
  ASSUME TypeOK, NEW c \in Conversation, NEW s,
         s \in (IF Remembered(c) # {} THEN Remembered(c) ELSE LeastUsed(c[1]))
  PROVE  s \in Server
<1>1. CASE Remembered(c) # {}
  <2>1. PICK i \in DOMAIN cache[c[1]] : s = cache[c[1]][i].server
    BY <1>1 DEF Remembered
  <2>2. c[1] \in Worker
    BY DEF Conversation
  <2>3. cache[c[1]] \in Seq([id : Conversation \X Nat, server : Server])
    BY <2>2 DEF TypeOK
  <2>4. cache[c[1]][i] \in [id : Conversation \X Nat, server : Server]
    <3>1. i \in 1..Len(cache[c[1]])
      BY <2>1, <2>3, LenProperties
    <3>2. QED BY <3>1, <2>3, ElementOfSeq
  <2>5. QED BY <2>1, <2>4
<1>2. CASE Remembered(c) = {}
  BY <1>2 DEF LeastUsed
<1>3. QED BY <1>1, <1>2

LEMMA TypeRequest ==
  ASSUME TypeOK, NEW c \in Conversation, Request(c)
  PROVE  TypeOK'
<1>1. c[1] \in Worker
  BY DEF Conversation
<1>2. PICK s \in IF Remembered(c) # {} THEN Remembered(c) ELSE LeastUsed(c[1]) :
        /\ server' = [server EXCEPT ![c] = s]
        /\ cache' = [cache EXCEPT ![c[1]] = Remember(@, Id(c), s)]
        /\ counts' = IF Remembered(c) # {} THEN counts
                     ELSE [counts EXCEPT ![c[1]][s] = @ + 1]
  BY DEF Request
<1>3. s \in Server
  BY <1>2, ChosenServer
<1>4. server' \in [Conversation -> Server]
  BY <1>2, <1>3 DEF TypeOK
<1>5. counts' \in [Worker -> [Server -> Nat]]
  <2>1. CASE Remembered(c) # {}
    BY <1>2, <2>1 DEF TypeOK
  <2>2. CASE Remembered(c) = {}
    <3>1. counts' = [counts EXCEPT ![c[1]][s] = @ + 1]
      BY <1>2, <2>2
    <3>2. counts \in [Worker -> [Server -> Nat]]
      BY DEF TypeOK
    <3>3. QED BY <1>1, <1>3, <3>1, <3>2
  <2>3. QED BY <2>1, <2>2
<1>6. /\ cache' \in [Worker -> Seq([id : Conversation \X Nat, server : Server])]
      /\ \A w \in Worker : Len(cache'[w]) <= MaxCache
  <2>1. Id(c) \in Conversation \X Nat
    BY DEF Id, TypeOK
  <2>2. /\ cache[c[1]] \in Seq([id : Conversation \X Nat, server : Server])
        /\ Len(cache[c[1]]) <= MaxCache
    BY <1>1 DEF TypeOK
  <2>3. /\ Remember(cache[c[1]], Id(c), s) \in Seq([id : Conversation \X Nat, server : Server])
        /\ Len(Remember(cache[c[1]], Id(c), s)) <= MaxCache
    BY <1>3, <2>1, <2>2, RememberType
  <2>4. QED BY <1>1, <1>2, <2>3 DEF TypeOK
<1>7. QED BY <1>4, <1>5, <1>6 DEF TypeOK, Request, rollout, transcript, turns, States

\* What is heard keeps its type.
LEMMA TypeHear ==
  ASSUME TypeOK, NEW c \in Conversation, NEW a \in Author, NEW n \in Nat, Hear(c, a, n)
  PROVE  /\ prompt_ids' \in [Conversation -> Seq(Author)]
         /\ response_mask' \in [Conversation -> Seq({0, 1})]
         /\ response_logprobs' \in [Conversation -> Seq({0, 1})]
         /\ user_turns' \in [Conversation -> Nat]
<1>1. Tokens(a, n) \in Seq(Author) /\ Tokens(0, n) \in Seq({0, 1})
  BY TokensFacts
<1>2. prompt_ids[c] \o Tokens(a, n) \in Seq(Author)
  BY <1>1 DEF TypeOK, Author
<1>3. /\ response_mask[c] \o Tokens(0, n) \in Seq({0, 1})
      /\ response_logprobs[c] \o Tokens(0, n) \in Seq({0, 1})
  BY <1>1 DEF TypeOK
<1>4. Padded(response_logprobs[c], n) \in Seq({0, 1})
  BY <1>3 DEF Padded
<1>5. QED BY <1>2, <1>3, <1>4 DEF Hear, TypeOK, Author

LEMMA TypeAnswer ==
  ASSUME TypeOK, NEW c \in Conversation, Answer(c)
  PROVE  TypeOK'
<1>1. PICK n \in 1..(max_model_len - Len(prompt_ids[c])) :
       /\ prompt_ids' = [prompt_ids EXCEPT ![c] = @ \o Tokens("model", n)]
       /\ response_mask' = [response_mask EXCEPT ![c] = @ \o Tokens(1, n)]
       /\ response_logprobs' = IF calculate_log_probs
                               THEN [response_logprobs EXCEPT ![c] = @ \o Tokens(1, n)]
                               ELSE response_logprobs
       /\ \E next \in IF Enough(c, n) THEN {"terminated"} ELSE NextStates :
            state' = [state EXCEPT ![c] = next]
  BY DEF Answer
<1>2. n \in Nat
  BY <1>1
<1>3. Tokens("model", n) \in Seq(Author) /\ Tokens(1, n) \in Seq({0, 1})
  BY <1>2, TokensFacts DEF Author
<1>4. /\ prompt_ids[c] \o Tokens("model", n) \in Seq(Author)
      /\ response_mask[c] \o Tokens(1, n) \in Seq({0, 1})
      /\ response_logprobs[c] \o Tokens(1, n) \in Seq({0, 1})
  BY <1>3 DEF TypeOK, Author
<1>5. state' \in [Conversation -> States]
  BY <1>1 DEF TypeOK, States, NextStates
<1>6. assistant_turns' \in [Conversation -> Nat]
  BY DEF TypeOK, Answer
<1>7. QED BY <1>1, <1>4, <1>5, <1>6 DEF TypeOK, Answer, rollout, routing, Author

LEMMA TypeConverse ==
  ASSUME TypeOK, NEW c \in Conversation, Converse(c)
  PROVE  TypeOK'
<1>1. CASE Prepare(c)
  <2>1. PICK n \in 1..prompt_length :
          prompt_ids' = [prompt_ids EXCEPT ![c] = Tokens("prompt", n)]
    BY <1>1 DEF Prepare
  <2>2. Tokens("prompt", n) \in Seq(Author)
    <3>1. n \in Nat /\ "prompt" \in Author
      BY <2>1, SizeAssumption DEF Author
    <3>2. QED BY <3>1, TokensFacts
  <2>3. QED BY <1>1, <2>1, <2>2 DEF Prepare, TypeOK, States, rollout, routing, turns, Author
<1>2. CASE Request(c)
  BY <1>2, TypeRequest
<1>3. CASE Answer(c)
  BY <1>3, TypeAnswer
<1>4. CASE Refuse(c)
  BY <1>4 DEF Refuse, TypeOK, States, rollout, routing, transcript, turns
<1>5. CASE ToolsAnswer(c)
  <2>1. PICK n \in 1..MaxInput :
         IF Overflows(c, n)
         THEN /\ state' = [state EXCEPT ![c] = "terminated"]
              /\ UNCHANGED <<transcript, turns>>
         ELSE /\ state' = [state EXCEPT ![c] = "generating"]
              /\ Hear(c, "tool", n)
    BY <1>5 DEF ToolsAnswer
  <2>2. CASE Overflows(c, n)
    BY <1>5, <2>1, <2>2 DEF ToolsAnswer, TypeOK, States, rollout, routing, transcript, turns
  <2>3. CASE ~Overflows(c, n)
    <3>1. n \in Nat /\ "tool" \in Author /\ Hear(c, "tool", n)
      BY <2>1, <2>3, SizeAssumption DEF Author
    <3>2. state' \in [Conversation -> States]
      BY <2>1, <2>3 DEF TypeOK, States
    <3>3. QED BY <1>5, <3>1, <3>2, TypeHear
                 DEF ToolsAnswer, Hear, TypeOK, rollout, routing, Author
  <2>4. QED BY <2>2, <2>3
<1>6. CASE UserAnswers(c)
  <2>1. PICK n \in 1..MaxInput : Hear(c, "user", n)
    BY <1>6 DEF UserAnswers
  <2>2. n \in Nat /\ "user" \in Author
    BY <2>1, SizeAssumption DEF Author
  <2>3. state' \in [Conversation -> States]
    BY <1>6 DEF UserAnswers, TypeOK, States
  <2>4. QED BY <1>6, <2>1, <2>2, <2>3, TypeHear
               DEF UserAnswers, Hear, TypeOK, rollout, routing, Author
<1>7. QED BY <1>1, <1>2, <1>3, <1>4, <1>5, <1>6 DEF Converse

LEMMA TypeManage ==
  ASSUME TypeOK, Manage
  PROVE  TypeOK'
<1>1. CASE WakeUp \/ Collect \/ Raise
  BY <1>1 DEF WakeUp, Collect, Raise, TypeOK, routing, transcript, turns
<1>2. ASSUME NEW s \in Server, WakeServer(s) PROVE TypeOK'
  BY <1>2 DEF WakeServer, TypeOK, routing, transcript, turns
<1>3. CASE Dispatch
  BY <1>3 DEF Dispatch, TypeOK, routing, transcript, turns, States
<1>4. ASSUME NEW s \in Server, SleepServer(s) PROVE TypeOK'
  BY <1>4 DEF SleepServer, TypeOK, routing, transcript, turns
<1>5. CASE Use
  <2>1. \A S : <<>> \in Seq(S)
    OBVIOUS
  <2>2. /\ prompt_ids' \in [Conversation -> Seq(Author)]
        /\ response_mask' \in [Conversation -> Seq({0, 1})]
        /\ response_logprobs' \in [Conversation -> Seq({0, 1})]
    BY <1>5, <2>1 DEF Use
  <2>3. /\ state' \in [Conversation -> States]
        /\ assistant_turns' \in [Conversation -> Nat]
        /\ user_turns' \in [Conversation -> Nat]
        /\ step' \in Nat /\ batch' \in Nat /\ driver' = "training"
    BY <1>5 DEF Use, TypeOK, States
  <2>4. QED BY <1>5, <2>2, <2>3 DEF Use, TypeOK, routing, Author
<1>6. QED BY <1>1, <1>2, <1>3, <1>4, <1>5 DEF Manage

LEMMA TypeInit == Init => TypeOK
<1>1. \A S : <<>> \in Seq(S) /\ Len(<<>>) = 0
  OBVIOUS
<1>2. QED BY <1>1, SizeAssumption DEF Init, TypeOK, States

LEMMA TypeStep == TypeOK /\ [Next]_vars => TypeOK'
<1> SUFFICES ASSUME TypeOK, [Next]_vars PROVE TypeOK'
  OBVIOUS
<1>1. CASE UNCHANGED vars
  BY <1>1 DEF TypeOK, vars, rollout, routing, transcript, turns
<1>2. CASE Over
  BY <1>1, <1>2 DEF Over
<1>3. QED BY <1>1, <1>2, TypeConverse, TypeManage DEF Next

\* Every variable keeps its type.
THEOREM TypeCorrect == Spec => []TypeOK
BY TypeInit, TypeStep, PTL DEF Spec

-----------------------------------------------------------------------------
(* The driver and its servers. *)

\* What the driver's phase says of the servers and of the conversations.
Phases ==
  /\ driver \in {"training", "waking"} => \A c \in Conversation : state[c] = "none"
  /\ driver = "resting" => \A c \in Conversation : state[c] = "terminated"
  /\ driver = "training" => awake = {}
  /\ driver = "waking" => \A s \in awake : loaded[s] = step
  /\ driver = "rollout" => awake = Server /\ \A s \in Server : loaded[s] = step

LEMMA PhasesInit == Init => Phases
BY DEF Init, Phases

LEMMA PhasesManage ==
  ASSUME TypeOK, Phases, Manage
  PROVE  Phases'
<1>1. CASE WakeUp
  BY <1>1 DEF WakeUp, Phases
<1>2. ASSUME NEW s \in Server, WakeServer(s) PROVE Phases'
  BY <1>2 DEF WakeServer, Phases, TypeOK
<1>3. CASE Dispatch
  BY <1>3 DEF Dispatch, AllAwake, Phases
<1>4. CASE Collect
  BY <1>4 DEF Collect, Phases
<1>5. CASE Raise
  BY <1>5 DEF Raise, Phases
<1>6. ASSUME NEW s \in Server, SleepServer(s) PROVE Phases'
  BY <1>6 DEF SleepServer, Phases
<1>7. CASE Use
  BY <1>7 DEF Use, Phases
<1>8. QED BY <1>1, <1>2, <1>3, <1>4, <1>5, <1>6, <1>7 DEF Manage

LEMMA PhasesConverse ==
  ASSUME TypeOK, Phases, NEW c \in Conversation, Converse(c)
  PROVE  Phases'
<1>1. Running /\ state[c] \notin {"none", "terminated"} /\ UNCHANGED rollout
  BY DEF Converse, Prepare, Request, Answer, Refuse, ToolsAnswer, UserAnswers
<1>2. driver = "rollout"
  BY <1>1 DEF Phases, TypeOK, Running
<1>3. QED BY <1>1, <1>2 DEF Phases, rollout

LEMMA PhasesStep == TypeOK /\ Phases /\ [Next]_vars => Phases'
<1> SUFFICES ASSUME TypeOK, Phases, [Next]_vars PROVE Phases'
  OBVIOUS
<1>1. CASE UNCHANGED vars
  BY <1>1 DEF Phases, vars, rollout
<1>2. CASE Over
  BY <1>1, <1>2 DEF Over
<1>3. QED BY <1>1, <1>2, PhasesManage, PhasesConverse DEF Next

\* A request in flight is at a server that is awake and up to date
\* (generate_sequences of AgentLoopManager wakes all of them before any chunk is
\* sent, and lets none sleep before all conversations have ended).
THEOREM AlwaysReady == Spec => []ServersReady
<1>1. TypeOK /\ Phases => ServersReady
  <2> SUFFICES ASSUME TypeOK, Phases, NEW c \in Conversation, Running, state[c] = "requested"
               PROVE  server[c] \in awake /\ loaded[server[c]] = step
    BY DEF ServersReady
  <2>1. driver = "rollout" /\ server[c] \in Server
    BY DEF Phases, TypeOK, Running
  <2>2. QED BY <2>1 DEF Phases
<1>2. QED BY <1>1, PhasesInit, PhasesStep, TypeCorrect, PTL DEF Spec

-----------------------------------------------------------------------------
(* The spread of the conversations over the servers. *)

LEMMA EvenInit == Init => EvenStarts
BY DEF Init, EvenStarts

LEMMA EvenStep == TypeOK /\ EvenStarts /\ [Next]_vars => EvenStarts'
<1> SUFFICES ASSUME TypeOK, EvenStarts, [Next]_vars PROVE EvenStarts'
  OBVIOUS
<1>1. CASE UNCHANGED counts
  BY <1>1 DEF EvenStarts
<1>2. ASSUME NEW c \in Conversation, Request(c), counts' # counts PROVE EvenStarts'
  <2>1. c[1] \in Worker
    BY DEF Conversation
  <2>2. PICK s \in LeastUsed(c[1]) : counts' = [counts EXCEPT ![c[1]][s] = @ + 1]
    BY <1>2 DEF Request
  <2>3. s \in Server /\ \A t \in Server : counts[c[1]][s] <= counts[c[1]][t]
    BY <2>2 DEF LeastUsed
  <2>4. counts \in [Worker -> [Server -> Nat]]
    BY DEF TypeOK
  <2> SUFFICES ASSUME NEW w \in Worker, NEW t \in Server, NEW u \in Server
               PROVE  counts'[w][t] <= counts'[w][u] + 1
    BY DEF EvenStarts
  <2>5. counts[w][t] <= counts[w][u] + 1 /\ counts[w][t] \in Nat /\ counts[w][u] \in Nat
    BY <2>4 DEF EvenStarts
  <2>6. CASE w # c[1]
    BY <2>2, <2>4, <2>5, <2>6
  <2>7. CASE w = c[1]
    <3>1. counts'[w] = [counts[w] EXCEPT ![s] = @ + 1]
      BY <2>1, <2>2, <2>4, <2>7
    <3>2. counts[w] \in [Server -> Nat]
      BY <2>4
    <3>3. counts[w][s] <= counts[w][u] /\ counts[w][s] <= counts[w][t]
      BY <2>3, <2>7
    <3>4. QED BY <2>3, <2>5, <3>1, <3>2, <3>3
  <2>8. QED BY <2>6, <2>7
<1>3. [\E c \in Conversation : Request(c)]_counts
  BY DEF Next, Over, vars, routing, Manage, WakeUp, WakeServer, Dispatch, Collect, Raise,
         SleepServer, Use, Converse, Prepare, Answer, Refuse, ToolsAnswer, UserAnswers
<1>4. QED BY <1>1, <1>2, <1>3

\* Over all rollouts, a worker has started equally many conversations at every server,
\* up to one (_choose_server of AsyncLLMServerManager).
THEOREM SpreadsEvenly == Spec => []EvenStarts
BY EvenInit, EvenStep, TypeCorrect, PTL DEF Spec

-----------------------------------------------------------------------------
(* Transcripts. *)

\* A transcript p is a prompt of the dataset and what mask m speaks of.
Parted(p, m) ==
  /\ Len(m) <= Len(p) /\ Len(p) - Len(m) <= prompt_length
  /\ \A i \in 1..(Len(p) - Len(m)) : p[i] = "prompt"
  /\ \A i \in 1..Len(m) : /\ m[i] = 1 <=> p[Len(p) - Len(m) + i] = "model"
                          /\ p[Len(p) - Len(m) + i] # "prompt"

LEMMA PartedAppend ==
  ASSUME NEW p \in Seq(Author), NEW m \in Seq({0, 1}), Parted(p, m),
         NEW a \in Author \ {"prompt"}, NEW b \in {0, 1}, b = 1 <=> a = "model", NEW n \in Nat
  PROVE  Parted(p \o Tokens(a, n), m \o Tokens(b, n))
<1> DEFINE q == p \o Tokens(a, n)
           r == m \o Tokens(b, n)
<1>1. /\ Tokens(a, n) \in Seq(Author) /\ Len(Tokens(a, n)) = n
      /\ \A i \in 1..n : Tokens(a, n)[i] = a
  BY TokensFacts
<1>2. /\ Tokens(b, n) \in Seq({0, 1}) /\ Len(Tokens(b, n)) = n
      /\ \A i \in 1..n : Tokens(b, n)[i] = b
  BY TokensFacts
<1>3. Len(p) \in Nat /\ Len(m) \in Nat /\ prompt_length \in Nat
  BY SizeAssumption
<1>4. /\ Len(q) = Len(p) + n
      /\ \A i \in 1..Len(p) : q[i] = p[i]
      /\ \A i \in 1..n : q[Len(p) + i] = a
  <2>1. \A i \in 1..(Len(p) + n) : q[i] = IF i <= Len(p) THEN p[i] ELSE Tokens(a, n)[i - Len(p)]
    BY <1>1, ConcatProperties
  <2>2. Len(q) = Len(p) + n
    BY <1>1, ConcatProperties
  <2> HIDE DEF q
  <2>3. ASSUME NEW i \in 1..Len(p) PROVE q[i] = p[i]
    BY <1>3, <2>1
  <2>4. ASSUME NEW i \in 1..n PROVE q[Len(p) + i] = a
    <3>1. Len(p) + i \in 1..(Len(p) + n) /\ ~(Len(p) + i <= Len(p)) /\ Len(p) + i - Len(p) = i
      BY <1>3
    <3>2. q[Len(p) + i] = Tokens(a, n)[i]
      BY <2>1, <3>1
    <3>3. QED BY <1>1, <3>2
  <2>5. QED BY <2>2, <2>3, <2>4
<1>5. /\ Len(r) = Len(m) + n
      /\ \A i \in 1..Len(m) : r[i] = m[i]
      /\ \A i \in 1..n : r[Len(m) + i] = b
  <2>1. \A i \in 1..(Len(m) + n) : r[i] = IF i <= Len(m) THEN m[i] ELSE Tokens(b, n)[i - Len(m)]
    BY <1>2, ConcatProperties
  <2>2. Len(r) = Len(m) + n
    BY <1>2, ConcatProperties
  <2> HIDE DEF r
  <2>3. ASSUME NEW i \in 1..Len(m) PROVE r[i] = m[i]
    BY <1>3, <2>1
  <2>4. ASSUME NEW i \in 1..n PROVE r[Len(m) + i] = b
    <3>1. Len(m) + i \in 1..(Len(m) + n) /\ ~(Len(m) + i <= Len(m)) /\ Len(m) + i - Len(m) = i
      BY <1>3
    <3>2. r[Len(m) + i] = Tokens(b, n)[i]
      BY <2>1, <3>1
    <3>3. QED BY <1>2, <3>2
  <2>5. QED BY <2>2, <2>3, <2>4
<1> HIDE DEF q, r
<1>6. Len(q) - Len(r) = Len(p) - Len(m)
  BY <1>3, <1>4, <1>5
<1>7. ASSUME NEW i \in 1..(Len(q) - Len(r)) PROVE q[i] = "prompt"
  <2>1. i \in 1..(Len(p) - Len(m)) /\ i \in 1..Len(p)
    BY <1>3, <1>6
  <2>2. QED BY <1>4, <2>1 DEF Parted
<1>8. ASSUME NEW i \in 1..Len(r)
      PROVE  /\ r[i] = 1 <=> q[Len(q) - Len(r) + i] = "model"
             /\ q[Len(q) - Len(r) + i] # "prompt"
  <2>1. CASE i <= Len(m)
    <3>1. i \in 1..Len(m) /\ Len(p) - Len(m) + i \in 1..Len(p)
      BY <1>3, <2>1 DEF Parted
    <3>2. /\ m[i] = 1 <=> p[Len(p) - Len(m) + i] = "model"
          /\ p[Len(p) - Len(m) + i] # "prompt"
      BY <3>1 DEF Parted
    <3>3. QED BY <1>4, <1>5, <1>6, <3>1, <3>2
  <2>2. CASE i > Len(m)
    <3>1. i - Len(m) \in 1..n
      BY <1>3, <1>5, <2>2
    <3>2. Len(m) + (i - Len(m)) = i /\ Len(p) + (i - Len(m)) = Len(p) - Len(m) + i
      BY <1>3
    <3>3. r[i] = b /\ q[Len(p) - Len(m) + i] = a
      BY <1>4, <1>5, <3>1, <3>2
    <3>4. QED BY <1>6, <3>3
  <2>3. QED BY <1>3, <2>1, <2>2
<1>9. Len(r) <= Len(q) /\ Len(q) - Len(r) <= prompt_length
  BY <1>3, <1>4, <1>5 DEF Parted
<1>10. QED BY <1>7, <1>8, <1>9 DEF Parted, q, r

LEMMA MaskLength ==
  ASSUME NEW m \in Seq({0, 1}), NEW b \in {0, 1}, NEW n \in Nat
  PROVE  Len(m \o Tokens(b, n)) = Len(m) + n
<1>1. Tokens(b, n) \in Seq({0, 1}) /\ Len(Tokens(b, n)) = n
  BY TokensFacts
<1>2. QED BY <1>1, ConcatProperties

\* What is known of conversation c.
Transcribed(c) ==
  /\ Parted(prompt_ids[c], response_mask[c])
  /\ calculate_log_probs => response_logprobs[c] = response_mask[c]
  /\ state[c] \in {"none", "pending"} => prompt_ids[c] = <<>> /\ response_mask[c] = <<>>
  /\ state[c] \in {"processing_tools", "interacting", "terminated"} => Len(response_mask[c]) > 0

Transcripts == \A c \in Conversation : Transcribed(c)

\* Actions on a conversation leave the others alone.
LEMMA OthersAlone ==
  ASSUME TypeOK, NEW c \in Conversation, Converse(c), NEW d \in Conversation, d # c
  PROVE  /\ state'[d] = state[d] /\ prompt_ids'[d] = prompt_ids[d]
         /\ response_mask'[d] = response_mask[d]
         /\ response_logprobs'[d] = response_logprobs[d]
<1>1. CASE Prepare(c)
  BY <1>1 DEF Prepare, TypeOK
<1>2. CASE Request(c) \/ Refuse(c)
  BY <1>2 DEF Request, Refuse, TypeOK, transcript
<1>3. CASE Answer(c)
  BY <1>3 DEF Answer, TypeOK
<1>4. CASE ToolsAnswer(c)
  BY <1>4 DEF ToolsAnswer, Hear, TypeOK, transcript
<1>5. CASE UserAnswers(c)
  BY <1>5 DEF UserAnswers, Hear, TypeOK
<1>6. QED BY <1>1, <1>2, <1>3, <1>4, <1>5 DEF Converse

\* The transcript of c after what it hears.
LEMMA HearParted ==
  ASSUME TypeOK, NEW c \in Conversation, Transcribed(c), Len(response_mask[c]) > 0,
         NEW a \in {"tool", "user"}, NEW n \in Nat, Hear(c, a, n)
  PROVE  /\ Parted(prompt_ids'[c], response_mask'[c])
         /\ calculate_log_probs => response_logprobs'[c] = response_mask'[c]
         /\ prompt_ids'[c] = prompt_ids[c] \o Tokens(a, n)
         /\ Len(response_mask'[c]) = Len(response_mask[c]) + n
<1>1. prompt_ids[c] \in Seq(Author) /\ response_mask[c] \in Seq({0, 1})
  BY DEF TypeOK, Author
<1>2. /\ prompt_ids'[c] = prompt_ids[c] \o Tokens(a, n)
      /\ response_mask'[c] = response_mask[c] \o Tokens(0, n)
      /\ response_logprobs'[c] = Padded(response_logprobs[c], n)
  BY DEF Hear, TypeOK
<1>3. Parted(prompt_ids'[c], response_mask'[c])
  <2>1. a \in Author \ {"prompt"} /\ a # "model"
    BY DEF Author
  <2>2. QED BY <1>1, <1>2, <2>1, PartedAppend DEF Transcribed
<1>4. ASSUME calculate_log_probs PROVE response_logprobs'[c] = response_mask'[c]
  <2>1. response_logprobs[c] = response_mask[c]
    BY <1>4 DEF Transcribed
  <2>2. response_logprobs[c] # <<>>
    BY <1>1, <2>1
  <2>3. QED BY <1>2, <2>1, <2>2 DEF Padded
<1>5. Len(response_mask'[c]) = Len(response_mask[c]) + n
  <2>1. Len(response_mask[c] \o Tokens(0, n)) = Len(response_mask[c]) + n
    BY <1>1, MaskLength
  <2>2. QED BY <1>2, <2>1
<1>6. QED BY <1>2, <1>3, <1>4, <1>5

\* The transcript of c after an answer of the model.
LEMMA AnswerParted ==
  ASSUME TypeOK, NEW c \in Conversation, Transcribed(c), Answer(c)
  PROVE  Transcribed(c)'
<1>1. PICK n \in 1..(max_model_len - Len(prompt_ids[c])) :
       /\ prompt_ids' = [prompt_ids EXCEPT ![c] = @ \o Tokens("model", n)]
       /\ response_mask' = [response_mask EXCEPT ![c] = @ \o Tokens(1, n)]
       /\ response_logprobs' = IF calculate_log_probs
                               THEN [response_logprobs EXCEPT ![c] = @ \o Tokens(1, n)]
                               ELSE response_logprobs
       /\ \E next \in IF Enough(c, n) THEN {"terminated"} ELSE NextStates :
            state' = [state EXCEPT ![c] = next]
  BY DEF Answer
<1>2. n \in Nat /\ n > 0 /\ "model" \in Author
  BY <1>1 DEF Author
<1>3. prompt_ids[c] \in Seq(Author) /\ response_mask[c] \in Seq({0, 1})
  BY DEF TypeOK, Author
<1>4. /\ prompt_ids'[c] = prompt_ids[c] \o Tokens("model", n)
      /\ response_mask'[c] = response_mask[c] \o Tokens(1, n)
      /\ calculate_log_probs => response_logprobs'[c] = response_logprobs[c] \o Tokens(1, n)
  BY <1>1 DEF TypeOK
<1>5. Parted(prompt_ids'[c], response_mask'[c])
  BY <1>2, <1>3, <1>4, PartedAppend DEF Transcribed
<1>6. Len(response_mask'[c]) > 0
  <2>1. Len(response_mask'[c]) = Len(response_mask[c]) + n /\ Len(response_mask[c]) \in Nat
    <3>1. Len(response_mask[c] \o Tokens(1, n)) = Len(response_mask[c]) + n
      BY <1>2, <1>3, MaskLength
    <3>2. QED BY <1>3, <1>4, <3>1
  <2>2. QED BY <1>2, <2>1
<1>7. state'[c] \in {"processing_tools", "interacting", "terminated"}
  BY <1>1 DEF TypeOK, NextStates
<1>8. QED BY <1>4, <1>5, <1>6, <1>7 DEF Transcribed

LEMMA TranscribedConverse ==
  ASSUME TypeOK, NEW c \in Conversation, Transcribed(c), Converse(c)
  PROVE  Transcribed(c)'
<1>1. CASE Prepare(c)
  <2>1. PICK n \in 1..prompt_length :
          prompt_ids' = [prompt_ids EXCEPT ![c] = Tokens("prompt", n)]
    BY <1>1 DEF Prepare
  <2>2. /\ prompt_ids'[c] = Tokens("prompt", n) /\ response_mask'[c] = <<>>
        /\ state'[c] = "generating" /\ response_logprobs'[c] = response_logprobs[c]
    BY <1>1, <2>1 DEF Prepare, TypeOK, Transcribed
  <2>3. n \in Nat /\ n <= prompt_length /\ "prompt" \in Author
    BY <2>1, SizeAssumption DEF Author
  <2>4. /\ Tokens("prompt", n) \in Seq(Author) /\ Len(Tokens("prompt", n)) = n
        /\ \A i \in 1..n : Tokens("prompt", n)[i] = "prompt"
    BY <2>3, TokensFacts
  <2>5. Parted(prompt_ids'[c], response_mask'[c])
    BY <2>2, <2>3, <2>4 DEF Parted
  <2>6. UNCHANGED response_mask /\ UNCHANGED response_logprobs
    BY <1>1 DEF Prepare
  <2>7. QED BY <2>2, <2>5, <2>6 DEF Transcribed
<1>2. CASE Request(c) \/ Refuse(c)
  <2>1. state'[c] \in {"requested", "failed"} /\ UNCHANGED transcript
    BY <1>2 DEF Request, Refuse, TypeOK
  <2>2. QED BY <2>1 DEF Transcribed, transcript
<1>3. CASE Answer(c)
  BY <1>3, AnswerParted
<1>4. CASE ToolsAnswer(c)
  <2>1. Len(response_mask[c]) > 0
    BY <1>4 DEF ToolsAnswer, Transcribed
  <2>2. PICK n \in 1..MaxInput :
         IF Overflows(c, n)
         THEN /\ state' = [state EXCEPT ![c] = "terminated"]
              /\ UNCHANGED <<transcript, turns>>
         ELSE /\ state' = [state EXCEPT ![c] = "generating"]
              /\ Hear(c, "tool", n)
    BY <1>4 DEF ToolsAnswer
  <2>3. CASE Overflows(c, n)
    <3>1. UNCHANGED transcript /\ state'[c] = "terminated"
      BY <2>2, <2>3 DEF TypeOK
    <3>2. QED BY <2>1, <3>1 DEF Transcribed, transcript
  <2>4. CASE ~Overflows(c, n)
    <3>1. Hear(c, "tool", n) /\ state'[c] = "generating"
      BY <2>2, <2>4 DEF TypeOK
    <3>2. n \in Nat /\ "tool" \in Author
      BY SizeAssumption DEF Author
    <3>3. QED BY <2>1, <3>1, <3>2, HearParted DEF Transcribed
  <2>5. QED BY <2>3, <2>4
<1>5. CASE UserAnswers(c)
  <2>1. Len(response_mask[c]) > 0
    BY <1>5 DEF UserAnswers, Transcribed
  <2>2. PICK n \in 1..MaxInput : Hear(c, "user", n)
    BY <1>5 DEF UserAnswers
  <2>3. n \in Nat /\ "user" \in Author
    BY SizeAssumption DEF Author
  <2>4. /\ Parted(prompt_ids'[c], response_mask'[c])
        /\ calculate_log_probs => response_logprobs'[c] = response_mask'[c]
        /\ Len(response_mask'[c]) = Len(response_mask[c]) + n
    BY <2>1, <2>2, <2>3, HearParted
  <2>5. state'[c] \in {"terminated", "generating"}
    BY <1>5 DEF UserAnswers, TypeOK
  <2>6. Len(response_mask[c]) \in Nat
    BY DEF TypeOK
  <2>7. Len(response_mask'[c]) > 0
    BY <2>1, <2>3, <2>4, <2>6
  <2>8. QED BY <2>4, <2>5, <2>7 DEF Transcribed
<1>6. QED BY <1>1, <1>2, <1>3, <1>4, <1>5 DEF Converse

LEMMA TranscriptsManage ==
  ASSUME TypeOK, Phases, Transcripts, Manage
  PROVE  Transcripts'
<1>1. CASE UNCHANGED <<state, transcript>>
  BY <1>1 DEF Transcripts, Transcribed, transcript
<1>2. CASE Dispatch
  <2>1. \A c \in Conversation : state[c] = "none" /\ state'[c] = "pending"
    BY <1>2 DEF Dispatch, Phases
  <2>2. UNCHANGED transcript
    BY <1>2 DEF Dispatch
  <2>3. QED BY <2>1, <2>2 DEF Transcripts, Transcribed, transcript
<1>3. CASE Use
  <2>1. \A c \in Conversation :
          /\ prompt_ids'[c] = <<>> /\ response_mask'[c] = <<>> /\ response_logprobs'[c] = <<>>
          /\ state'[c] = "none"
    BY <1>3 DEF Use
  <2>2. Parted(<<>>, <<>>)
    BY SizeAssumption DEF Parted
  <2>3. QED BY <2>1, <2>2 DEF Transcripts, Transcribed
<1>4. Dispatch \/ Use \/ UNCHANGED <<state, transcript>>
  BY DEF Manage, WakeUp, WakeServer, Collect, Raise, SleepServer
<1>5. QED BY <1>1, <1>2, <1>3, <1>4

LEMMA TranscriptsInit == Init => Transcripts
<1>1. Parted(<<>>, <<>>)
  BY SizeAssumption DEF Parted
<1>2. QED BY <1>1 DEF Init, Transcripts, Transcribed

LEMMA TranscriptsStep == TypeOK /\ Phases /\ Transcripts /\ [Next]_vars => Transcripts'
<1> SUFFICES ASSUME TypeOK, Phases, Transcripts, [Next]_vars PROVE Transcripts'
  OBVIOUS
<1>1. CASE UNCHANGED vars
  BY <1>1 DEF Transcripts, Transcribed, vars, transcript
<1>2. ASSUME NEW c \in Conversation, Converse(c) PROVE Transcripts'
  <2>1. Transcribed(c)'
    BY <1>2, TranscribedConverse DEF Transcripts
  <2>2. ASSUME NEW d \in Conversation, d # c PROVE Transcribed(d)'
    BY <1>2, <2>2, OthersAlone DEF Transcripts, Transcribed
  <2>3. QED BY <2>1, <2>2 DEF Transcripts
<1>3. CASE Over
  BY <1>1, <1>3 DEF Over
<1>4. QED BY <1>1, <1>2, <1>3, TranscriptsManage DEF Next

LEMMA TranscriptsCorrect == Spec => []Transcripts
BY TypeCorrect, PhasesInit, PhasesStep, TranscriptsInit, TranscriptsStep, PTL DEF Spec

\* The output of conversation c is cut from two sequences of the same length.
LEMMA CutFacts ==
  ASSUME NEW S, NEW q \in Seq(S), NEW T, NEW r \in Seq(T), Len(q) = Len(r)
  PROVE  /\ Len(Cut(q)) = Len(Cut(r)) /\ DOMAIN Cut(r) = 1..Len(Cut(r))
         /\ Len(Cut(r)) \in Nat /\ Len(Cut(r)) <= Len(r)
         /\ \A i \in 1..Len(Cut(r)) : Cut(q)[i] = q[i] /\ Cut(r)[i] = r[i]
<1> DEFINE n == IF Len(r) < response_length THEN Len(r) ELSE response_length
<1>1. n \in Nat /\ n <= Len(r) /\ n <= Len(q)
  BY SizeAssumption
<1>2. Cut(q) = SubSeq(q, 1, n) /\ Cut(r) = SubSeq(r, 1, n)
  BY DEF Cut
<1> HIDE DEF n
<1>3. Len(SubSeq(q, 1, n)) = n /\ \A i \in 1..n : SubSeq(q, 1, n)[i] = q[i]
  BY <1>1
<1>4. /\ Len(SubSeq(r, 1, n)) = n /\ \A i \in 1..n : SubSeq(r, 1, n)[i] = r[i]
      /\ DOMAIN SubSeq(r, 1, n) = 1..n
  BY <1>1
<1>5. QED BY <1>1, <1>2, <1>3, <1>4

\* Training gets rows whose prompts, responses, masks and log-probabilities are
\* aligned (run of ToolAgentLoop takes the response from the end of the transcript,
\* as many tokens as the mask has; _run_agent_loop pads both to the same length).
THEOREM AlwaysAligned == Spec => []OutputAligned
<1>1. TypeOK /\ Transcripts => OutputAligned
  <2> SUFFICES ASSUME TypeOK, Transcripts, NEW c \in Conversation, state[c] = "terminated"
               PROVE  /\ \A i \in 1..prompt_length : Row(c).prompts[i] \in {"pad", "prompt"}
                      /\ \A i \in 1..response_length :
                           /\ Row(c).responses[i] # "prompt"
                           /\ Row(c).response_mask[i] =
                                IF Row(c).responses[i] = "model" THEN 1 ELSE 0
                      /\ calculate_log_probs => Row(c).logprobs = Row(c).response_mask
    BY DEF OutputAligned
  <2> DEFINE p == prompt_ids[c]
             m == response_mask[c]
             n == Len(m)
             q == SubSeq(p, Len(p) - n + 1, Len(p))
             o == [prompt |-> SubSeq(p, 1, Len(p) - n), response |-> Cut(q),
                   mask |-> Cut(m), logprobs |-> Cut(response_logprobs[c])]
  <2>1. p \in Seq(Author) /\ m \in Seq({0, 1})
    BY DEF TypeOK, Author
  <2>2. /\ Parted(p, m) /\ n > 0
        /\ calculate_log_probs => response_logprobs[c] = m
    BY DEF Transcripts, Transcribed
  <2>3. Output(c) = o
    <3>1. n # 0
      BY <2>2
    <3>2. Last(p, n) = q
      BY <3>1 DEF Last
    <3> HIDE DEF q
    <3>3. QED BY <3>2 DEF Output
  <2> HIDE DEF p, m
  <2>4. Len(p) \in Nat /\ n \in Nat /\ n <= Len(p)
    BY <2>1, <2>2 DEF Parted
  <2>5. /\ Len(o.prompt) = Len(p) - n
        /\ \A i \in 1..Len(o.prompt) : o.prompt[i] = "prompt"
    <3> DEFINE k == Len(p) - n
    <3>1. k \in Nat /\ k <= Len(p)
      BY <2>4
    <3> HIDE DEF k
    <3>2. Len(SubSeq(p, 1, k)) = k /\ \A i \in 1..k : SubSeq(p, 1, k)[i] = p[i]
      BY <2>1, <3>1
    <3>3. \A i \in 1..k : p[i] = "prompt"
      BY <2>2 DEF Parted, k
    <3>4. QED BY <3>2, <3>3 DEF k
  <2>6. q \in Seq(Author) /\ Len(q) = n /\ \A i \in 1..n : q[i] = p[Len(p) - n + i]
    <3> DEFINE k == Len(p) - n
    <3>1. k \in Nat /\ k <= Len(p) /\ Len(p) - k = n
      BY <2>4
    <3>2. q = SubSeq(p, k + 1, Len(p))
      OBVIOUS
    <3> HIDE DEF k, q
    <3>3. /\ SubSeq(p, k + 1, Len(p)) \in Seq(Author) /\ Len(SubSeq(p, k + 1, Len(p))) = Len(p) - k
          /\ \A i \in 1..(Len(p) - k) : SubSeq(p, k + 1, Len(p))[i] = p[k + i]
      BY <2>1, <2>4, <3>1
    <3>4. QED BY <3>1, <3>2, <3>3 DEF k
  <2>7. \A i \in 1..n : (m[i] = 1 <=> q[i] = "model") /\ q[i] # "prompt"
    BY <2>2, <2>6 DEF Parted
  <2> HIDE DEF q
  <2>8. /\ Len(Cut(q)) = Len(Cut(m)) /\ Len(Cut(m)) \in Nat /\ Len(Cut(m)) <= n
        /\ \A i \in 1..Len(Cut(m)) : Cut(q)[i] = q[i] /\ Cut(m)[i] = m[i]
    BY <2>1, <2>6, CutFacts
  <2>9. ASSUME NEW i \in 1..Len(Cut(m))
        PROVE  /\ Cut(m)[i] = IF Cut(q)[i] = "model" THEN 1 ELSE 0
               /\ Cut(q)[i] # "prompt"
    <3>1. i \in 1..n /\ Cut(q)[i] = q[i] /\ Cut(m)[i] = m[i]
      BY <2>4, <2>8
    <3>2. m[i] \in {0, 1}
      BY <2>1, <3>1
    <3>3. QED BY <2>7, <3>1, <3>2
  <2> DEFINE row == Row(c)
  <2>10. row = [prompts       |-> PadLeft(o.prompt, prompt_length, "pad"),
                responses     |-> PadRight(o.response, response_length, "pad"),
                response_mask |-> Attended(PadRight(o.mask, response_length, pad_token_id),
                                           o.response),
                logprobs      |-> PadRight(o.logprobs, response_length, 0)]
    BY <2>3 DEF Row
  <2>11. ASSUME NEW i \in 1..prompt_length PROVE row.prompts[i] \in {"pad", "prompt"}
    <3> DEFINE k == Len(o.prompt)
    <3>1. row.prompts[i] = IF i <= prompt_length - k THEN "pad"
                           ELSE o.prompt[i - (prompt_length - k)]
      <4>1. row.prompts = PadLeft(o.prompt, prompt_length, "pad")
        BY <2>10
      <4> HIDE DEF row, o
      <4>2. QED BY <4>1 DEF PadLeft
    <3>2. k \in Nat /\ prompt_length \in Nat
      BY <2>4, <2>5, SizeAssumption
    <3>3. ~(i <= prompt_length - k) => i - (prompt_length - k) \in 1..k
      BY <3>2
    <3>4. \A j \in 1..k : o.prompt[j] = "prompt"
      BY <2>5
    <3> HIDE DEF k, o, row
    <3>5. QED BY <3>1, <3>3, <3>4
  <2>12. ASSUME NEW i \in 1..response_length
         PROVE  /\ row.responses[i] = IF i <= Len(Cut(m)) THEN Cut(q)[i] ELSE "pad"
                /\ row.response_mask[i] = IF i <= Len(Cut(m)) THEN Cut(m)[i] ELSE 0
    BY <2>8, <2>10 DEF PadRight, Attended
  <2>13. ASSUME NEW i \in 1..response_length
         PROVE  /\ row.responses[i] # "prompt"
                /\ row.response_mask[i] = IF row.responses[i] = "model" THEN 1 ELSE 0
    <3>1. CASE i <= Len(Cut(m))
      <4>1. i \in 1..Len(Cut(m))
        BY <2>8, <3>1, SizeAssumption
      <4> HIDE DEF row
      <4>2. QED BY <2>9, <2>12, <3>1, <4>1
    <3>2. CASE ~(i <= Len(Cut(m)))
      <4> HIDE DEF row
      <4>1. QED BY <2>12, <3>2
    <3>3. QED BY <3>1, <3>2
  <2>14. ASSUME calculate_log_probs PROVE row.logprobs = row.response_mask
    <3>1. o.logprobs = Cut(m)
      BY <2>2, <2>14
    <3>2. /\ row.logprobs = [i \in 1..response_length |-> IF i <= Len(Cut(m)) THEN Cut(m)[i] ELSE 0]
          /\ row.response_mask = [i \in 1..response_length |->
                                    IF i <= Len(Cut(m)) THEN Cut(m)[i] ELSE 0]
      BY <2>8, <2>10, <3>1 DEF PadRight, Attended
    <3>3. QED BY <3>2
  <2>15. QED BY <2>11, <2>13, <2>14
<1>2. QED BY <1>1, TypeCorrect, TranscriptsCorrect, PTL

-----------------------------------------------------------------------------
(* Room for an answer. *)

HeardUser(c) == \E i \in DOMAIN prompt_ids[c] : prompt_ids[c][i] = "user"

\* What lets conversation c ask for an answer.
Roomy(c) == state[c] \in {"generating", "requested", "failed"} =>
              Len(response_mask[c]) < response_length \/ HeardUser(c)

Rooms == \A c \in Conversation : Roomy(c)

LEMMA RoomyConverse ==
  ASSUME TypeOK, Transcripts, NEW c \in Conversation, Roomy(c), Converse(c)
  PROVE  Roomy(c)'
<1>1. CASE Prepare(c)
  <2>1. response_mask[c] = <<>> /\ UNCHANGED response_mask
    BY <1>1 DEF Prepare, Transcripts, Transcribed
  <2>2. QED BY <2>1, SizeAssumption DEF Roomy
<1>2. CASE Request(c) \/ Refuse(c)
  <2>1. state[c] \in {"generating", "requested"} /\ UNCHANGED transcript
    BY <1>2 DEF Request, Refuse
  <2>2. QED BY <2>1 DEF Roomy, HeardUser, transcript
<1>3. CASE Answer(c)
  <2>1. state'[c] \in {"processing_tools", "interacting", "terminated"}
    BY <1>3 DEF Answer, NextStates, TypeOK
  <2>2. QED BY <2>1 DEF Roomy
<1>4. CASE ToolsAnswer(c)
  <2>1. PICK n \in 1..MaxInput :
         IF Overflows(c, n)
         THEN /\ state' = [state EXCEPT ![c] = "terminated"]
              /\ UNCHANGED <<transcript, turns>>
         ELSE /\ state' = [state EXCEPT ![c] = "generating"]
              /\ Hear(c, "tool", n)
    BY <1>4 DEF ToolsAnswer
  <2>2. CASE Overflows(c, n)
    BY <2>1, <2>2 DEF Roomy, TypeOK
  <2>3. CASE ~Overflows(c, n)
    <3>1. n \in Nat /\ "tool" \in Author /\ Hear(c, "tool", n)
      BY <2>1, <2>3, SizeAssumption DEF Author
    <3>2. Transcribed(c) /\ Len(response_mask[c]) > 0
      BY <1>4 DEF ToolsAnswer, Transcripts, Transcribed
    <3>3. Len(response_mask'[c]) = Len(response_mask[c]) + n
      BY <3>1, <3>2, HearParted
    <3>4. Len(response_mask[c]) \in Nat /\ response_length \in Nat
      BY SizeAssumption DEF TypeOK
    <3>5. Len(response_mask'[c]) < response_length
      BY <2>3, <3>1, <3>3, <3>4 DEF Overflows
    <3>6. QED BY <3>5 DEF Roomy
  <2>4. QED BY <2>2, <2>3
<1>5. CASE UserAnswers(c)
  <2>1. PICK n \in 1..MaxInput : Hear(c, "user", n)
    BY <1>5 DEF UserAnswers
  <2>2. n \in Nat /\ n > 0 /\ "user" \in Author
    BY <2>1, SizeAssumption DEF Author
  <2>3. Transcribed(c) /\ Len(response_mask[c]) > 0
    BY <1>5 DEF UserAnswers, Transcripts, Transcribed
  <2>4. prompt_ids'[c] = prompt_ids[c] \o Tokens("user", n)
    BY <2>1, <2>2, <2>3, HearParted
  <2>5. prompt_ids[c] \in Seq(Author)
    BY DEF TypeOK, Author
  <2>6. HeardUser(c)'
    <3> DEFINE q == prompt_ids[c] \o Tokens("user", n)
    <3>1. /\ Tokens("user", n) \in Seq(Author) /\ Len(Tokens("user", n)) = n
          /\ Tokens("user", n)[1] = "user"
      BY <2>2, TokensFacts
    <3>2. Len(prompt_ids[c]) + 1 \in DOMAIN q /\ q[Len(prompt_ids[c]) + 1] = "user"
      BY <2>2, <2>5, <3>1
    <3>3. QED BY <2>4, <3>2 DEF HeardUser
  <2>7. QED BY <2>6 DEF Roomy
<1>6. QED BY <1>1, <1>2, <1>3, <1>4, <1>5 DEF Converse

LEMMA RoomsManage ==
  ASSUME Rooms, Manage
  PROVE  Rooms'
<1>1. CASE UNCHANGED <<state, transcript>>
  BY <1>1 DEF Rooms, Roomy, HeardUser, transcript
<1>2. CASE Dispatch
  BY <1>2 DEF Dispatch, Rooms, Roomy
<1>3. CASE Use
  BY <1>3 DEF Use, Rooms, Roomy
<1>4. Dispatch \/ Use \/ UNCHANGED <<state, transcript>>
  BY DEF Manage, WakeUp, WakeServer, Collect, Raise, SleepServer
<1>5. QED BY <1>1, <1>2, <1>3, <1>4

LEMMA RoomsStep == TypeOK /\ Transcripts /\ Rooms /\ [Next]_vars => Rooms'
<1> SUFFICES ASSUME TypeOK, Transcripts, Rooms, [Next]_vars PROVE Rooms'
  OBVIOUS
<1>1. CASE UNCHANGED vars
  BY <1>1 DEF Rooms, Roomy, HeardUser, vars, transcript
<1>2. ASSUME NEW c \in Conversation, Converse(c) PROVE Rooms'
  <2>1. Roomy(c)'
    BY <1>2, RoomyConverse DEF Rooms
  <2>2. ASSUME NEW d \in Conversation, d # c PROVE Roomy(d)'
    BY <1>2, <2>2, OthersAlone DEF Rooms, Roomy, HeardUser
  <2>3. QED BY <2>1, <2>2 DEF Rooms
<1>3. CASE Over
  BY <1>1, <1>3 DEF Over
<1>4. QED BY <1>1, <1>2, <1>3, RoomsManage DEF Next

\* A conversation without a user is never refused by its server: the length checks of
\* _handle_generating_state and _handle_processing_tools_state leave room for a token.
THEOREM AlwaysRoom == Spec => []RoomForTurns
<1>1. TypeOK /\ Transcripts /\ Rooms => RoomForTurns
  <2> SUFFICES ASSUME TypeOK, Transcripts, Rooms, NEW c \in Conversation,
                      state[c] \in {"generating", "requested", "failed"}, ~HeardUser(c)
               PROVE  HasRoom(c)
    BY DEF RoomForTurns, HeardUser
  <2>1. Len(response_mask[c]) < response_length
    BY DEF Rooms, Roomy
  <2>2. /\ Len(prompt_ids[c]) - Len(response_mask[c]) <= prompt_length
        /\ Len(prompt_ids[c]) \in Nat /\ Len(response_mask[c]) \in Nat
    BY DEF Transcripts, Transcribed, Parted, TypeOK
  <2>3. QED BY <2>1, <2>2, SizeAssumption DEF HasRoom, max_model_len
<1>2. Init => Rooms
  BY DEF Init, Rooms, Roomy
<1>3. QED BY <1>1, <1>2, RoomsStep, TypeCorrect, TranscriptsCorrect, PTL DEF Spec

-----------------------------------------------------------------------------
(* The cache of servers. *)

Entry == [id : Conversation \X Nat, server : Server]
Has(q, e) == \E i \in 1..Len(q) : q[i] = e

\* The entries of a cache of worker w, in the order of use, when batch b is generated:
\* each of a conversation of its own, of this worker, and older batches first.
Filed(q, w, b) ==
  /\ \A i \in 1..Len(q) : q[i].id[1][1] = w /\ q[i].id[2] <= b
  /\ \A i, j \in 1..Len(q) : i < j => q[i].id # q[j].id /\ q[i].id[2] <= q[j].id[2]

\* What is left of a cache without entry i.
LEMMA WithoutFiled ==
  ASSUME NEW q \in Seq(Entry), NEW i \in 1..Len(q), NEW w, NEW b \in Nat, Filed(q, w, b)
  PROVE  /\ Filed(Without(q, i), w, b)
         /\ \A e : Has(Without(q, i), e) => e.id # q[i].id
         /\ \A e : Has(q, e) /\ e.id # q[i].id => Has(Without(q, i), e)
<1> DEFINE r == Without(q, i)
<1>1. /\ Len(r) = Len(q) - 1 /\ Len(q) \in Nat /\ Len(r) \in Nat
      /\ \A k \in 1..Len(r) : r[k] = IF k < i THEN q[k] ELSE q[k + 1]
  <2>1. Len(q) \in Nat /\ i >= 1 /\ i <= Len(q) /\ i \in Nat
    OBVIOUS
  <2>2. /\ Len(r) = Len(q) - 1
        /\ \A k \in 1..(Len(q) - 1) : r[k] = IF k < i THEN q[k] ELSE q[k + 1]
    BY WithoutAt
  <2> HIDE DEF r
  <2> QED BY <2>1, <2>2
<1> HIDE DEF r
<1>2. PICK f : f = [k \in 1..Len(r) |-> IF k < i THEN k ELSE k + 1]
  OBVIOUS
<1>3. \A k \in 1..Len(r) : f[k] \in 1..Len(q) /\ f[k] # i /\ r[k] = q[f[k]]
  BY <1>1, <1>2
<1>4. \A k, m \in 1..Len(r) : k < m => f[k] < f[m]
  BY <1>1, <1>2
<1>5. Filed(r, w, b)
  <2>1. ASSUME NEW k \in 1..Len(r) PROVE r[k].id[1][1] = w /\ r[k].id[2] <= b
    BY <1>3 DEF Filed
  <2>2. ASSUME NEW k \in 1..Len(r), NEW m \in 1..Len(r), k < m
        PROVE  r[k].id # r[m].id /\ r[k].id[2] <= r[m].id[2]
    <3>1. f[k] \in 1..Len(q) /\ f[m] \in 1..Len(q) /\ f[k] < f[m]
      BY <1>3, <1>4, <2>2
    <3>2. q[f[k]].id # q[f[m]].id /\ q[f[k]].id[2] <= q[f[m]].id[2]
      BY <3>1 DEF Filed
    <3>3. r[k] = q[f[k]] /\ r[m] = q[f[m]]
      BY <1>3
    <3> QED BY <3>2, <3>3
  <2> QED BY <2>1, <2>2 DEF Filed
<1>6. ASSUME NEW e, Has(r, e) PROVE e.id # q[i].id
  <2>1. PICK k \in 1..Len(r) : r[k] = e
    BY <1>6 DEF Has
  <2>2. f[k] \in 1..Len(q) /\ f[k] # i /\ e = q[f[k]]
    BY <1>3, <2>1
  <2>3. f[k] < i \/ i < f[k]
    BY <2>2
  <2> QED BY <2>2, <2>3 DEF Filed
<1>7. ASSUME NEW e, Has(q, e), e.id # q[i].id PROVE Has(r, e)
  <2>1. PICK j \in 1..Len(q) : q[j] = e
    BY <1>7 DEF Has
  <2>2. j # i
    BY <1>7, <2>1
  <2>3. PICK k \in 1..Len(r) : k = IF j < i THEN j ELSE j - 1
    BY <1>1, <2>2
  <2>4. r[k] = q[j]
    BY <1>1, <2>2, <2>3
  <2> QED BY <2>1, <2>4 DEF Has
<1> QED BY <1>5, <1>6, <1>7 DEF r

\* The other entries: those of other conversations, all of them, in the same order.
LEMMA OthersFiled ==
  ASSUME NEW q \in Seq(Entry), NEW id, NEW w, NEW b \in Nat, Filed(q, w, b)
  PROVE  /\ Others(q, id) \in Seq(Entry) /\ Len(Others(q, id)) <= Len(q)
         /\ Filed(Others(q, id), w, b)
         /\ \A e : Has(Others(q, id), e) => e.id # id
         /\ \A e : Has(q, e) /\ e.id # id => Has(Others(q, id), e)
<1> DEFINE found == {i \in DOMAIN q : q[i].id = id}
<1>1. DOMAIN q = 1..Len(q) /\ Len(q) \in Nat
  OBVIOUS
<1>2. CASE found = {}
  <2>1. Others(q, id) = q
    BY <1>2 DEF Others
  <2>2. \A e : Has(q, e) => e.id # id
    BY <1>1, <1>2 DEF Has
  <2> QED BY <1>1, <2>1, <2>2
<1>3. CASE found # {}
  <2>1. PICK i : i = CHOOSE k \in found : TRUE
    OBVIOUS
  <2>2. i \in 1..Len(q) /\ q[i].id = id
    BY <1>1, <1>3, <2>1
  <2>3. Others(q, id) = Without(q, i)
    BY <1>3, <2>1 DEF Others
  <2>4. Without(q, i) \in Seq(Entry) /\ Len(Without(q, i)) = Len(q) - 1
    BY <2>2, WithoutAt
  <2>5. /\ Filed(Without(q, i), w, b)
        /\ \A e : Has(Without(q, i), e) => e.id # q[i].id
        /\ \A e : Has(q, e) /\ e.id # q[i].id => Has(Without(q, i), e)
    BY <2>2, WithoutFiled
  <2> QED BY <1>1, <2>2, <2>3, <2>4, <2>5
<1> QED BY <1>2, <1>3

\* A cache as large as a chunk is not full of other conversations of this batch.
LEMMA NotCrowded ==
  ASSUME NEW q \in Seq(Entry), NEW w, NEW b \in Nat, Filed(q, w, b), Len(q) = MaxCache,
         ChunkSize <= MaxCache, NEW c \in Conversation, c[1] = w,
         \A e : Has(q, e) => e.id # <<c, b>>
  PROVE  q[1].id[2] # b
<1> SUFFICES ASSUME q[1].id[2] = b PROVE FALSE
  OBVIOUS
<1>1. MaxCache \in Nat \ {0} /\ ChunkSize \in Nat \ {0}
  BY SizeAssumption
<1>2. \A i \in 1..MaxCache : q[i] \in Entry
  BY <1>1
<1>3. ASSUME NEW i \in 1..MaxCache
      PROVE  /\ q[i].id \in Conversation \X Nat
             /\ q[i].id = <<q[i].id[1], b>> /\ q[i].id[1] = <<w, q[i].id[1][2]>>
             /\ q[i].id[1][2] \in 1..ChunkSize
             /\ q[i].id[1] # c
  <2>1. q[i].id \in Conversation \X Nat
    BY <1>2 DEF Entry
  <2>2. q[1].id \in Conversation \X Nat /\ 1 \in 1..MaxCache
    BY <1>1, <1>2 DEF Entry
  <2>3. q[i].id[2] <= b /\ q[i].id[1][1] = w /\ (1 < i => q[1].id[2] <= q[i].id[2])
    BY <2>2 DEF Filed
  <2>4. q[i].id[2] \in Nat /\ q[i].id = <<q[i].id[1], q[i].id[2]>> /\ q[i].id[1] \in Conversation
    BY ONLY <2>1
  <2>5. q[i].id[2] = b
    BY <1>1, <2>3, <2>4
  <2>6. q[i].id[1] = <<q[i].id[1][1], q[i].id[1][2]>> /\ q[i].id[1][2] \in 1..ChunkSize
    BY <2>4 DEF Conversation
  <2>7. q[i].id # <<c, b>>
    BY <1>1 DEF Has
  <2> QED BY <2>1, <2>3, <2>4, <2>5, <2>6, <2>7
<1>4. c = <<w, c[2]>> /\ c[2] \in 1..ChunkSize
  BY DEF Conversation
<1>5. PICK h : h = [i \in 0..MaxCache |-> IF i = 0 THEN c[2] ELSE q[i].id[1][2]]
  OBVIOUS
<1>6. h \in [0..MaxCache -> 1..ChunkSize]
  BY <1>1, <1>3, <1>4, <1>5
<1>7. ASSUME NEW i \in 0..MaxCache, NEW j \in 0..MaxCache, i < j PROVE h[i] # h[j]
  <2>1. j \in 1..MaxCache /\ h[j] = q[j].id[1][2]
    BY <1>1, <1>5, <1>7
  <2>2. CASE i = 0
    <3>1. h[i] = c[2]
      BY <1>5, <2>2
    <3>2. q[j].id[1] = <<w, q[j].id[1][2]>> /\ q[j].id[1] # c
      BY <1>3, <2>1
    <3> QED BY <1>4, <2>1, <3>1, <3>2
  <2>3. CASE i # 0
    <3>1. i \in 1..MaxCache /\ h[i] = q[i].id[1][2]
      BY <1>1, <1>5, <2>3
    <3>2. q[i].id # q[j].id
      BY <1>7, <2>1, <3>1 DEF Filed
    <3>3. /\ q[i].id = <<q[i].id[1], b>> /\ q[i].id[1] = <<w, q[i].id[1][2]>>
          /\ q[j].id = <<q[j].id[1], b>> /\ q[j].id[1] = <<w, q[j].id[1][2]>>
      BY <1>3, <2>1, <3>1
    <3> QED BY <2>1, <3>1, <3>2, <3>3
  <2> QED BY <2>2, <2>3
<1>8. /\ IsFiniteSet(0..MaxCache) /\ Cardinality(0..MaxCache) = MaxCache + 1
      /\ IsFiniteSet(1..ChunkSize) /\ Cardinality(1..ChunkSize) = ChunkSize
  <2>1. 0 \in Int /\ 1 \in Int /\ MaxCache \in Int /\ ChunkSize \in Int
        /\ ~(0 > MaxCache) /\ ~(1 > ChunkSize)
    BY ONLY <1>1
  <2>2. IsFiniteSet(0..MaxCache) /\ Cardinality(0..MaxCache) = MaxCache - 0 + 1
    BY ONLY <2>1, FS_Interval
  <2>3. IsFiniteSet(1..ChunkSize) /\ Cardinality(1..ChunkSize) = ChunkSize - 1 + 1
    BY ONLY <2>1, FS_Interval
  <2> QED BY ONLY <1>1, <2>2, <2>3
<1>9. \E i, j \in 0..MaxCache : i # j /\ h[i] = h[j]
  <2>1. Cardinality(1..ChunkSize) < Cardinality(0..MaxCache)
    BY <1>1, <1>8
  <2> QED BY ONLY <1>6, <1>8, <2>1, FS_PigeonHole
<1>10. PICK i \in 0..MaxCache, j \in 0..MaxCache : i # j /\ h[i] = h[j]
  BY <1>9
<1>11. i < j \/ j < i
  BY <1>1, <1>10
<1> QED BY <1>7, <1>10, <1>11

\* The cache after a request of conversation c: its entry is there, and so are those
\* of the other conversations of the batch.
LEMMA RememberFiled ==
  ASSUME NEW q \in Seq(Entry), NEW b \in Nat, NEW c \in Conversation, Filed(q, c[1], b),
         Len(q) <= MaxCache, ChunkSize <= MaxCache, NEW s \in Server
  PROVE  /\ Filed(Remember(q, <<c, b>>, s), c[1], b)
         /\ Has(Remember(q, <<c, b>>, s), [id |-> <<c, b>>, server |-> s])
         /\ \A e : Has(q, e) /\ e.id # <<c, b>> /\ e.id[2] = b =>
              Has(Remember(q, <<c, b>>, s), e)
<1> DEFINE id == <<c, b>>
           new == [id |-> id, server |-> s]
           w == c[1]
<1>1. PICK o : o = Others(q, id)
  OBVIOUS
<1>2. /\ o \in Seq(Entry) /\ Len(o) <= Len(q) /\ Filed(o, w, b)
      /\ \A e : Has(o, e) => e.id # id
      /\ \A e : Has(q, e) /\ e.id # id => Has(o, e)
  BY <1>1, OthersFiled
<1>3. PICK t : t = IF Len(o) = MaxCache THEN Tail(o) ELSE o
  OBVIOUS
<1>4. Remember(q, id, s) = Append(t, new)
  BY <1>1, <1>3 DEF Remember
<1>5. MaxCache \in Nat \ {0} /\ Len(q) \in Nat /\ Len(o) \in Nat
  BY <1>2, SizeAssumption
<1>6. new.id = id /\ id[1] = c /\ id[2] = b
  OBVIOUS
<1> HIDE DEF id, new
<1>7. /\ t \in Seq(Entry) /\ Filed(t, w, b) /\ \A e : Has(t, e) => e.id # id
      /\ \A e : Has(o, e) /\ e.id[2] = b => Has(t, e)
  <2>1. CASE Len(o) = MaxCache
    <3>1. /\ t \in Seq(Entry) /\ Len(t) = Len(o) - 1 /\ \A i \in 1..(Len(o) - 1) : t[i] = o[i + 1]
      BY <1>2, <1>3, <1>5, <2>1
    <3>2. o[1].id[2] # b
      BY <1>2, <2>1, NotCrowded DEF id
    <3>3. \A i \in 1..Len(t) : i + 1 \in 1..Len(o) /\ t[i] = o[i + 1]
      BY <1>5, <3>1
    <3>4. \A i, j \in 1..Len(t) : i < j => i + 1 < j + 1
      OBVIOUS
    <3>5. Filed(t, w, b)
      <4>1. ASSUME NEW i \in 1..Len(t) PROVE t[i].id[1][1] = w /\ t[i].id[2] <= b
        <5>1. o[i + 1].id[1][1] = w /\ o[i + 1].id[2] <= b
          BY <1>2, <3>3 DEF Filed
        <5> QED BY <3>3, <5>1
      <4>2. ASSUME NEW i \in 1..Len(t), NEW j \in 1..Len(t), i < j
            PROVE  t[i].id # t[j].id /\ t[i].id[2] <= t[j].id[2]
        <5>1. o[i + 1].id # o[j + 1].id /\ o[i + 1].id[2] <= o[j + 1].id[2]
          BY <1>2, <3>3, <3>4, <4>2 DEF Filed
        <5> QED BY <3>3, <5>1
      <4> QED BY <4>1, <4>2 DEF Filed
    <3>6. ASSUME NEW e, Has(t, e) PROVE e.id # id
      <4>1. Has(o, e)
        BY <3>3, <3>6 DEF Has
      <4> QED BY <1>2, <4>1
    <3>7. ASSUME NEW e, Has(o, e), e.id[2] = b PROVE Has(t, e)
      <4>1. PICK i \in 1..Len(o) : o[i] = e
        BY <3>7 DEF Has
      <4>2. i # 1
        BY <3>2, <3>7, <4>1
      <4>3. i - 1 \in 1..Len(t) /\ (i - 1) + 1 = i
        BY <1>5, <3>1, <4>2
      <4> QED BY <3>3, <4>1, <4>3 DEF Has
    <3> QED BY <3>1, <3>5, <3>6, <3>7
  <2>2. CASE Len(o) # MaxCache
    BY <1>2, <1>3, <2>2
  <2> QED BY <2>1, <2>2
<1>8. PICK r : r = Append(t, new)
  OBVIOUS
<1>9. Len(t) \in Nat /\ Len(r) = Len(t) + 1 /\ r[Len(t) + 1] = new
      /\ \A i \in 1..Len(t) : r[i] = t[i]
  <2>1. t \in Seq(Entry)
    BY <1>7
  <2> QED BY ONLY <2>1, <1>8, AppendProperties
<1>10. Filed(r, w, b)
  <2>1. ASSUME NEW i \in 1..Len(r) PROVE r[i].id[1][1] = w /\ r[i].id[2] <= b
    <3>1. CASE i = Len(t) + 1
      BY <1>6, <1>9, <3>1
    <3>2. CASE i # Len(t) + 1
      <4>1. i \in 1..Len(t)
        BY <1>9, <3>2
      <4> QED BY <1>7, <1>9, <4>1 DEF Filed
    <3> QED BY <3>1, <3>2
  <2>2. ASSUME NEW i \in 1..Len(r), NEW j \in 1..Len(r), i < j
        PROVE  r[i].id # r[j].id /\ r[i].id[2] <= r[j].id[2]
    <3>1. i \in 1..Len(t) /\ r[i] = t[i]
      BY <1>9, <2>2
    <3>2. CASE j = Len(t) + 1
      <4>1. r[j].id = id /\ r[j].id[2] = b
        BY <1>6, <1>9, <3>2
      <4>2. Has(t, t[i])
        BY <3>1 DEF Has
      <4> QED BY <1>7, <3>1, <4>1, <4>2 DEF Filed
    <3>3. CASE j # Len(t) + 1
      <4>1. j \in 1..Len(t) /\ r[j] = t[j]
        BY <1>9, <3>3
      <4> QED BY <1>7, <2>2, <3>1, <4>1 DEF Filed
    <3> QED BY <3>2, <3>3
  <2> QED BY <2>1, <2>2 DEF Filed
<1>11. Has(r, new)
  BY <1>9 DEF Has
<1>12. ASSUME NEW e, Has(q, e), e.id # id, e.id[2] = b PROVE Has(r, e)
  <2>1. Has(t, e)
    BY <1>2, <1>7, <1>12
  <2>2. PICK i \in 1..Len(t) : t[i] = e
    BY <2>1 DEF Has
  <2>3. i \in 1..Len(r) /\ r[i] = e
    BY <1>9, <2>2
  <2> QED BY <2>3 DEF Has
<1> QED BY <1>4, <1>8, <1>10, <1>11, <1>12 DEF id, new

\* The cache of the worker has the server of the conversation's last request.
Held(c) == Has(cache[c[1]], [id |-> Id(c), server |-> server[c]])
Begun(c) == assistant_turns[c] > 0 \/ state[c] = "requested"

Sessions ==
  /\ \A w \in Worker : Filed(cache[w], w, batch)
  /\ \A c \in Conversation : Begun(c) => Held(c)

LEMMA CacheType ==
  ASSUME TypeOK, NEW c \in Conversation
  PROVE  /\ c[1] \in Worker /\ batch \in Nat /\ server[c] \in Server
         /\ cache[c[1]] \in Seq(Entry) /\ Len(cache[c[1]]) <= MaxCache
BY DEF TypeOK, Conversation, Entry

LEMMA RequestSticks ==
  ASSUME TypeOK, Sessions, ChunkSize <= MaxCache, NEW c \in Conversation, Request(c)
  PROVE  Sessions' /\ (Held(c) => server'[c] = server[c])
<1> DEFINE w == c[1]
           q == cache[c[1]]
<1>1. PICK s \in IF Remembered(c) # {} THEN Remembered(c) ELSE LeastUsed(c[1]) :
        /\ server' = [server EXCEPT ![c] = s]
        /\ cache' = [cache EXCEPT ![c[1]] = Remember(@, Id(c), s)]
  BY DEF Request
<1>2. s \in Server
  BY <1>1, ChosenServer
<1>3. /\ w \in Worker /\ batch \in Nat /\ q \in Seq(Entry) /\ Len(q) <= MaxCache
      /\ Filed(q, w, batch)
  BY CacheType DEF Sessions
<1>4. /\ batch' = batch /\ assistant_turns' = assistant_turns
      /\ state' = [state EXCEPT ![c] = "requested"]
  BY DEF Request, rollout, turns
<1>5. PICK r : r = Remember(q, <<c, batch>>, s)
  OBVIOUS
<1>6. /\ Filed(r, w, batch) /\ Has(r, [id |-> <<c, batch>>, server |-> s])
      /\ \A e : Has(q, e) /\ e.id # <<c, batch>> /\ e.id[2] = batch => Has(r, e)
  BY <1>2, <1>3, <1>5, RememberFiled
<1>7. /\ cache'[w] = r /\ \A v \in Worker : v # w => cache'[v] = cache[v]
      /\ server'[c] = s /\ \A d \in Conversation : d # c => server'[d] = server[d]
  BY <1>1, <1>3, <1>5 DEF TypeOK, Id
<1>8. \A v \in Worker : Filed(cache'[v], v, batch')
  BY <1>4, <1>6, <1>7 DEF Sessions
<1>9. ASSUME NEW d \in Conversation, Begun(d)' PROVE Held(d)'
  <2>1. CASE d = c
    BY <1>4, <1>6, <1>7, <2>1 DEF Held, Id
  <2>2. CASE d # c
    <3>1. Begun(d)
      BY <1>4, <1>9, <2>2 DEF Begun, TypeOK
    <3>2. PICK e : e = [id |-> <<d, batch>>, server |-> server[d]]
      OBVIOUS
    <3>3. e.id = <<d, batch>> /\ e.id[2] = batch /\ e.id # <<c, batch>>
      BY <2>2, <3>2
    <3>4. Has(cache[d[1]], e)
      BY <3>1, <3>2 DEF Sessions, Held, Id
    <3>5. Has(cache'[d[1]], e)
      <4>1. CASE d[1] = w
        BY <1>6, <1>7, <3>3, <3>4, <4>1
      <4>2. CASE d[1] # w
        BY <1>7, <3>4, <4>2, CacheType
      <4> QED BY <4>1, <4>2
    <3> QED BY <1>4, <1>7, <2>2, <3>2, <3>5 DEF Held, Id
  <2> QED BY <2>1, <2>2
<1>10. ASSUME Held(c) PROVE server'[c] = server[c]
  <2>1. PICK i \in 1..Len(q) : q[i] = [id |-> Id(c), server |-> server[c]]
    BY <1>10 DEF Held, Has
  <2>2. q[i].id = Id(c) /\ q[i].server = server[c]
    BY <2>1
  <2>3. DOMAIN q = 1..Len(q) /\ Len(q) \in Nat
    BY <1>3
  <2>4. Remembered(c) # {}
    BY <2>2, <2>3 DEF Remembered
  <2>5. PICK j \in 1..Len(q) : q[j].id = Id(c) /\ s = q[j].server
    BY <1>1, <2>3, <2>4 DEF Remembered
  <2>6. i = j
    <3>1. i < j \/ j < i \/ i = j
      BY <2>3
    <3> QED BY <1>3, <2>2, <2>5, <3>1 DEF Filed
  <2> QED BY <1>7, <2>2, <2>5, <2>6
<1> QED BY <1>8, <1>9, <1>10 DEF Sessions

\* Nothing else changes a cache.
LEMMA SessionsConverse ==
  ASSUME TypeOK, Sessions, ChunkSize <= MaxCache, NEW c \in Conversation, Converse(c)
  PROVE  Sessions' /\ \A d \in Conversation : assistant_turns[d] > 0 /\ state'[d] = "requested" =>
                        server'[d] = server[d]
<1>1. CASE Request(c)
  <2>1. Sessions' /\ (Held(c) => server'[c] = server[c])
    BY <1>1, RequestSticks
  <2>2. \A d \in Conversation : d # c => server'[d] = server[d]
    BY <1>1 DEF Request, TypeOK
  <2>3. assistant_turns[c] > 0 => Held(c)
    BY DEF Sessions, Begun
  <2> QED BY <2>1, <2>2, <2>3
<1>2. CASE ~Request(c)
  <2>1. Prepare(c) \/ Answer(c) \/ Refuse(c) \/ ToolsAnswer(c) \/ UserAnswers(c)
    BY <1>2 DEF Converse
  <2>2. cache' = cache /\ server' = server /\ batch' = batch
    BY <2>1 DEF Prepare, Answer, Refuse, ToolsAnswer, UserAnswers, rollout, routing
  <2>3. ASSUME NEW d \in Conversation, Begun(d)' PROVE Begun(d)
    <3>1. CASE Prepare(c)
      BY <2>3, <3>1 DEF Prepare, Begun, TypeOK, turns
    <3>2. CASE Answer(c)
      <4>1. PICK next \in {"terminated"} \cup NextStates : state' = [state EXCEPT ![c] = next]
        BY <3>2 DEF Answer
      <4>2. state[c] = "requested" /\ assistant_turns' = [assistant_turns EXCEPT ![c] = @ + 1]
        BY <3>2 DEF Answer
      <4>3. CASE d = c
        BY <4>2, <4>3 DEF Begun
      <4>4. CASE d # c
        BY <2>3, <4>1, <4>2, <4>4 DEF Begun, TypeOK
      <4> QED BY <4>3, <4>4
    <3>3. CASE Refuse(c)
      BY <2>3, <3>3 DEF Refuse, Begun, TypeOK, turns
    <3>4. CASE ToolsAnswer(c)
      BY <2>3, <3>4 DEF ToolsAnswer, Hear, Begun, TypeOK, turns
    <3>5. CASE UserAnswers(c)
      BY <2>3, <3>5 DEF UserAnswers, Hear, Begun, TypeOK
    <3> QED BY <2>1, <3>1, <3>2, <3>3, <3>4, <3>5
  <2>4. Sessions'
    BY <2>2, <2>3 DEF Sessions, Held, Has, Id, Filed
  <2> QED BY <2>2, <2>4
<1> QED BY <1>1, <1>2

LEMMA SessionsManage ==
  ASSUME TypeOK, Sessions, Manage
  PROVE  Sessions' /\ server' = server
<1>1. cache' = cache /\ server' = server /\ batch' \in {batch, batch + 1}
  BY DEF Manage, WakeUp, WakeServer, Dispatch, Collect, Raise, SleepServer, Use, routing
<1>2. \A w \in Worker : Filed(cache[w], w, batch')
  <2> SUFFICES ASSUME NEW w \in Worker PROVE Filed(cache[w], w, batch')
    OBVIOUS
  <2>1. batch \in Nat /\ cache[w] \in Seq(Entry) /\ Filed(cache[w], w, batch)
    BY DEF TypeOK, Entry, Sessions
  <2>2. \A i \in 1..Len(cache[w]) : cache[w][i] \in Entry
    BY <2>1
  <2>3. \A i \in 1..Len(cache[w]) : cache[w][i].id[2] \in Nat
    BY <2>2 DEF Entry
  <2> QED BY <1>1, <2>1, <2>3 DEF Filed
<1>3. ASSUME NEW c \in Conversation, Begun(c)' PROVE Held(c)'
  <2>1. CASE batch' = batch
    <3>1. Begun(c)
      BY <1>3, <2>1 DEF Manage, WakeUp, WakeServer, Dispatch, Collect, Raise, SleepServer, Use,
                        turns, Begun, TypeOK
    <3> QED BY <1>1, <2>1, <3>1 DEF Sessions, Held, Id
  <2>2. CASE batch' # batch
    <3>1. Use
      BY <2>2 DEF Manage, WakeUp, WakeServer, Dispatch, Collect, Raise, SleepServer
    <3> QED BY <1>3, <3>1 DEF Use, Begun
  <2> QED BY <2>1, <2>2
<1> QED BY <1>1, <1>2, <1>3 DEF Sessions

LEMMA SessionsInit == Init => Sessions
<1> SUFFICES ASSUME Init PROVE Sessions
  OBVIOUS
<1>1. \A w \in Worker : cache[w] = <<>> /\ Len(<<>>) = 0
  BY DEF Init
<1>2. \A w \in Worker : Filed(cache[w], w, batch)
  BY <1>1 DEF Filed
<1>3. \A c \in Conversation : ~Begun(c)
  BY DEF Init, Begun
<1> QED BY <1>2, <1>3 DEF Sessions

LEMMA SessionsStep ==
  ASSUME TypeOK, Sessions, ChunkSize <= MaxCache, [Next]_vars
  PROVE  Sessions' /\ \A c \in Conversation : assistant_turns[c] > 0 /\ state'[c] = "requested" =>
                        server'[c] = server[c]
<1>1. CASE UNCHANGED vars
  <2>1. /\ cache' = cache /\ server' = server /\ batch' = batch /\ state' = state
        /\ assistant_turns' = assistant_turns
    BY <1>1 DEF vars, rollout, routing, turns
  <2> QED BY <2>1 DEF Sessions, Begun, Held, Id
<1>2. CASE Over
  <2>1. UNCHANGED vars
    BY <1>2 DEF Over
  <2> QED BY <1>1, <2>1
<1>3. CASE Manage
  BY <1>3, SessionsManage
<1>4. CASE \E c \in Conversation : Converse(c)
  BY <1>4, SessionsConverse
<1> QED BY <1>1, <1>2, <1>3, <1>4 DEF Next

\* The turns of a conversation all go to one server, however the other conversations
\* of its worker use the cache and however many batches came before, if the cache
\* holds a chunk (AsyncLLMServerManager._choose_server).
THEOREM StaysWithServer == ChunkSize <= MaxCache => (Spec => StickySession)
<1> SUFFICES ASSUME ChunkSize <= MaxCache PROVE Spec => StickySession
  OBVIOUS
<1>1. TypeOK /\ Sessions /\ [Next]_vars => Sessions'
  BY SessionsStep
<1>2. TypeOK /\ Sessions /\ [Next]_vars =>
        [\A c \in Conversation : (assistant_turns[c] > 0 /\ state'[c] = "requested") =>
           server'[c] = server[c]]_vars
  BY SessionsStep
<1> QED BY <1>1, <1>2, SessionsInit, TypeCorrect, PTL DEF Spec, StickySession
=============================================================================
