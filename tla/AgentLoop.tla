------------------------------ MODULE AgentLoop ------------------------------
(***************************************************************************)
(* Rollout with agent loops: the driver's AgentLoopManager wakes the       *)
(* inference servers, hands one chunk of the batch to every worker, and    *)
(* puts the servers to sleep when all have returned                        *)
(* (verl/experimental/agent_loop/agent_loop.py).  A worker runs the        *)
(* conversations of its chunk as concurrent coroutines, each of them the   *)
(* state machine of ToolAgentLoop (tool_agent_loop.py in the same place)   *)
(* or the one exchange of SingleTurnAgentLoop, and chooses a server for    *)
(* each request.                                                           *)
(*                                                                         *)
(* A coroutine runs alone between two awaits, so one action is what it     *)
(* does from the answer it waited for to its next await.  A token is its   *)
(* author.  Parallel tool calls are one await: their creation, execution   *)
(* and release touch nothing that is modelled.  A tool always answers (its *)
(* exceptions become a text).  The servers are vLLM ones of the hybrid     *)
(* engine with free_cache_engine.                                          *)
(***************************************************************************)
EXTENDS Integers, Sequences, FiniteSets

CONSTANTS
  Worker,               \* the agent loop workers
  ChunkSize,            \* conversations of one chunk
  Server,               \* the rollout replicas
  MaxCache,             \* max_cache_size of a worker's server manager
  prompt_length, response_length,
  max_assistant_turns, max_user_turns, \* 0 stands for null: no limit
  interactions,         \* is there an interaction_config_file?
  calculate_log_probs,
  AgentNames,           \* the agent_name columns a batch can have
  MaxInput,             \* bound: tokens of one answer of a tool or a user
  MaxBatch              \* bound: batches

ASSUME SizeAssumption ==
  /\ IsFiniteSet(Worker) /\ IsFiniteSet(Server) /\ Server # {}
  /\ ChunkSize \in Nat \ {0} /\ MaxCache \in Nat \ {0}
  /\ prompt_length \in Nat \ {0} /\ response_length \in Nat \ {0}
  /\ max_assistant_turns \in Nat /\ max_user_turns \in Nat
  /\ interactions \in BOOLEAN /\ calculate_log_probs \in BOOLEAN
  /\ MaxInput \in Nat \ {0} /\ MaxBatch \in Nat

VARIABLES
  driver,     \* "training", "waking", "rollout", "resting" or "failed"
  step,       \* global_steps: also the version of the actor's weights
  batch,      \* batches generated, for training or not
  awake,      \* the servers that are awake
  loaded,     \* loaded[s]: version of the weights in server s
  counts,     \* counts[w][s]: the weight of s in weighted_serveres of worker w
  cache,      \* cache[w]: request_id_to_server of worker w, least recent first
  agent,      \* agent[c]: agent_name of conversation c
  state,      \* state[c]: AgentState, "requested" in the await of generate
  server,     \* server[c]: where the last request of c went
  prompt_ids, response_mask, response_logprobs,
  assistant_turns, user_turns

rollout == <<driver, step, batch, agent, awake, loaded>>
routing == <<counts, cache, server>>
transcript == <<prompt_ids, response_mask, response_logprobs>>
turns == <<assistant_turns, user_turns>>
vars == <<rollout, routing, state, transcript, turns>>

-----------------------------------------------------------------------------
\* A conversation: its worker, and its place in the chunk.
Conversation == Worker \X (1..ChunkSize)

ASSUME NamesAssumption ==
  AgentNames \subseteq [Conversation -> {"tool_agent", "single_turn_agent"}]

max_model_len == prompt_length + response_length

Tokens(author, n) == [i \in 1..n |-> author]

Running == driver # "failed"

-----------------------------------------------------------------------------
(* The driver: generate_sequences of AgentLoopManager, and what is around. *)

WakeUp ==
  /\ driver = "training" /\ batch < MaxBatch
  /\ driver' = "waking"
  /\ UNCHANGED <<step, batch, agent, awake, loaded, routing, state, transcript, turns>>

\* A server of the hybrid engine gets the weights of the actor when it wakes.
WakeServer(s) ==
  /\ driver = "waking" /\ s \notin awake
  /\ awake' = awake \cup {s}
  /\ loaded' = [loaded EXCEPT ![s] = step]
  /\ UNCHANGED <<driver, step, batch, agent, routing, state, transcript, turns>>

\* When the chunks are sent.  (Faulty variant: when a first server is awake.)
SomeAwake == awake # {}
AllAwake == awake = Server

\* Every worker creates the tasks of its chunk, with the agent loop each row names.
Dispatch ==
  /\ driver = "waking" /\ AllAwake
  /\ driver' = "rollout"
  /\ agent' \in AgentNames
  /\ state' = [c \in Conversation |-> "pending"]
  /\ UNCHANGED <<step, batch, awake, loaded, routing, transcript, turns>>

\* The driver has the batch when every conversation has ended.
Collect ==
  /\ driver = "rollout" /\ \A c \in Conversation : state[c] = "terminated"
  /\ driver' = "resting"
  /\ UNCHANGED <<step, batch, agent, awake, loaded, routing, state, transcript, turns>>

\* The exception of a conversation is raised by ray.get and ends the job; the
\* servers are not put to sleep.
Raise ==
  /\ driver = "rollout" /\ \E c \in Conversation : state[c] = "failed"
  /\ driver' = "failed"
  /\ UNCHANGED <<step, batch, agent, awake, loaded, routing, state, transcript, turns>>

\* A replica waits for its requests to drain before it sleeps.
SleepServer(s) ==
  /\ driver = "resting" /\ s \in awake
  /\ \A c \in Conversation : state[c] = "requested" => server[c] # s
  /\ awake' = awake \ {s}
  /\ UNCHANGED <<driver, step, batch, agent, loaded, routing, state, transcript, turns>>

\* The conversations are gone: the actor is updated with the batch, or it was a
\* batch of _validate or the baselines of REMAX, and the weights stay.
Use ==
  /\ driver = "resting" /\ awake = {}
  /\ driver' = "training" /\ batch' = batch + 1
  /\ step' \in {step, step + 1}
  /\ state' = [c \in Conversation |-> "none"]
  /\ prompt_ids' = [c \in Conversation |-> <<>>]
  /\ response_mask' = [c \in Conversation |-> <<>>]
  /\ response_logprobs' = [c \in Conversation |-> <<>>]
  /\ assistant_turns' = [c \in Conversation |-> 0]
  /\ user_turns' = [c \in Conversation |-> 0]
  /\ UNCHANGED <<agent, awake, loaded, routing>>

-----------------------------------------------------------------------------
(* AsyncLLMServerManager: which server gets a request.                     *)

\* Every conversation has a request_id of its own, in every batch.
Id(c) == <<c, batch>>

Remembered(c) ==
  {cache[c[1]][i].server : i \in {j \in DOMAIN cache[c[1]] : cache[c[1]][j].id = Id(c)}}

\* The top of the heap.
LeastUsed(w) == {s \in Server : \A t \in Server : counts[w][s] <= counts[w][t]}

\* LRUCache: an entry that is used becomes the most recent one, and a new one takes
\* the place of the least recent one when the cache is full.  (Faulty variant:
\* it is full one entry too early.)
Without(q, i) == SubSeq(q, 1, i - 1) \o SubSeq(q, i + 1, Len(q))
Others(q, id) ==
  LET found == {i \in DOMAIN q : q[i].id = id}
  IN IF found = {} THEN q ELSE Without(q, CHOOSE i \in found : TRUE)
RememberFewer(q, id, s) ==
  LET others == Others(q, id)
  IN Append(IF others # <<>> /\ Len(others) + 1 >= MaxCache THEN Tail(others) ELSE others,
            [id |-> id, server |-> s])
Remember(q, id, s) ==
  LET others == Others(q, id)
  IN Append(IF Len(others) = MaxCache THEN Tail(others) ELSE others,
            [id |-> id, server |-> s])

\* A request is sent: to the server the conversation has used, or to the one that
\* has been given the fewest conversations.
Request(c) ==
  /\ Running /\ state[c] = "generating"
  /\ \E s \in IF Remembered(c) # {} THEN Remembered(c) ELSE LeastUsed(c[1]) :
       /\ server' = [server EXCEPT ![c] = s]
       /\ cache' = [cache EXCEPT ![c[1]] = Remember(@, Id(c), s)]
       /\ counts' = IF Remembered(c) # {} THEN counts
                    ELSE [counts EXCEPT ![c[1]][s] = @ + 1]
  /\ state' = [state EXCEPT ![c] = "requested"]
  /\ UNCHANGED <<rollout, transcript, turns>>

-----------------------------------------------------------------------------
(* ToolAgentLoop: the state machine of a conversation.                     *)

\* _handle_pending_state.  The dataset leaves out prompts beyond prompt_length.
Prepare(c) ==
  /\ Running /\ state[c] = "pending"
  /\ \E n \in 1..prompt_length :
       prompt_ids' = [prompt_ids EXCEPT ![c] = Tokens("prompt", n)]
  /\ state' = [state EXCEPT ![c] = "generating"]
  /\ UNCHANGED <<rollout, routing, response_mask, response_logprobs, turns>>

\* The log-probabilities after n tokens that the model has not written: padded,
\* if there are any.  (Faulty variant: left alone.)
Unpadded(logprobs, n) == logprobs
Padded(logprobs, n) == IF logprobs = <<>> THEN <<>> ELSE logprobs \o Tokens(0, n)

\* Tokens of somebody else go on the transcript.
Hear(c, author, n) ==
  /\ prompt_ids' = [prompt_ids EXCEPT ![c] = @ \o Tokens(author, n)]
  /\ response_mask' = [response_mask EXCEPT ![c] = @ \o Tokens(0, n)]
  /\ response_logprobs' = [response_logprobs EXCEPT ![c] = Padded(@, n)]
  /\ user_turns' = [user_turns EXCEPT ![c] = @ + 1]
  /\ UNCHANGED assistant_turns

\* SingleTurnAgentLoop: one prompt, one request, and its answer ends it.
OneTurn(c) == agent[c] = "single_turn_agent"

\* The termination conditions after an answer of n tokens.
Enough(c, n) ==
  \/ OneTurn(c)
  \/ Len(response_mask[c]) + n >= response_length
  \/ max_assistant_turns > 0 /\ assistant_turns[c] + 1 >= max_assistant_turns
  \/ max_user_turns > 0 /\ user_turns[c] >= max_user_turns

\* Where a conversation goes that is not over: the answer calls tools, or not.
NextStates == {"processing_tools", IF interactions THEN "interacting" ELSE "terminated"}

HasRoom(c) == Len(prompt_ids[c]) < max_model_len

\* _handle_generating_state, from the server's answer on: at least one token (the
\* end-of-sequence token counts), at most max_tokens.
Answer(c) ==
  /\ Running /\ state[c] = "requested" /\ HasRoom(c)
  /\ \E n \in 1..(max_model_len - Len(prompt_ids[c])) :
       /\ prompt_ids' = [prompt_ids EXCEPT ![c] = @ \o Tokens("model", n)]
       /\ response_mask' = [response_mask EXCEPT ![c] = @ \o Tokens(1, n)]
       /\ response_logprobs' = IF calculate_log_probs
                               THEN [response_logprobs EXCEPT ![c] = @ \o Tokens(1, n)]
                               ELSE response_logprobs
       /\ \E next \in IF Enough(c, n) THEN {"terminated"} ELSE NextStates :
            state' = [state EXCEPT ![c] = next]
  /\ assistant_turns' = [assistant_turns EXCEPT ![c] = @ + 1]
  /\ UNCHANGED <<rollout, routing, user_turns>>

\* max_tokens would be zero: the server raises, and so does the conversation.
\* (Faulty variant: it tries again, and again.)
RefuseAgain(c) ==
  /\ Running /\ state[c] = "requested" /\ ~HasRoom(c)
  /\ state' = [state EXCEPT ![c] = "generating"]
  /\ UNCHANGED <<rollout, routing, transcript, turns>>
Refuse(c) ==
  /\ Running /\ state[c] = "requested" /\ ~HasRoom(c)
  /\ state' = [state EXCEPT ![c] = "failed"]
  /\ UNCHANGED <<rollout, routing, transcript, turns>>

\* Do n tokens of tool responses not leave room for an answer?  (Faulty variant:
\* off by one.)
OverflowsLate(c, n) == Len(response_mask[c]) + n > response_length
Overflows(c, n) == Len(response_mask[c]) + n >= response_length

\* _handle_processing_tools_state, from the tools' answers on.
ToolsAnswer(c) ==
  /\ Running /\ state[c] = "processing_tools"
  /\ \E n \in 1..MaxInput :
       IF Overflows(c, n)
       THEN /\ state' = [state EXCEPT ![c] = "terminated"]
            /\ UNCHANGED <<transcript, turns>>
       ELSE /\ state' = [state EXCEPT ![c] = "generating"]
            /\ Hear(c, "tool", n)
  /\ UNCHANGED <<rollout, routing>>

\* _handle_interacting_state, from the user's answer on.
UserAnswers(c) ==
  /\ Running /\ state[c] = "interacting"
  /\ \E n \in 1..MaxInput : Hear(c, "user", n)
  /\ \E next \in {"terminated", "generating"} : state' = [state EXCEPT ![c] = next]
  /\ UNCHANGED <<rollout, routing>>

\* The end of run: the tokens behind the prompt, cut to response_length.  (Python's
\* s[-n:] is all of s if n is zero.)
Last(s, n) == IF n = 0 THEN s ELSE SubSeq(s, Len(s) - n + 1, Len(s))
Cut(s) == SubSeq(s, 1, IF Len(s) < response_length THEN Len(s) ELSE response_length)
Output(c) ==
  LET n == Len(response_mask[c])
  IN [prompt   |-> SubSeq(prompt_ids[c], 1, Len(prompt_ids[c]) - n),
      response |-> Cut(Last(prompt_ids[c], n)),
      mask     |-> Cut(response_mask[c]),
      logprobs |-> Cut(response_logprobs[c])]

\* _run_agent_loop pads what it gets to a row of the batch: the prompt on the left,
\* the rest on the right.  The mask is padded with pad_token_id, any number, and
\* multiplied by the attention mask.
PadLeft(s, n, pad) == [i \in 1..n |-> IF i <= n - Len(s) THEN pad ELSE s[i - (n - Len(s))]]
PadRight(s, n, pad) == [i \in 1..n |-> IF i <= Len(s) THEN s[i] ELSE pad]
pad_token_id == 2
Attended(mask, response) ==
  [i \in 1..response_length |-> IF i <= Len(response) THEN mask[i] ELSE 0]
Row(c) ==
  LET o == Output(c)
  IN [prompts       |-> PadLeft(o.prompt, prompt_length, "pad"),
      responses     |-> PadRight(o.response, response_length, "pad"),
      response_mask |-> Attended(PadRight(o.mask, response_length, pad_token_id), o.response),
      logprobs      |-> PadRight(o.logprobs, response_length, 0)]

-----------------------------------------------------------------------------
Init ==
  /\ driver = "training" /\ step = 1 /\ batch = 1
  /\ agent = CHOOSE names \in AgentNames : TRUE \* no batch yet
  /\ awake = {} \* the manager puts the servers to sleep when it is built
  /\ loaded = [s \in Server |-> 0]
  /\ counts = [w \in Worker |-> [s \in Server |-> 0]]
  /\ cache = [w \in Worker |-> <<>>]
  /\ server \in [Conversation -> Server] \* no request yet
  /\ state = [c \in Conversation |-> "none"]
  /\ prompt_ids = [c \in Conversation |-> <<>>]
  /\ response_mask = [c \in Conversation |-> <<>>]
  /\ response_logprobs = [c \in Conversation |-> <<>>]
  /\ assistant_turns = [c \in Conversation |-> 0]
  /\ user_turns = [c \in Conversation |-> 0]

Converse(c) ==
  Prepare(c) \/ Request(c) \/ Answer(c) \/ Refuse(c) \/ ToolsAnswer(c) \/ UserAnswers(c)

Manage ==
  \/ WakeUp \/ (\E s \in Server : WakeServer(s)) \/ Dispatch \/ Collect \/ Raise
  \/ (\E s \in Server : SleepServer(s)) \/ Use

Over == \* the job has ended
  /\ driver = "failed" \/ (driver = "training" /\ batch = MaxBatch)
  /\ UNCHANGED vars

Next == Manage \/ (\E c \in Conversation : Converse(c)) \/ Over

\* The driver goes on, servers, tools and users answer, coroutines get their turn.
Spec == /\ Init /\ [][Next]_vars
        /\ WF_vars(Manage) /\ \A c \in Conversation : WF_vars(Converse(c))

-----------------------------------------------------------------------------
(* Properties.                                                             *)

States == {"none", "pending", "generating", "requested", "processing_tools",
           "interacting", "terminated", "failed"}

\* The type invariant.
TypeOK ==
  /\ driver \in {"training", "waking", "rollout", "resting", "failed"}
  /\ step \in Nat /\ batch \in Nat
  /\ awake \subseteq Server
  /\ loaded \in [Server -> Nat]
  /\ counts \in [Worker -> [Server -> Nat]]
  /\ cache \in [Worker -> Seq([id : Conversation \X Nat, server : Server])]
  /\ \A w \in Worker : Len(cache[w]) <= MaxCache
  /\ state \in [Conversation -> States]
  /\ server \in [Conversation -> Server]
  /\ prompt_ids \in [Conversation -> Seq({"prompt", "model", "tool", "user"})]
  /\ response_mask \in [Conversation -> Seq({0, 1})]
  /\ response_logprobs \in [Conversation -> Seq({0, 1})]
  /\ assistant_turns \in [Conversation -> Nat]
  /\ user_turns \in [Conversation -> Nat]

\* The row a conversation hands to training is aligned: the columns "prompts" and
\* "responses" are parted where the dataset's prompt ends, the mask is 1 exactly at
\* the tokens the model has written, and the log-probabilities, if any, stand at
\* those tokens.
OutputAligned ==
  \A c \in Conversation : state[c] = "terminated" =>
    LET row == Row(c)
    IN /\ \A i \in 1..prompt_length : row.prompts[i] \in {"pad", "prompt"}
       /\ \A i \in 1..response_length :
            /\ row.responses[i] # "prompt"
            /\ row.response_mask[i] = IF row.responses[i] = "model" THEN 1 ELSE 0
       /\ calculate_log_probs => row.logprobs = row.response_mask

\* A conversation that no user has joined always has room for an answer when it
\* asks for one, however its tools answer: the server does not refuse it.
RoomForTurns ==
  \A c \in Conversation : state[c] \in {"generating", "requested", "failed"} =>
    HasRoom(c) \/ \E i \in DOMAIN prompt_ids[c] : prompt_ids[c][i] = "user"

\* A request in flight is at a server that is awake and holds the weights of the
\* last update: a rollout is on policy to its last turn.
ServersReady ==
  \A c \in Conversation : (Running /\ state[c] = "requested") =>
    server[c] \in awake /\ loaded[server[c]] = step

\* "Load balance": a worker has given all servers equally many conversations, up
\* to one, over all rollouts.
EvenStarts ==
  \A w \in Worker : \A s, t \in Server : counts[w][s] <= counts[w][t] + 1

\* "Sticky session": the turns of a conversation go to the same server, if the
\* cache holds at least one chunk.
StickySession ==
  [][\A c \in Conversation :
       (assistant_turns[c] > 0 /\ state'[c] = "requested") => server'[c] = server[c]]_vars

\* A rollout ends: every conversation comes to its end, or raises, and the servers
\* are asleep again when training goes on.
RolloutEnds ==
  (driver = "rollout") ~> (driver = "failed" \/ (driver = "training" /\ awake = {}))
=============================================================================
