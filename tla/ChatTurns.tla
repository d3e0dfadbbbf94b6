----------------------------- MODULE ChatTurns -----------------------------
(***************************************************************************)
(* ChatService: the turns of the conversation, the two tokio RwLocks they  *)
(* take (`messages` and `system_prompt`), and the backend chain they ask.  *)
(* A turn is the chat panel's (tools allowed, one at a time: the input is  *)
(* disabled while one runs) or the Models tab's inference test (no tools,  *)
(* not gated).  The context writers are the ten-second ticker and the      *)
(* environment switch.                                                     *)
(*                                                                         *)
(* A tokio RwLock is fair: whoever asks for it queues, and is served when  *)
(* it comes to the head and the holders allow.  A write here is one        *)
(* assignment, so a writer holds a lock for no step.  The lock on the      *)
(* model's name is taken and given back inside one expression: left out.   *)
(***************************************************************************)
EXTENDS Naturals, Sequences

CONSTANTS
    Turns,       \* the calls of send_message* that may be under way at once
    Writers,     \* the tasks that call set_context
    MaxRounds,   \* max_iterations of the tool loop
    MaxCalls     \* bound: the tool calls one answer may ask for

VARIABLES
    turn,        \* turn[t]: where the call t is
    writer,      \* writer[w]: whether w waits to set the context
    queue,       \* queue[l]: those that wait for the lock l, in order
    holds,       \* holds[l]: the turns that hold a read guard of l
    rpc          \* whether the URL of the node RPC the app was launched with
                 \* contains "127.0.0.1" or "localhost"

vars == <<turn, writer, queue, holds, rpc>>

Locks == {"messages", "prompt"}
Parties == Turns \cup Writers

Idle == [at |-> "idle", kind |-> "none", round |-> 0, calls |-> 0, try |-> 1]

\* default_chat_endpoints: the local model server, then the node when its URL
\* names this machine, which is_loopback_rpc looks for anywhere in it.
Endpoints(namesLocal) ==
    IF namesLocal THEN <<"ollama", "node">> ELSE <<"ollama">>

TypeOK ==
    /\ turn \in [Turns ->
         [at : {"idle", "asking", "reading", "prompt", "model", "tool",
                "result", "reply", "fallback"},
          kind : {"none", "chat", "test"},
          round : 0..MaxRounds, calls : 0..MaxCalls, try : 1..2]]
    /\ writer \in [Writers -> {"rest", "waiting"}]
    /\ queue \in [Locks -> Seq(Parties)]
    /\ holds \in [Locks -> SUBSET Turns]
    /\ rpc \in BOOLEAN

Init ==
    /\ turn = [t \in Turns |-> Idle]
    /\ writer = [w \in Writers |-> "rest"]
    /\ queue = [l \in Locks |-> <<>>]
    /\ holds = [l \in Locks |-> {}]
    /\ rpc \in BOOLEAN

-----------------------------------------------------------------------------
(* The locks.                                                              *)

First(l, p) == queue[l] # <<>> /\ Head(queue[l]) = p
MayWrite(l, p) == First(l, p) /\ holds[l] = {}

Served(l) == [queue EXCEPT ![l] = Tail(@)]
Joined(q, l, p) == [q EXCEPT ![l] = Append(@, p)]

Go(t, where) == turn' = [turn EXCEPT ![t].at = where]

-----------------------------------------------------------------------------
(* A turn.                                                                 *)

\* The user sends a message, or presses "Run inference" on the Models tab.
Ask(t, kind) ==
    /\ turn[t].at = "idle"
    /\ kind = "chat" => \A u \in Turns : turn[u].kind # "chat"
    /\ turn' = [turn EXCEPT ![t] = [Idle EXCEPT !.at = "asking", !.kind = kind,
                                                !.round = 1]]
    /\ queue' = Joined(queue, "messages", t)
    /\ UNCHANGED <<writer, holds, rpc>>

\* The user's message is pushed; the history is read next.
PushQuestion(t) ==
    /\ turn[t].at = "asking" /\ MayWrite("messages", t)
    /\ Go(t, "reading")
    /\ queue' = Joined(Served("messages"), "messages", t)
    /\ UNCHANGED <<writer, holds, rpc>>

\* The history's guard is kept while the prompt's is asked for.
ReadMessages(t) ==
    /\ turn[t].at = "reading" /\ First("messages", t)
    /\ Go(t, "prompt")
    /\ holds' = [holds EXCEPT !["messages"] = @ \cup {t}]
    /\ queue' = Joined(Served("messages"), "prompt", t)
    /\ UNCHANGED <<writer, rpc>>

\* The request is built and the history's guard dropped; the prompt's stays
\* until the round, or the call, ends.
ReadPrompt(t) ==
    /\ turn[t].at = "prompt" /\ First("prompt", t)
    /\ turn' = [turn EXCEPT ![t].at = "model", ![t].try = 1]
    /\ holds' = [messages |-> holds["messages"] \ {t},
                 prompt |-> holds["prompt"] \cup {t}]
    /\ queue' = Served("prompt")
    /\ UNCHANGED <<writer, rpc>>

Endpoint(t) == Endpoints(rpc)[turn[t].try]

\* An endpoint fails: the next of the chain is tried, and after the last the
\* error leaves the function.
EndpointFails(t) ==
    /\ turn[t].at = "model"
    /\ IF turn[t].try < Len(Endpoints(rpc))
       THEN /\ turn' = [turn EXCEPT ![t].try = @ + 1]
            /\ UNCHANGED holds
       ELSE /\ turn' = [turn EXCEPT ![t] = Idle]
            /\ holds' = [holds EXCEPT !["prompt"] = @ \ {t}]
    /\ UNCHANGED <<writer, queue, rpc>>

\* An answer with no tool calls is the reply.  An inference test takes
\* whatever came as its reply.
Answers(t) ==
    /\ turn[t].at = "model"
    /\ Go(t, "reply")
    /\ queue' = Joined(queue, "messages", t)
    /\ UNCHANGED <<writer, holds, rpc>>

\* Only the OpenAI-compatible endpoint is offered tools and may call them.
CallsTools(t) ==
    /\ turn[t].at = "model" /\ turn[t].kind = "chat"
    /\ Endpoint(t) = "ollama"
    /\ \E n \in 1..MaxCalls :
         turn' = [turn EXCEPT ![t].at = "tool", ![t].calls = n]
    /\ UNCHANGED <<writer, queue, holds, rpc>>

\* The executor returns, after the user's approval if it had to wait for one.
RunTool(t) ==
    /\ turn[t].at = "tool"
    /\ Go(t, "result")
    /\ queue' = Joined(queue, "messages", t)
    /\ UNCHANGED <<writer, holds, rpc>>

\* Mutant: the guard of the prompt is kept into the next round.
PushResultGuarded(t) ==
    /\ turn[t].at = "result" /\ MayWrite("messages", t)
    /\ LET more == turn[t].calls > 1
           last == turn[t].round = MaxRounds
       IN  /\ turn' = [turn EXCEPT
                 ![t].calls = @ - 1,
                 ![t].round = IF more \/ last THEN @ ELSE @ + 1,
                 ![t].at = IF more THEN "tool"
                           ELSE IF last THEN "fallback" ELSE "reading"]
           /\ queue' = IF more THEN Served("messages")
                       ELSE Joined(Served("messages"), "messages", t)
    /\ UNCHANGED <<writer, holds, rpc>>

\* The tool's result is pushed: another call of the same answer, or another
\* round, or the end of the loop.
PushResult(t) ==
    /\ turn[t].at = "result" /\ MayWrite("messages", t)
    /\ LET more == turn[t].calls > 1
           last == turn[t].round = MaxRounds
       IN  /\ turn' = [turn EXCEPT
                 ![t].calls = @ - 1,
                 ![t].round = IF more \/ last THEN @ ELSE @ + 1,
                 ![t].at = IF more THEN "tool"
                           ELSE IF last THEN "fallback" ELSE "reading"]
           /\ queue' = IF more THEN Served("messages")
                       ELSE Joined(Served("messages"), "messages", t)
           /\ holds' = IF more THEN holds
                       ELSE [holds EXCEPT !["prompt"] = @ \ {t}]
    /\ UNCHANGED <<writer, rpc>>

\* The reply, or the text that stands for one after the last round.
PushReply(t) ==
    /\ turn[t].at \in {"reply", "fallback"} /\ MayWrite("messages", t)
    /\ turn' = [turn EXCEPT ![t] = Idle]
    /\ queue' = Served("messages")
    /\ holds' = [holds EXCEPT !["prompt"] = @ \ {t}]
    /\ UNCHANGED <<writer, rpc>>

-----------------------------------------------------------------------------
(* The context.                                                            *)

WantContext(w) ==
    /\ writer[w] = "rest"
    /\ writer' = [writer EXCEPT ![w] = "waiting"]
    /\ queue' = Joined(queue, "prompt", w)
    /\ UNCHANGED <<turn, holds, rpc>>

SetContext(w) ==
    /\ writer[w] = "waiting" /\ MayWrite("prompt", w)
    /\ writer' = [writer EXCEPT ![w] = "rest"]
    /\ queue' = Served("prompt")
    /\ UNCHANGED <<turn, holds, rpc>>

Next ==
    \/ \E t \in Turns :
         \/ \E kind \in {"chat", "test"} : Ask(t, kind)
         \/ PushQuestion(t) \/ ReadMessages(t) \/ ReadPrompt(t)
         \/ EndpointFails(t) \/ Answers(t) \/ CallsTools(t)
         \/ RunTool(t) \/ PushResult(t) \/ PushReply(t)
    \/ \E w \in Writers : WantContext(w) \/ SetContext(w)

Spec == Init /\ [][Next]_vars

-----------------------------------------------------------------------------
(* What p cannot go on without: those ahead of it, and for one that writes *)
(* those that hold the lock.                                               *)
Writes(p, l) ==
    \/ l = "prompt" /\ p \in Writers
    \/ l = "messages" /\ p \in Turns /\ turn[p].at # "reading"

WaitsFor(p) ==
    UNION {LET q == queue[l]
               i == CHOOSE j \in 1..Len(q) : q[j] = p
           IN  {q[j] : j \in 1..(i - 1)}
               \cup (IF Writes(p, l) THEN holds[l] ELSE {})
             : l \in {m \in Locks : \E j \in 1..Len(queue[m]) : queue[m][j] = p}}

(***************************************************************************)
(* No contention: there is never a group of turns and context writers each *)
(* of which waits for another of the group.  (The ticker's comment in      *)
(* main.rs: "tests show no lock contention with the ChatService RwLock".)  *)
(***************************************************************************)
NoContention ==
    \A S \in SUBSET Parties :
        S # {} => \E p \in S : WaitsFor(p) \cap S = {}

(***************************************************************************)
(* The conversation flows: without an inference test from the Models tab   *)
(* there is no such group, whatever the turn's rounds, tool calls and      *)
(* failing endpoints, the ticker and the environment switch come to.       *)
(***************************************************************************)
ConversationFlows ==
    \A S \in SUBSET Parties :
        S # {} /\ (\A t \in S \cap Turns : turn[t].kind # "test")
            => \E p \in S : WaitsFor(p) \cap S = {}
-----------------------------------------------------------------------------

(* Why the types hold.                                                     *)

\* A tool runs for a call that is left; an endpoint that is tried is one of
\* the chain.
CallsLeft ==
    \A t \in Turns : turn[t].at \in {"tool", "result"} => turn[t].calls > 0
WithinChain == \A t \in Turns : turn[t].try <= Len(Endpoints(rpc))

IInv == TypeOK /\ CallsLeft /\ WithinChain
=============================================================================
