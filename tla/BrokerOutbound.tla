----------------------------- MODULE BrokerOutbound -----------------------------
(* Tool calls of one broker session: the agent's call goes from the shim           *)
(* (request_outbound) over the socket to the daemon (handle_outbound), which        *)
(* executes it with a bot's token (execute_outbound) and sends the result back.     *)
(* Meanwhile the 20 s timer runs, the socket drops and reconnects, and the pool     *)
(* moves the channel to another bot.                                                *)
EXTENDS Naturals, FiniteSets

CONSTANTS
  Calls,       \* tool calls, each with its own request_id
  Bots, NoBot, \* bots that can own the channel
  MaxLinks     \* bound on the connections the shim makes

VARIABLES
  answer,    \* what the agent was told of each call
  pending,   \* the shim's pending map: calls waiting for a response
  requests,  \* calls on their way to the daemon
  running,   \* calls whose REST request is in flight
  results,   \* responses on their way to the shim: call -> result
  link,      \* number of the current connection, 0 when there is none
  links,     \* connections made so far
  sentOn,    \* the connection each request was sent on
  bot,       \* the bot the session was launched for and registers with
  ownership, \* the facade's owner of the channel
  token,     \* history: the bot whose token executed the call
  outcome    \* history: result the daemon produced

ovars == <<answer, pending, requests, running, results, link, links, sentOn, bot,
           ownership, token, outcome>>

Results == {"done", "error"}

TypeOK ==
  /\ answer \in [Calls -> {"none", "done", "error", "unavailable", "write_failed", "timed_out"}]
  /\ pending \subseteq Calls /\ requests \subseteq Calls /\ running \subseteq Calls
  /\ results \in [Calls -> Results \cup {"none"}]
  /\ link \in 0..MaxLinks /\ links \in 0..MaxLinks /\ sentOn \in [Calls -> 0..MaxLinks]
  /\ bot \in Bots
  /\ ownership \in Bots \cup {NoBot}
  /\ token \in [Calls -> Bots \cup {NoBot}] /\ outcome \in [Calls -> Results \cup {"none"}]

Init ==
  /\ answer = [r \in Calls |-> "none"] /\ pending = {} /\ requests = {} /\ running = {}
  /\ results = [r \in Calls |-> "none"]
  /\ link = 0 /\ links = 0 /\ sentOn = [r \in Calls |-> 0]
  /\ bot \in Bots /\ ownership = bot
  /\ token = [r \in Calls |-> NoBot] /\ outcome = [r \in Calls |-> "none"]

Resolve(r, a) ==
  /\ pending' = pending \ {r}
  /\ answer' = [answer EXCEPT ![r] = a]

New(r) == answer[r] = "none" /\ r \notin pending /\ sentOn[r] = 0

\* request_outbound without a connection resolves at once.
RequestUnavailable(r) ==
  /\ New(r) /\ link = 0
  /\ answer' = [answer EXCEPT ![r] = "unavailable"]
  /\ UNCHANGED <<pending, requests, running, results, link, links, sentOn, bot, ownership,
                 token, outcome>>

\* request_outbound: the envelope is queued on the socket.  socket.write returns
\* false when its buffer is above the high-water mark, and the call is resolved as
\* failed although the envelope will go out.
Request(r, backpressure) ==
  /\ New(r) /\ link # 0
  /\ requests' = requests \cup {r} /\ sentOn' = [sentOn EXCEPT ![r] = link]
  /\ IF backpressure THEN Resolve(r, "write_failed")
     ELSE pending' = pending \cup {r} /\ UNCHANGED answer
  /\ UNCHANGED <<running, results, link, links, bot, ownership, token, outcome>>

\* handle_outbound up to the REST call: the owner of the channel is looked up when
\* the request is read.
Execute(r) ==
  /\ r \in requests /\ requests' = requests \ {r}
  /\ IF ownership = NoBot
     THEN /\ outcome' = [outcome EXCEPT ![r] = "error"]
          /\ results' = [results EXCEPT ![r] = IF sentOn[r] = link THEN "error" ELSE "none"]
          /\ UNCHANGED <<running, token>>
     ELSE /\ running' = running \cup {r} /\ token' = [token EXCEPT ![r] = ownership]
          /\ UNCHANGED <<outcome, results>>
  /\ UNCHANGED <<answer, pending, link, links, sentOn, bot, ownership>>

\* The response goes to the connection the request came on, if that still stands.
Respond(r, result) ==
  /\ r \in running /\ running' = running \ {r}
  /\ outcome' = [outcome EXCEPT ![r] = result]
  /\ results' = [results EXCEPT ![r] = IF sentOn[r] = link THEN result ELSE "none"]
  /\ UNCHANGED <<answer, pending, requests, link, links, sentOn, bot, ownership, token>>

\* Mutant: a response resolves the oldest pending call, whatever its request_id.
ReceiveInOrder(r) ==
  /\ results[r] # "none"
  /\ results' = [results EXCEPT ![r] = "none"]
  /\ IF pending # {} THEN Resolve(CHOOSE q \in pending : TRUE, results[r])
     ELSE UNCHANGED <<pending, answer>>
  /\ UNCHANGED <<requests, running, link, links, sentOn, bot, ownership, token, outcome>>

\* handle on an outbound_response: only a pending call is resolved.
Receive(r) ==
  /\ results[r] # "none"
  /\ results' = [results EXCEPT ![r] = "none"]
  /\ IF r \in pending THEN Resolve(r, results[r]) ELSE UNCHANGED <<pending, answer>>
  /\ UNCHANGED <<requests, running, link, links, sentOn, bot, ownership, token, outcome>>

\* Mutant: the timer only runs while connected.
TimeOutConnected(r) ==
  /\ r \in pending /\ link # 0
  /\ Resolve(r, "timed_out")
  /\ UNCHANGED <<requests, running, results, link, links, sentOn, bot, ownership, token,
                 outcome>>

\* The timer of the call fires.
TimeOut(r) ==
  /\ r \in pending
  /\ Resolve(r, "timed_out")
  /\ UNCHANGED <<requests, running, results, link, links, sentOn, bot, ownership, token,
                 outcome>>

Connect ==
  /\ link = 0 /\ links < MaxLinks
  /\ links' = links + 1 /\ link' = links + 1
  /\ UNCHANGED <<answer, pending, requests, running, results, sentOn, bot, ownership, token,
                 outcome>>

\* The socket drops: responses under way are lost, pending calls keep waiting; what
\* the daemon has not read may be lost or still be read.
Drop(lost) ==
  /\ link # 0 /\ link' = 0
  /\ requests' = requests \ lost
  /\ results' = [r \in Calls |-> "none"]
  /\ UNCHANGED <<answer, pending, running, links, sentOn, bot, ownership, token, outcome>>

\* register_channel, release_channel and deregister_channel, called by the pool.
Reassign(b) ==
  /\ b # ownership /\ ownership' = b
  /\ UNCHANGED <<answer, pending, requests, running, results, link, links, sentOn, bot,
                 token, outcome>>

Next ==
  \/ \E r \in Calls : \/ RequestUnavailable(r) \/ Execute(r) \/ Receive(r) \/ TimeOut(r)
                      \/ \E backpressure \in BOOLEAN : Request(r, backpressure)
                      \/ \E result \in Results : Respond(r, result)
  \/ Connect \/ (\E lost \in SUBSET requests : Drop(lost))
  \/ \E b \in Bots \cup {NoBot} : Reassign(b)

Spec == Init /\ [][Next]_ovars
\* The timers fire.
Fairness == \A r \in Calls : WF_ovars(TimeOut(r))
FairSpec == Spec /\ Fairness

--------------------------------------------------------------------------------
(* Properties.                                                                    *)

\* The agent is told "done" or "error" only with the result the daemon produced for
\* that very call, never with a stale or foreign one.
AnswersAreTheDaemons ==
  \A r \in Calls : answer[r] \in Results => answer[r] = outcome[r]

\* An answered call is not waiting any more, and a call that was sent and is not
\* answered is: none is forgotten without an answer.
PendingIsUnanswered ==
  \A r \in Calls : sentOn[r] # 0 => (r \in pending <=> answer[r] = "none")

\* No tool call hangs: the wait is bounded even when the daemon or the socket is gone.
NoCallHangs == \A r \in Calls : r \in pending ~> answer[r] # "none"

\* The shim "returns its result verbatim": while its connection stands and the call
\* has not timed out, the agent is told what the daemon answered.
ResultIsVerbatim ==
  \A r \in Calls : answer[r] = "write_failed" => outcome[r] # "done"

\* README: "Outbound always uses the token of the bot bound to the connection at
\* register time."
TokenIsRegistered ==
  \A r \in Calls : token[r] # NoBot => token[r] = bot
================================================================================
