------------------------- MODULE DuplicateWorkspace -------------------------
(* The windows of one user over two one-slot channels (ipc/windowBroadcast.ts, *)
(* workspace/duplicateWorkspaceIpc.ts): a window that opens a workspace asks   *)
(* who is connected to it, and may ask the one that answers to duplicate       *)
(* itself. A slot keeps the last message only; every store raises an event,    *)
(* and a receiver reads the slot when it gets to the event.                    *)
EXTENDS Naturals

CONSTANTS Openers,      \* windows that open a workspace, once each
          Connected,    \* windows that may be connected to one
          Authorities, NoAuthority,
          MaxWindowEvents     \* bound of the model on the events a window has not read

ASSUME WindowsAssumption == MaxWindowEvents \in Nat

VARIABLES dwHas,        \* the authority each window is connected to
          dwOpeners,    \* each opener: what it wants, where it is, who answered
          dwRequest,    \* the slot of requests
          dwResponse,   \* the slot of responses
          dwUnread,     \* events of the request slot, by window
          dwAnswers,    \* events of the response slot, by opener
          dwDuplicated  \* the windows that have duplicated themselves

dwVars == <<dwHas, dwOpeners, dwRequest, dwResponse, dwUnread, dwAnswers, dwDuplicated>>

Nobody == NoAuthority   \* also stands for no window and no opener
Empty == [type |-> "none", from |-> Nobody, to |-> Nobody]
Messages(type, from, to) == [type: {type}, from: from, to: to]
Asked == {o \in Openers : dwOpeners[o].at = "waiting"}

DuplicateTypeOK ==
  /\ dwHas \in [Connected -> Authorities \union {NoAuthority}]
  /\ dwOpeners \in [Openers -> [at: {"idle", "waiting", "prompt", "done"},
                                wants: Authorities \union {NoAuthority},
                                window: Connected \union {Nobody}]]
  /\ dwRequest \in {Empty} \union Messages("ping", Openers, Authorities)
                           \union Messages("duplicate", Openers, Connected)
  /\ dwResponse \in {Empty} \union Messages("pong", Connected, Openers)
  /\ dwUnread \in [Connected -> 0 .. MaxWindowEvents]
  /\ dwAnswers \in [Openers -> 0 .. MaxWindowEvents]
  /\ dwDuplicated \subseteq Connected

DwInit ==
  /\ dwHas = [w \in Connected |-> NoAuthority]
  /\ dwOpeners = [o \in Openers |-> [at |-> "idle", wants |-> NoAuthority, window |-> Nobody]]
  /\ dwRequest = Empty /\ dwResponse = Empty
  /\ dwUnread = [w \in Connected |-> 0]
  /\ dwAnswers = [o \in Openers |-> 0]
  /\ dwDuplicated = {}

ConnectTo(w, a) ==
  /\ dwHas[w] = NoAuthority
  /\ dwHas' = [dwHas EXCEPT ![w] = a]
  /\ UNCHANGED <<dwOpeners, dwRequest, dwResponse, dwUnread, dwAnswers, dwDuplicated>>

More(n) == IF n < MaxWindowEvents THEN n + 1 ELSE n

\* send on the channel of requests: what nobody has read yet is overwritten
SendRequest(m) ==
  /\ dwRequest' = m
  /\ dwUnread' = [w \in Connected |-> More(dwUnread[w])]

\* openWorkspace, sendPing: the listener is there before the ping is sent
SendPing(o, a) ==
  /\ dwOpeners[o].at = "idle"
  /\ dwOpeners' = [dwOpeners EXCEPT ![o].at = "waiting", ![o].wants = a]
  /\ SendRequest([type |-> "ping", from |-> o, to |-> a])
  /\ UNCHANGED <<dwHas, dwResponse, dwAnswers, dwDuplicated>>

\* the timeout of sendPing, or its message could not be sent
PingTimesOut(o) ==
  /\ dwOpeners[o].at = "waiting"
  /\ dwOpeners' = [dwOpeners EXCEPT ![o].at = "done"]
  /\ dwAnswers' = [dwAnswers EXCEPT ![o] = 0]
  /\ UNCHANGED <<dwHas, dwRequest, dwResponse, dwUnread, dwDuplicated>>

\* the handler of requests in a window, also of a request it has seen before;
\* sendPong is heard by those who listen
OnRequest(w) ==
  /\ dwUnread[w] > 0
  /\ dwUnread' = [dwUnread EXCEPT ![w] = @ - 1]
  /\ IF dwHas[w] # NoAuthority /\ dwRequest.type = "ping" /\ dwRequest.to = dwHas[w]
     THEN /\ dwResponse' = [type |-> "pong", from |-> w, to |-> dwRequest.from]
          /\ dwAnswers' = [o \in Openers |-> IF o \in Asked THEN More(dwAnswers[o]) ELSE dwAnswers[o]]
     ELSE UNCHANGED <<dwResponse, dwAnswers>>
  /\ dwDuplicated' = IF dwHas[w] # NoAuthority /\ dwRequest.type = "duplicate" /\ dwRequest.to = w
                     THEN dwDuplicated \union {w} ELSE dwDuplicated
  /\ UNCHANGED <<dwHas, dwOpeners, dwRequest>>

\* Mutant: any pong answers the ping.
AnyPong(o) == dwResponse.type = "pong"

\* a pong to the ping of this opener
OwnPong(o) == dwResponse.type = "pong" /\ dwResponse.to = o

\* the listener of sendPing; the first pong settles it and prompts the user
OnResponse(o) ==
  /\ dwOpeners[o].at = "waiting" /\ dwAnswers[o] > 0
  /\ IF OwnPong(o)
     THEN /\ dwOpeners' = [dwOpeners EXCEPT ![o].at = "prompt", ![o].window = dwResponse.from]
          /\ dwAnswers' = [dwAnswers EXCEPT ![o] = 0]
     ELSE dwAnswers' = [dwAnswers EXCEPT ![o] = @ - 1] /\ UNCHANGED dwOpeners
  /\ UNCHANGED <<dwHas, dwRequest, dwResponse, dwUnread, dwDuplicated>>

\* showMultiWindowNotification: "Duplicate Window", or anything else
Choose(o) ==
  /\ dwOpeners[o].at = "prompt"
  /\ dwOpeners' = [dwOpeners EXCEPT ![o].at = "done"]
  /\ \/ SendRequest([type |-> "duplicate", from |-> o, to |-> dwOpeners[o].window])
     \/ UNCHANGED <<dwRequest, dwUnread>>
  /\ UNCHANGED <<dwHas, dwResponse, dwAnswers, dwDuplicated>>

DwNext ==
  \/ \E w \in Connected : OnRequest(w) \/ \E a \in Authorities : ConnectTo(w, a)
  \/ \E o \in Openers : \/ PingTimesOut(o) \/ OnResponse(o) \/ Choose(o)
                        \/ \E a \in Authorities : SendPing(o, a)

-----------------------------------------------------------------------------
(* A window duplicates itself only for an opener whose user was told of it and *)
(* who wanted just the workspace it is connected to, whichever messages were   *)
(* overwritten, read twice or read late.                                       *)
OnlyAskedWindowsDuplicate ==
  \A w \in dwDuplicated : \E o \in Openers :
    dwOpeners[o] = [at |-> "done", wants |-> dwHas[w], window |-> w]
=============================================================================
