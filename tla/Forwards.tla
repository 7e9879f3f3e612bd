------------------------------ MODULE Forwards ------------------------------
(***************************************************************************)
(* The port forwards of the broker (internal/broker/forwards.go): a table   *)
(* from boxes to the loopback listeners that lead to them. publish and      *)
(* unpublish hold the mutex of the table only while they look at it, never  *)
(* while they close or open listeners.                                      *)
(*                                                                          *)
(* Abstracted: the connections that a listener accepts; a listener is its   *)
(* host port and its box.                                                   *)
(***************************************************************************)
EXTENDS FiniteSets

CONSTANTS
    Handlers,   \* goroutines that serve the control socket
    Boxes,
    NoBox,      \* the box of an idle handler
    Ports,      \* ports of the host loopback
    Exclusive   \* TRUE: requests about one box, and the shutdown, wait for each other

ASSUME ForwardsNoBox == NoBox \notin Boxes
ASSUME ForwardsExclusive == Exclusive \in BOOLEAN

VARIABLES
    byBox,      \* box -> the listeners that the table holds for it
    listening,  \* every listener that is open
    busy,       \* ports that other programs of the host listen on
    stopping,   \* the broker has closed its control socket
    job,        \* handler -> the request it serves and its locals
    result      \* history: box -> the ports its last request left it with

forwardVars == <<byBox, listening, busy, stopping, job, result>>

Listener == [port : Ports, box : Boxes]
To(b, ports) == {[port |-> x, box |-> b] : x \in ports}

Ops == {"publish", "unpublish", "closeAll"}
Phases == {"idle", "unpublish", "close", "listen", "undo"}
Job == [pc : Phases, op : Ops, box : Boxes \cup {NoBox}, ask : SUBSET Ports,
        opened : SUBSET Listener, closing : SUBSET Listener, boxes : SUBSET Boxes]
NoJob == [pc |-> "idle", op |-> "publish", box |-> NoBox, ask |-> {},
          opened |-> {}, closing |-> {}, boxes |-> {}]

ForwardsInit ==
    /\ byBox = [b \in Boxes |-> {}]
    /\ listening = {}
    /\ busy = {}
    /\ stopping = FALSE
    /\ job = [h \in Handlers |-> NoJob]
    /\ result = [b \in Boxes |-> {}]

----------------------------------------------------------------------------
At(h, phase) == job[h].pc = phase
Idle(h) == At(h, "idle")
Working(b) == {h \in Handlers : ~Idle(h) /\ (job[h].box = b \/ job[h].op = "closeAll")}
Taken == busy \cup {l.port : l \in listening}
Left(b, ports) == result' = [result EXCEPT ![b] = ports]

Accept(h, request) ==
    /\ Idle(h) /\ ~stopping
    /\ Exclusive => Working(request.box) = {}
    /\ job' = [job EXCEPT ![h] = request]
    /\ UNCHANGED <<byBox, listening, busy, stopping, result>>

PublishKeepsOld(h) ==
    \E b \in Boxes, ports \in SUBSET Ports :
        /\ ports # {}
        /\ Accept(h, [NoJob EXCEPT !.pc = "listen", !.box = b, !.ask = ports])

\* handlePublish, for the ports that publishPorts asks for.
Publish(h) ==
    \E b \in Boxes, ports \in SUBSET Ports :
        /\ ports # {}
        /\ Accept(h, [NoJob EXCEPT !.pc = "unpublish", !.box = b, !.ask = ports])

\* handleUnpublish.
Unpublish(h) ==
    \E b \in Boxes :
        Accept(h, [NoJob EXCEPT !.pc = "unpublish", !.op = "unpublish", !.box = b])

\* closeAll, when the broker stops. The control server has waited for its
\* handlers, though not for ever. The boxes are listed first.
CloseAll(h) ==
    /\ Idle(h) /\ ~stopping
    /\ Exclusive => \A other \in Handlers : Idle(other)
    /\ stopping' = TRUE
    /\ job' = [job EXCEPT ![h] = [NoJob EXCEPT !.op = "closeAll", !.pc = "close",
                                    !.boxes = {b \in Boxes : byBox[b] # {}}]]
    /\ UNCHANGED <<byBox, listening, busy, result>>

\* unpublish under the mutex: the entry of the table is taken out.
Take(h) ==
    LET b == job[h].box IN
    /\ At(h, "unpublish")
    /\ byBox' = [byBox EXCEPT ![b] = {}]
    /\ job' = [job EXCEPT ![h].pc = "close", ![h].closing = byBox[b]]
    /\ UNCHANGED <<listening, busy, stopping, result>>

\* unpublish without the mutex: the listeners that were in it are closed.
Close(h) ==
    /\ At(h, "close")
    /\ \E l \in job[h].closing :
         /\ listening' = listening \ {l}
         /\ job' = [job EXCEPT ![h].closing = @ \ {l}]
    /\ UNCHANGED <<byBox, busy, stopping, result>>

\* unpublish is over: publish goes on, closeAll takes its next box, and
\* handleUnpublish answers.
Closed(h) ==
    /\ At(h, "close") /\ job[h].closing = {}
    /\ UNCHANGED <<byBox, listening, busy, stopping>>
    /\ \/ /\ job[h].op = "publish"
          /\ job' = [job EXCEPT ![h].pc = "listen"]
          /\ UNCHANGED result
       \/ /\ job[h].op = "closeAll"
          /\ \E b \in job[h].boxes :
               /\ job' = [job EXCEPT ![h].pc = "unpublish", ![h].box = b, ![h].boxes = @ \ {b}]
               /\ Left(b, {})
       \/ /\ job[h].op # "publish" /\ job[h].boxes = {}
          /\ job' = [job EXCEPT ![h] = NoJob]
          /\ IF job[h].box \in Boxes THEN Left(job[h].box, {}) ELSE UNCHANGED result

Missing(h) == job[h].ask \ {l.port : l \in job[h].opened}

\* publish opens the ports one after the other and gives up at the first that
\* is taken.
Listen(h) ==
    /\ At(h, "listen")
    /\ \E x \in Missing(h) :
       \/ /\ x \notin Taken
          /\ listening' = listening \cup To(job[h].box, {x})
          /\ job' = [job EXCEPT ![h].opened = @ \cup To(job[h].box, {x})]
       \/ /\ x \in Taken
          /\ job' = [job EXCEPT ![h].pc = "undo"]
          /\ UNCHANGED listening
    /\ UNCHANGED <<byBox, busy, stopping, result>>

UndoForgotten(h) ==
    /\ At(h, "undo")
    /\ job' = [job EXCEPT ![h] = NoJob]
    /\ Left(job[h].box, {})
    /\ UNCHANGED <<byBox, listening, busy, stopping>>

\* publish closes what it had opened, and fails.
Undo(h) ==
    /\ At(h, "undo")
    /\ UNCHANGED <<byBox, busy, stopping>>
    /\ \/ \E l \in job[h].opened :
            /\ listening' = listening \ {l}
            /\ job' = [job EXCEPT ![h].opened = @ \ {l}]
            /\ UNCHANGED result
       \/ /\ job[h].opened = {}
          /\ job' = [job EXCEPT ![h] = NoJob]
          /\ Left(job[h].box, {})
          /\ UNCHANGED listening

\* publish puts its listeners into the table.
Store(h) ==
    /\ At(h, "listen") /\ Missing(h) = {}
    /\ byBox' = [byBox EXCEPT ![job[h].box] = job[h].opened]
    /\ job' = [job EXCEPT ![h] = NoJob]
    /\ Left(job[h].box, job[h].ask)
    /\ UNCHANGED <<listening, busy, stopping>>

\* Another program of the host takes a port or gives it back.
OtherProgram ==
    /\ \E x \in Ports :
       \/ x \notin Taken /\ busy' = busy \cup {x}
       \/ x \in busy /\ busy' = busy \ {x}
    /\ UNCHANGED <<byBox, listening, stopping, job, result>>

ForwardsNext ==
    \/ \E h \in Handlers :
         \/ Publish(h) \/ Unpublish(h) \/ CloseAll(h)
         \/ Take(h) \/ Close(h) \/ Closed(h) \/ Listen(h) \/ Undo(h) \/ Store(h)
    \/ OtherProgram

----------------------------------------------------------------------------
ForwardsTypeOK ==
    /\ byBox \in [Boxes -> SUBSET Listener]
    /\ listening \subseteq Listener
    /\ busy \subseteq Ports
    /\ stopping \in BOOLEAN
    /\ job \in [Handlers -> Job]
    /\ result \in [Boxes -> SUBSET Ports]

Of(b) == {l \in listening : l.box = b}

(* publish "replaces the forwards of a box. On failure, the box has no      *)
(* forwards" (forwards.go:27-28): when no request about a box is running,    *)
(* exactly the ports of its last publish lead to it, and none after a failed *)
(* publish or an unpublish.                                                  *)
ForwardsReplaced == \A b \in Boxes : Working(b) = {} => Of(b) = To(b, result[b])

(* No listener is lost: each is in the table, where the next unpublish finds *)
(* it, or in the hands of the request that opens or closes it. A listener    *)
(* in neither would forward to the box, and later to whichever box gets its  *)
(* address, until the broker ends. And the table never names a listener that *)
(* is closed or one of another box: closing the forwards of a box closes      *)
(* no others.                                                                *)
NoListenerLost ==
    /\ \A l \in listening :
         \/ l \in byBox[l.box]
         \/ \E h \in Handlers : l \in job[h].opened \cup job[h].closing
    /\ \A b \in Boxes : byBox[b] \subseteq Of(b)
    /\ \A l, m \in listening : l.port = m.port => l = m
============================================================================
