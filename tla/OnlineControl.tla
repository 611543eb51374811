---------------------------- MODULE OnlineControl ----------------------------
(***************************************************************************)
(* Online tools and the FUSE daemon (src/platform/online_ctl.rs and        *)
(* process_online_requests in src/platform/linux_fuse.rs).  A tool         *)
(* connects to the daemon's control socket, sends one request and waits    *)
(* for one answer.  A listener thread serves the connections one at a      *)
(* time: it passes the request to the daemon over a channel and waits for  *)
(* the reply with a timeout.  The daemon looks at the channel only inside  *)
(* its flush and fsync callbacks.                                          *)
(*                                                                         *)
(* A request is named by its tool.  Timeouts are taken at any moment: 60 s *)
(* in the listener and 120 s in the tool say nothing about how long the    *)
(* daemon goes without a callback.                                         *)
(***************************************************************************)
EXTENDS Integers, Sequences

CONSTANTS
    Tools,      \* tools, each with one request
    NoTool,     \* the listener serves nobody
    MayUnmount  \* the daemon may end in this run

ASSUME ToolAssumption == NoTool \notin Tools /\ MayUnmount \in BOOLEAN

VARIABLES
    tool,      \* each tool: "new", "connected", "waiting", or how its call ended
    sent,      \* tools whose request is in their socket or beyond it
    backlog,   \* connections nobody has accepted yet, in order
    serving,   \* the tool whose connection the listener holds
    listener,  \* "accept", "reading", "waiting" for a reply, or "ended"
    rx,        \* requests in the daemon's channel
    batch,     \* requests the daemon's callback has collected
    reply,     \* tools whose reply is in their request's own channel
    runs,      \* how often the daemon has executed each tool's request
    daemon     \* "loop", "callback" or "gone"

vars == <<tool, sent, backlog, serving, listener, rx, batch, reply, runs, daemon>>

Calling == {"connected", "waiting"}
Ended == {"ok", "err", "gave_up"}

Init ==
    /\ tool = [t \in Tools |-> "new"]
    /\ sent = {}
    /\ backlog = <<>> /\ rx = <<>> /\ batch = <<>>
    /\ serving = NoTool /\ listener = "accept"
    /\ reply = {}
    /\ runs = [t \in Tools |-> 0]
    /\ daemon = "loop"

-----------------------------------------------------------------------------
(* Tools *)

\* send_online_request: connect; the socket is gone when the daemon is ...
Connect(t) ==
    /\ tool[t] = "new"
    /\ \/ /\ daemon # "gone"
          /\ backlog' = Append(backlog, t)
          /\ tool' = [tool EXCEPT ![t] = "connected"]
       \/ /\ daemon = "gone"
          /\ tool' = [tool EXCEPT ![t] = "err"]
          /\ UNCHANGED backlog
    /\ UNCHANGED <<sent, serving, listener, rx, batch, reply, runs, daemon>>

\* ... send the request and read the answer.
Send(t) ==
    /\ tool[t] = "connected"
    /\ tool' = [tool EXCEPT ![t] = "waiting"]
    /\ sent' = sent \cup {t}
    /\ UNCHANGED <<backlog, serving, listener, rx, batch, reply, runs, daemon>>

\* The tool is interrupted or its read times out; a request it sent stays where
\* it is.
GiveUp(t) ==
    /\ tool[t] \in Calling
    /\ tool' = [tool EXCEPT ![t] = "gave_up"]
    /\ UNCHANGED <<sent, backlog, serving, listener, rx, batch, reply, runs, daemon>>

-----------------------------------------------------------------------------
(* The listener thread *)

Accept ==
    /\ listener = "accept"
    /\ backlog # <<>>
    /\ serving' = Head(backlog)
    /\ backlog' = Tail(backlog)
    /\ listener' = "reading"
    /\ UNCHANGED <<tool, sent, rx, batch, reply, runs, daemon>>

\* The request goes to the channel with a reply channel of its own.
Forward ==
    /\ listener = "reading"
    /\ serving \in sent
    /\ daemon # "gone"
    /\ rx' = Append(rx, serving)
    /\ listener' = "waiting"
    /\ UNCHANGED <<tool, sent, backlog, serving, batch, reply, runs, daemon>>

\* The connection closed before a request came: the next one is accepted.
NothingSent ==
    /\ listener = "reading"
    /\ serving \notin sent
    /\ tool[serving] = "gave_up"
    /\ serving' = NoTool
    /\ listener' = "accept"
    /\ UNCHANGED <<tool, sent, backlog, rx, batch, reply, runs, daemon>>

\* The daemon is gone: the listener ends and every connection with it.
EndListener ==
    /\ listener = "reading"
    /\ serving \in sent
    /\ daemon = "gone"
    /\ listener' = "ended"
    /\ serving' = NoTool
    /\ backlog' = <<>>
    /\ tool' = [t \in Tools |-> IF tool[t] \in Calling THEN "err" ELSE tool[t]]
    /\ UNCHANGED <<sent, rx, batch, reply, runs, daemon>>

\* The answer goes to the tool if it still listens.
Answer(how) ==
    /\ tool' = [tool EXCEPT ![serving] = IF @ = "waiting" THEN how ELSE @]
    /\ serving' = NoTool
    /\ listener' = "accept"

TakeReply ==
    /\ listener = "waiting"
    /\ serving \in reply
    /\ reply' = reply \ {serving}
    /\ Answer("ok")
    /\ UNCHANGED <<sent, backlog, rx, batch, runs, daemon>>

\* Fault: the listener waits for the reply without a timeout.
WaitForEver ==
    /\ listener = "waiting"
    /\ serving \notin reply
    /\ daemon = "gone"
    /\ Answer("err")
    /\ UNCHANGED <<sent, backlog, rx, batch, reply, runs, daemon>>

\* recv_timeout runs out, or the daemon dropped the request.
ReplyTimeout ==
    /\ listener = "waiting"
    /\ serving \notin reply
    /\ Answer("err")
    /\ UNCHANGED <<sent, backlog, rx, batch, reply, runs, daemon>>

-----------------------------------------------------------------------------
(* The daemon's event loop *)

\* Fault: the requests are read and not taken out of the channel.
PeekRequests ==
    /\ daemon = "loop"
    /\ daemon' = "callback"
    /\ batch' = rx
    /\ UNCHANGED <<tool, sent, backlog, serving, listener, rx, reply, runs>>

\* flush and fsync begin by collecting what is in the channel ...
Callback ==
    /\ daemon = "loop"
    /\ daemon' = "callback"
    /\ batch' = rx
    /\ rx' = <<>>
    /\ UNCHANGED <<tool, sent, backlog, serving, listener, reply, runs>>

\* Fault: one reply channel for all requests; a late reply reaches whoever is
\* served now.
ExecuteForCurrent ==
    /\ daemon = "callback"
    /\ batch # <<>>
    /\ runs' = [runs EXCEPT ![Head(batch)] = @ + 1]
    /\ reply' = IF listener = "waiting" THEN reply \cup {serving} ELSE reply
    /\ batch' = Tail(batch)
    /\ UNCHANGED <<tool, sent, backlog, serving, listener, rx, daemon>>

\* ... execute the requests in order; a reply nobody waits for is dropped ...
Execute ==
    /\ daemon = "callback"
    /\ batch # <<>>
    /\ runs' = [runs EXCEPT ![Head(batch)] = @ + 1]
    /\ reply' = IF serving = Head(batch) THEN reply \cup {serving} ELSE reply
    /\ batch' = Tail(batch)
    /\ UNCHANGED <<tool, sent, backlog, serving, listener, rx, daemon>>

\* ... and go on with the file.
CallbackReturns ==
    /\ daemon = "callback"
    /\ batch = <<>>
    /\ daemon' = "loop"
    /\ UNCHANGED <<tool, sent, backlog, serving, listener, rx, batch, reply, runs>>

Unmount ==
    /\ MayUnmount
    /\ daemon = "loop"
    /\ daemon' = "gone"
    /\ rx' = <<>>
    /\ UNCHANGED <<tool, sent, backlog, serving, listener, batch, reply, runs>>

\* Every tool's call has ended.
Done ==
    /\ \A t \in Tools : tool[t] \in Ended
    /\ UNCHANGED vars

-----------------------------------------------------------------------------
Listen ==
    \/ Accept \/ Forward \/ NothingSent \/ EndListener
    \/ TakeReply \/ ReplyTimeout

Serve == Callback \/ Execute \/ CallbackReturns

Next ==
    \/ \E t \in Tools : Connect(t) \/ Send(t) \/ GiveUp(t)
    \/ Listen \/ Serve \/ Unmount \/ Done

Spec == Init /\ [][Next]_vars

\* The listener thread runs, a callback that has begun ends, and a tool that has
\* connected sends its request or ends.  Nobody has to call flush or fsync, and
\* no tool has to lose patience.
Fairness ==
    /\ WF_vars(Listen)
    /\ WF_vars(Execute \/ CallbackReturns)
    /\ \A t \in Tools : WF_vars(Send(t))

FairSpec == Spec /\ Fairness

-----------------------------------------------------------------------------
(* Properties *)

\* Type invariant; the listener reads or waits exactly while it serves
\* somebody.
TypeOK ==
    /\ tool \in [Tools -> {"new"} \cup Calling \cup Ended]
    /\ sent \subseteq Tools
    /\ serving \in Tools \cup {NoTool}
    /\ listener \in {"accept", "reading", "waiting", "ended"}
    /\ (serving # NoTool) = (listener \in {"reading", "waiting"})
    /\ {backlog, rx, batch} \subseteq Seq(Tools)
    /\ reply \subseteq Tools
    /\ runs \in [Tools -> Nat]
    /\ daemon \in {"loop", "callback", "gone"}

\* The call as its tool sees it: the stages of a pending one are one.
SeenAs(stage) ==
    IF stage = "new" THEN "idle"
    ELSE IF stage \in Calling THEN "pending"
    ELSE IF stage = "ok" THEN "ok" ELSE "failed"
Seen == [t \in Tools |-> SeenAs(tool[t])]

Call == INSTANCE OnlineCall WITH call <- Seen, runs <- runs

\* Through sockets, channels, timeouts on both sides, batches and an unmount the
\* daemon keeps what an online call promises: a request is run at most once, and
\* a tool is told Ok only for a request of its own that was run before; the late
\* reply to a request that timed out answers nobody else.
KeepsPromise == Call!Spec

\* Every tool that connected gets an answer although the daemon may never run a
\* callback again.
EveryToolAnswered == \A t \in Tools : (tool[t] \in Calling) ~> (tool[t] \in Ended)

\* "Operation failed." (OnlineResponse::Err): the request of a tool that was
\* given an error is not executed afterwards.
FailedStaysFailed ==
    [][\A t \in Tools : tool[t] = "err" => runs'[t] = runs[t]]_vars
=============================================================================
