-------------------------- MODULE OnlineControlProofs --------------------------
(***************************************************************************)
(* The online control socket keeps what an online call promises, for any   *)
(* number of tools: OnlineControl implements OnlineCall under the mapping  *)
(* Seen.                                                                   *)
(***************************************************************************)
EXTENDS OnlineControl, TLAPS

-----------------------------------------------------------------------------
(* Queues *)

Elts(s) == {s[i] : i \in 1 .. Len(s)}
Distinct(s) == \A i, j \in 1 .. Len(s) : i # j => s[i] # s[j]

\* A queue that gets a new element.
LEMMA AppendElts ==
  ASSUME NEW S, NEW s \in Seq(S), NEW x \in S
  PROVE  /\ Append(s, x) \in Seq(S)
         /\ Elts(Append(s, x)) = Elts(s) \cup {x}
         /\ Distinct(s) /\ x \notin Elts(s) => Distinct(Append(s, x))
<1>1. /\ Append(s, x) \in Seq(S) /\ Len(Append(s, x)) = Len(s) + 1
      /\ \A i \in 1 .. Len(s) : Append(s, x)[i] = s[i]
      /\ Append(s, x)[Len(s) + 1] = x
  OBVIOUS
<1>2. Len(s) \in Nat
  OBVIOUS
<1>3. Elts(Append(s, x)) = Elts(s) \cup {x}
  <2>1. ASSUME NEW i \in 1 .. Len(s) + 1 PROVE Append(s, x)[i] \in Elts(s) \cup {x}
    <3>1. CASE i \in 1 .. Len(s)
      BY <1>1, <3>1 DEF Elts
    <3>2. CASE i = Len(s) + 1
      BY <1>1, <3>2
    <3> QED
      BY <1>2, <3>1, <3>2
  <2>2. ASSUME NEW i \in 1 .. Len(s) PROVE s[i] \in Elts(Append(s, x))
    <3>1. i \in 1 .. Len(s) + 1
      BY <1>2
    <3> QED
      BY <1>1, <3>1 DEF Elts
  <2>3. x \in Elts(Append(s, x))
    <3>1. Len(s) + 1 \in 1 .. Len(s) + 1
      BY <1>2
    <3> QED
      BY <1>1, <3>1 DEF Elts
  <2> QED
    BY <1>1, <2>1, <2>2, <2>3 DEF Elts
<1>4. ASSUME Distinct(s), x \notin Elts(s),
             NEW i \in 1 .. Len(s) + 1, NEW j \in 1 .. Len(s) + 1, i # j
      PROVE  Append(s, x)[i] # Append(s, x)[j]
  <2>1. CASE i \in 1 .. Len(s) /\ j \in 1 .. Len(s)
    BY <1>1, <1>4, <2>1 DEF Distinct
  <2>2. CASE i = Len(s) + 1 /\ j \in 1 .. Len(s)
    BY <1>1, <1>4, <2>2 DEF Elts
  <2>3. CASE j = Len(s) + 1 /\ i \in 1 .. Len(s)
    BY <1>1, <1>4, <2>3 DEF Elts
  <2> QED
    BY <1>2, <1>4, <2>1, <2>2, <2>3
<1> QED
  BY <1>1, <1>3, <1>4 DEF Distinct

\* A queue that loses its head.
LEMMA TailElts ==
  ASSUME NEW S, NEW s \in Seq(S), s # <<>>
  PROVE  /\ Head(s) \in S /\ Head(s) \in Elts(s)
         /\ Tail(s) \in Seq(S)
         /\ Elts(Tail(s)) \subseteq Elts(s)
         /\ Distinct(s) => Distinct(Tail(s)) /\ Head(s) \notin Elts(Tail(s))
<1>1. /\ Head(s) = s[1] /\ Len(s) \in Nat /\ Len(s) >= 1 /\ Len(Tail(s)) = Len(s) - 1
      /\ \A i \in 1 .. Len(s) - 1 : Tail(s)[i] = s[i + 1]
      /\ Tail(s) \in Seq(S)
  OBVIOUS
<1>2. 1 \in 1 .. Len(s) /\ \A i \in 1 .. Len(s) - 1 : i + 1 \in 1 .. Len(s) /\ i + 1 # 1
  BY <1>1
<1>3. Head(s) \in S /\ Head(s) \in Elts(s)
  BY <1>1, <1>2 DEF Elts
<1>4. Elts(Tail(s)) \subseteq Elts(s)
  BY <1>1, <1>2 DEF Elts
<1>5. ASSUME Distinct(s) PROVE Distinct(Tail(s)) /\ Head(s) \notin Elts(Tail(s))
  <2>1. Distinct(Tail(s))
    <3> SUFFICES ASSUME NEW i \in 1 .. Len(s) - 1, NEW j \in 1 .. Len(s) - 1, i # j
                 PROVE  Tail(s)[i] # Tail(s)[j]
      BY <1>1 DEF Distinct
    <3>1. i + 1 # j + 1
      BY <1>1
    <3> QED
      BY <1>1, <1>2, <1>5, <3>1 DEF Distinct
  <2>2. Head(s) \notin Elts(Tail(s))
    BY <1>1, <1>2, <1>5 DEF Distinct, Elts
  <2> QED
    BY <2>1, <2>2
<1> QED
  BY <1>1, <1>3, <1>4, <1>5

\* An empty queue holds nobody.
LEMMA NoElts == Elts(<<>>) = {} /\ Distinct(<<>>)
  BY DEF Elts, Distinct

-----------------------------------------------------------------------------
(* Where a request is *)

Reading == IF listener = "reading" THEN {serving} ELSE {}

\* The connections and requests that are still on their way to the daemon.
OnTheWay == Elts(backlog) \cup Reading \cup Elts(rx) \cup Elts(batch)

\* A connection or request is in one place only.
OnePlace ==
    /\ Distinct(backlog) /\ Distinct(rx) /\ Distinct(batch)
    /\ Elts(backlog) \cap (Reading \cup Elts(rx) \cup Elts(batch)) = {}
    /\ Reading \cap (Elts(rx) \cup Elts(batch)) = {}
    /\ Elts(rx) \cap Elts(batch) = {}

\* What is on its way has not been run, nothing is run that nobody asked for,
\* and nothing is run twice.
RunOnce ==
    /\ \A t \in OnTheWay : tool[t] # "new" /\ runs[t] = 0
    /\ \A t \in Tools : runs[t] \in {0, 1} /\ (runs[t] = 1 => tool[t] # "new")

\* A reply waits only for the tool that is being served, which was run.
OwnReply ==
    \A t \in reply : t = serving /\ listener = "waiting" /\ runs[t] = 1

Inv == TypeOK /\ OnePlace /\ RunOnce /\ OwnReply

\* At the start nobody is on the way, and nothing was run or answered.
LEMMA InvInit == Init => Inv
  BY ToolAssumption, NoElts
  DEF Init, Inv, TypeOK, OnePlace, RunOnce, OwnReply, OnTheWay, Reading, Calling, Ended

\* Every step of a tool, the listener, the daemon or the unmount keeps it.
LEMMA InvStep ==
  ASSUME Inv, [Next]_vars
  PROVE  Inv'
<1> USE ToolAssumption DEF Inv, TypeOK, Calling, Ended
<1>q. backlog \in Seq(Tools) /\ rx \in Seq(Tools) /\ batch \in Seq(Tools)
  OBVIOUS
<1>1. ASSUME NEW t \in Tools, Connect(t) PROVE Inv'
  <2>1. t \notin OnTheWay /\ t \notin reply
    BY <1>1 DEF Connect, RunOnce, OwnReply
  <2>2. CASE daemon # "gone"
    <3>1. backlog' = Append(backlog, t) /\ tool' = [tool EXCEPT ![t] = "connected"]
      BY <1>1, <2>2 DEF Connect
    <3>2. backlog' \in Seq(Tools) /\ Elts(backlog') = Elts(backlog) \cup {t} /\ Distinct(backlog')
      BY <1>q, <2>1, <3>1, AppendElts DEF OnePlace, OnTheWay
    <3>3. UNCHANGED <<sent, serving, listener, rx, batch, reply, runs, daemon>>
      BY <1>1 DEF Connect
    <3>4. OnePlace'
      BY <2>1, <3>2, <3>3 DEF OnePlace, Reading, OnTheWay
    <3>5. runs[t] = 0 /\ tool[t] = "new"
      BY <1>1 DEF Connect, RunOnce
    <3>6. OnTheWay' = OnTheWay \cup {t}
      BY <3>2, <3>3 DEF OnTheWay, Reading
    <3>7. RunOnce'
      BY <3>1, <3>3, <3>5, <3>6 DEF RunOnce
    <3> QED
      BY <3>1, <3>2, <3>3, <3>4, <3>7 DEF OwnReply
  <2>3. CASE daemon = "gone"
    <3>1. tool' = [tool EXCEPT ![t] = "err"]
      BY <1>1, <2>3 DEF Connect
    <3>2. UNCHANGED <<backlog, sent, serving, listener, rx, batch, reply, runs, daemon>>
      BY <1>1, <2>3 DEF Connect
    <3> QED
      BY <3>1, <3>2 DEF OnePlace, RunOnce, OwnReply, OnTheWay, Reading
  <2> QED
    BY <2>2, <2>3
<1>2. ASSUME NEW t \in Tools, Send(t) \/ GiveUp(t) PROVE Inv'
  <2>1. UNCHANGED <<backlog, serving, listener, rx, batch, reply, runs, daemon>>
    BY <1>2 DEF Send, GiveUp
  <2>2. PICK s \in {"waiting", "gave_up"} : tool' = [tool EXCEPT ![t] = s]
    BY <1>2 DEF Send, GiveUp
  <2>3. sent' \subseteq Tools
    BY <1>2 DEF Send, GiveUp
  <2> QED
    BY <2>1, <2>2, <2>3 DEF OnePlace, RunOnce, OwnReply, OnTheWay, Reading
<1>3. CASE Accept
  <2> DEFINE h == Head(backlog)
  <2>1. /\ h \in Tools /\ h \in Elts(backlog) /\ backlog' \in Seq(Tools)
        /\ Elts(backlog') \subseteq Elts(backlog) /\ Distinct(backlog') /\ h \notin Elts(backlog')
    BY <1>3, <1>q, TailElts DEF Accept, OnePlace
  <2>2. /\ serving' = h /\ listener' = "reading" /\ listener = "accept"
        /\ UNCHANGED <<tool, sent, rx, batch, reply, runs, daemon>>
    BY <1>3 DEF Accept
  <2>3. Reading = {} /\ Reading' = {h} /\ reply = {}
    BY <2>2 DEF Reading, OwnReply
  <2>4. OnePlace'
    BY <2>1, <2>2, <2>3 DEF OnePlace
  <2>5. OnTheWay' \subseteq OnTheWay
    BY <2>1, <2>2, <2>3 DEF OnTheWay
  <2>6. RunOnce'
    BY <2>2, <2>5 DEF RunOnce
  <2> QED
    BY <2>1, <2>2, <2>3, <2>4, <2>6 DEF OwnReply
<1>4. CASE Forward
  <2>1. /\ rx' = Append(rx, serving) /\ listener' = "waiting" /\ listener = "reading"
        /\ serving \in Tools
        /\ UNCHANGED <<tool, sent, backlog, serving, batch, reply, runs, daemon>>
    BY <1>4 DEF Forward
  <2>2. Reading = {serving} /\ Reading' = {} /\ reply = {}
    BY <2>1 DEF Reading, OwnReply
  <2>3. rx' \in Seq(Tools) /\ Elts(rx') = Elts(rx) \cup {serving} /\ Distinct(rx')
    BY <1>q, <2>1, <2>2, AppendElts DEF OnePlace
  <2>4. OnePlace'
    BY <2>1, <2>2, <2>3 DEF OnePlace
  <2>5. OnTheWay' = OnTheWay
    BY <2>1, <2>2, <2>3 DEF OnTheWay
  <2>6. RunOnce'
    BY <2>1, <2>5 DEF RunOnce
  <2> QED
    BY <2>1, <2>2, <2>3, <2>4, <2>6 DEF OwnReply
<1>5. CASE NothingSent
  <2>1. /\ serving' = NoTool /\ listener' = "accept" /\ listener = "reading"
        /\ UNCHANGED <<tool, sent, backlog, rx, batch, reply, runs, daemon>>
    BY <1>5 DEF NothingSent
  <2> QED
    BY <2>1 DEF OnePlace, RunOnce, OwnReply, OnTheWay, Reading
<1>6. CASE EndListener
  <2>1. /\ serving' = NoTool /\ listener' = "ended" /\ listener = "reading" /\ backlog' = <<>>
        /\ UNCHANGED <<sent, rx, batch, reply, runs, daemon>>
    BY <1>6 DEF EndListener
  <2>2. tool' = [t \in Tools |-> IF tool[t] \in Calling THEN "err" ELSE tool[t]]
    BY <1>6 DEF EndListener
  <2>3. tool' \in [Tools -> {"new"} \cup Calling \cup Ended]
        /\ \A t \in Tools : tool[t] # "new" => tool'[t] # "new"
    BY <2>2
  <2>4. Elts(backlog') = {} /\ Distinct(backlog') /\ Reading' = {} /\ backlog' \in Seq(Tools)
    BY <2>1, NoElts DEF Reading
  <2>5. OnTheWay' \subseteq OnTheWay /\ OnTheWay' \subseteq Tools
    BY <1>q, <2>1, <2>4 DEF OnTheWay, Elts
  <2>6. OnePlace' /\ RunOnce'
    BY <2>1, <2>3, <2>4, <2>5 DEF OnePlace, RunOnce
  <2> QED
    BY <2>1, <2>3, <2>4, <2>6 DEF OwnReply
<1>7. ASSUME NEW how \in {"ok", "err"}, Answer(how), listener = "waiting",
             reply' = reply \ {serving}, UNCHANGED <<sent, backlog, rx, batch, runs, daemon>>
      PROVE  Inv'
  <2>1. serving' = NoTool /\ listener' = "accept" /\ serving \in Tools
    BY <1>7 DEF Answer
  <2>2. tool' \in [Tools -> {"new"} \cup Calling \cup Ended]
        /\ \A t \in Tools : tool[t] # "new" => tool'[t] # "new"
    BY <1>7 DEF Answer
  <2>3. Reading = {} /\ Reading' = {} /\ reply' = {}
    BY <1>7, <2>1 DEF Reading, OwnReply
  <2>4. OnTheWay' = OnTheWay /\ OnTheWay \subseteq Tools
    BY <1>7, <1>q, <2>3 DEF OnTheWay, Elts
  <2>5. OnePlace' /\ RunOnce'
    BY <1>7, <2>2, <2>3, <2>4 DEF OnePlace, RunOnce
  <2> QED
    BY <1>7, <2>1, <2>2, <2>3, <2>5 DEF OwnReply
<1>8. CASE TakeReply
  BY <1>8, <1>7 DEF TakeReply
<1>9. CASE ReplyTimeout
  <2>1. reply' = reply \ {serving}
    BY <1>9 DEF ReplyTimeout
  <2> QED
    BY <1>9, <2>1, <1>7 DEF ReplyTimeout
<1>10. CASE Callback
  <2>1. /\ batch' = rx /\ rx' = <<>> /\ daemon' = "callback"
        /\ UNCHANGED <<tool, sent, backlog, serving, listener, reply, runs>>
    BY <1>10 DEF Callback
  <2>2. Elts(rx') = {} /\ Distinct(rx') /\ rx' \in Seq(Tools) /\ Reading' = Reading
    BY <2>1, NoElts DEF Reading
  <2>3. OnTheWay' \subseteq OnTheWay
    BY <2>1, <2>2 DEF OnTheWay
  <2> QED
    BY <1>q, <2>1, <2>2, <2>3 DEF OnePlace, RunOnce, OwnReply
<1>11. CASE Execute
  <2> DEFINE h == Head(batch)
  <2>1. /\ h \in Tools /\ h \in Elts(batch) /\ batch' \in Seq(Tools)
        /\ Elts(batch') \subseteq Elts(batch) /\ Distinct(batch') /\ h \notin Elts(batch')
    BY <1>11, <1>q, TailElts DEF Execute, OnePlace
  <2>2. /\ runs' = [runs EXCEPT ![h] = @ + 1]
        /\ reply' = IF serving = h THEN reply \cup {serving} ELSE reply
        /\ UNCHANGED <<tool, sent, backlog, serving, listener, rx, daemon>>
    BY <1>11 DEF Execute
  <2>3. runs[h] = 0 /\ tool[h] # "new" /\ h \notin Reading
    BY <2>1 DEF RunOnce, OnTheWay, OnePlace
  <2>4. runs'[h] = 1 /\ \A t \in Tools \ {h} : runs'[t] = runs[t]
    BY <2>1, <2>2, <2>3
  <2>5. OnTheWay' \subseteq OnTheWay \ {h} /\ OnTheWay \subseteq Tools
    <3>1. Reading' = Reading /\ rx' = rx /\ backlog' = backlog
      BY <2>2 DEF Reading
    <3>2. h \notin Elts(backlog) \cup Reading \cup Elts(rx) \cup Elts(batch')
      BY <2>1 DEF OnePlace
    <3>3. OnTheWay \subseteq Tools
      BY <1>q DEF OnTheWay, Reading, Elts
    <3> QED
      BY <2>1, <3>1, <3>2, <3>3 DEF OnTheWay
  <2>6. OnePlace'
    BY <2>1, <2>2 DEF OnePlace, Reading
  <2>7. RunOnce'
    BY <2>2, <2>3, <2>4, <2>5 DEF RunOnce
  <2>8. OwnReply'
    <3>1. h \notin reply
      BY <2>3 DEF OwnReply
    <3>2. serving = h => listener = "waiting"
      BY <2>1, <2>3 DEF Reading
    <3> QED
      BY <2>2, <2>4, <3>1, <3>2 DEF OwnReply
  <2> QED
    BY <2>1, <2>2, <2>4, <2>6, <2>7, <2>8
<1>12. CASE CallbackReturns
  BY <1>12 DEF CallbackReturns, OnePlace, RunOnce, OwnReply, OnTheWay, Reading
<1>13. CASE Unmount
  <2>1. /\ rx' = <<>> /\ daemon' = "gone"
        /\ UNCHANGED <<tool, sent, backlog, serving, listener, batch, reply, runs>>
    BY <1>13 DEF Unmount
  <2>2. Elts(rx') = {} /\ Distinct(rx') /\ rx' \in Seq(Tools) /\ Reading' = Reading
    BY <2>1, NoElts DEF Reading
  <2>3. OnTheWay' \subseteq OnTheWay
    BY <2>1, <2>2 DEF OnTheWay
  <2> QED
    BY <1>q, <2>1, <2>2, <2>3 DEF OnePlace, RunOnce, OwnReply
<1>14. CASE UNCHANGED vars
  BY <1>14 DEF vars, OnePlace, RunOnce, OwnReply, OnTheWay, Reading
<1> QED
  BY <1>1, <1>2, <1>3, <1>4, <1>5, <1>6, <1>8, <1>9, <1>10, <1>11, <1>12, <1>13, <1>14
  DEF Next, Listen, Serve, Done

-----------------------------------------------------------------------------
(* The refinement *)

\* A step that moves one tool's call to a stage is a step of what is seen.
LEMMA SeenOne ==
  ASSUME TypeOK, NEW t \in Tools, NEW s \in {"new"} \cup Calling \cup Ended,
         tool' = [tool EXCEPT ![t] = s]
  PROVE  Seen' = [Seen EXCEPT ![t] = SeenAs(s)]
  BY DEF TypeOK, Seen

\* Every step of tools, listener and daemon is a step of the call or none.
LEMMA CallStep ==
  ASSUME Inv, [Next]_vars
  PROVE  [Call!Next]_<<Seen, runs>>
<1> USE DEF Inv
<1>s. \A t \in Tools : /\ tool[t] = "new" <=> Seen[t] = "idle"
                       /\ tool[t] \in Calling <=> Seen[t] = "pending"
  BY DEF TypeOK, Seen, SeenAs, Calling, Ended
<1>1. ASSUME NEW t \in Tools, Connect(t) PROVE Call!Next
  <2>1. CASE daemon # "gone"
    <3>1. Seen' = [Seen EXCEPT ![t] = "pending"]
      BY <1>1, <2>1, SeenOne DEF Connect, SeenAs, Calling
    <3>2. Call!Ask(t)
      BY <1>1, <1>s, <3>1 DEF Connect, Call!Ask
    <3> QED
      BY <3>2 DEF Call!Next
  <2>2. CASE daemon = "gone"
    <3>1. Seen' = [Seen EXCEPT ![t] = "failed"]
      BY <1>1, <2>2, SeenOne DEF Connect, SeenAs, Calling, Ended
    <3>2. Call!Refuse(t)
      BY <1>1, <1>s, <3>1 DEF Connect, Call!Refuse
    <3> QED
      BY <3>2 DEF Call!Next
  <2> QED
    BY <2>1, <2>2
<1>2. ASSUME NEW t \in Tools, Send(t) PROVE UNCHANGED <<Seen, runs>>
  <2>1. Seen' = [Seen EXCEPT ![t] = "pending"]
    BY <1>2, SeenOne DEF Send, SeenAs, Calling
  <2>2. Seen[t] = "pending"
    BY <1>2, <1>s DEF Send, Calling
  <2> QED
    BY <1>2, <2>1, <2>2 DEF Send, Seen
<1>3. ASSUME NEW t \in Tools, tool[t] \in Calling, UNCHANGED runs,
             NEW s \in {"err", "gave_up"}, tool' = [tool EXCEPT ![t] = s]
      PROVE  Call!Next
  <2>1. Seen' = [Seen EXCEPT ![t] = "failed"]
    BY <1>3, SeenOne DEF SeenAs, Calling, Ended
  <2>2. Seen' = [u \in Tools |-> IF u \in {t} THEN "failed" ELSE Seen[u]]
    BY <2>1 DEF Seen
  <2>3. Call!Fail({t})
    BY <1>3, <1>s, <2>2 DEF Call!Fail
  <2> QED
    BY <2>3 DEF Call!Next
<1>4. ASSUME NEW t \in Tools, GiveUp(t) PROVE Call!Next
  BY <1>3, <1>4 DEF GiveUp
<1>5. CASE EndListener
  <2> DEFINE S == {t \in Tools : tool[t] \in Calling}
  <2>1. Seen' = [t \in Tools |-> IF t \in S THEN "failed" ELSE Seen[t]]
    BY <1>5 DEF EndListener, Seen, SeenAs, Calling, TypeOK
  <2>2. Call!Fail(S)
    BY <1>5, <1>s, <2>1 DEF EndListener, Call!Fail
  <2> QED
    BY <2>2 DEF Call!Next
<1>6. CASE TakeReply
  <2>1. serving \in Tools /\ runs[serving] = 1 /\ UNCHANGED runs
        /\ tool' = [tool EXCEPT ![serving] = IF @ = "waiting" THEN "ok" ELSE @]
    BY <1>6 DEF TakeReply, Answer, OwnReply, TypeOK
  <2>2. CASE tool[serving] = "waiting"
    <3>1. Seen' = [Seen EXCEPT ![serving] = "ok"]
      BY <2>1, <2>2, SeenOne DEF SeenAs, Calling, Ended
    <3>2. Seen[serving] = "pending"
      BY <2>1, <2>2, <1>s DEF Calling
    <3>3. Call!Succeed(serving)
      BY <2>1, <3>1, <3>2 DEF Call!Succeed
    <3> QED
      BY <2>1, <3>3 DEF Call!Next
  <2>3. CASE tool[serving] # "waiting"
    BY <2>1, <2>3 DEF TypeOK, Seen
  <2> QED
    BY <2>2, <2>3
<1>7. CASE ReplyTimeout
  <2>1. serving \in Tools /\ UNCHANGED runs
        /\ tool' = [tool EXCEPT ![serving] = IF @ = "waiting" THEN "err" ELSE @]
    BY <1>7 DEF ReplyTimeout, Answer, TypeOK
  <2>2. CASE tool[serving] = "waiting"
    BY <2>1, <2>2, <1>3 DEF Calling
  <2>3. CASE tool[serving] # "waiting"
    BY <2>1, <2>3 DEF TypeOK, Seen
  <2> QED
    BY <2>2, <2>3
<1>8. CASE Execute
  <2> DEFINE h == Head(batch)
  <2>1. h \in Tools /\ h \in Elts(batch)
    BY <1>8, TailElts DEF Execute, TypeOK
  <2>2. runs[h] = 0 /\ tool[h] # "new"
    BY <2>1 DEF RunOnce, OnTheWay
  <2>3. runs' = [runs EXCEPT ![h] = 1] /\ UNCHANGED Seen
    BY <1>8, <2>1, <2>2 DEF Execute, TypeOK, Seen
  <2>4. Call!Run(h)
    BY <1>s, <2>1, <2>2, <2>3 DEF Call!Run
  <2> QED
    BY <2>1, <2>4 DEF Call!Next
<1>9. CASE \/ Accept \/ Forward \/ NothingSent \/ Callback \/ CallbackReturns
           \/ Unmount \/ UNCHANGED vars
  <2>1. UNCHANGED <<tool, runs>>
    BY <1>9 DEF Accept, Forward, NothingSent, Callback, CallbackReturns, Unmount, vars
  <2> QED
    BY <2>1 DEF Seen
<1> QED
  BY <1>1, <1>2, <1>4, <1>5, <1>6, <1>7, <1>8, <1>9 DEF Next, Listen, Serve, Done

\* For any number of tools, with timeouts on both sides, late replies, batches
\* and the unmount of the daemon: a request is run at most once, only after its
\* tool asked, and a tool is told Ok only for its own request that was run.
THEOREM PromiseKept == Spec => KeepsPromise
<1>1. Inv /\ [Next]_vars => Inv'
  BY InvStep
<1>2. Init => Call!Init
  BY DEF Init, Call!Init, Seen, SeenAs
<1>3. Inv /\ [Next]_vars => [Call!Next]_<<Seen, runs>>
  BY CallStep
<1> QED
  BY InvInit, <1>1, <1>2, <1>3, PTL DEF Spec, KeepsPromise, Call!Spec
=============================================================================
