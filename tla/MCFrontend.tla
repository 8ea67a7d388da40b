----------------------------- MODULE MCFrontend -----------------------------
(***************************************************************************)
(* The parts of the frontend around its turns: a connection to the Lark    *)
(* gateway and the messages it brings, the websocket and the frame under   *)
(* it, the sends of the bot, the forms in the chats, the routing table and *)
(* the inbox of uploads.                                                   *)
(* They share no variable, so one run explores each of them by itself:     *)
(* part is the one that moves, and every property is about one part.       *)
(***************************************************************************)
EXTENDS Inbound, Interactive, WsConn, FeishuBot, FrameCodec, Layer1Router,
        Inbox, TLC

VARIABLE part
frontendVars ==
    <<inboundVars, interVars, connVars, botVars, codecVars, routeVars, inboxVars, part>>

\* Values that reach every branch of the codec: zero, the last value of one
\* byte, the first of two and of three, and the largest word.
FewNumbers == {0, 15, 16, 256, 65535}
FewTexts == {<< >>, << 17, 2 >>}
FewHeaderLists ==
    {<< >>, << << << 1 >>, << >> >> >>,
     << << << 1 >>, << 20, 3 >> >>, << << >>, << 1 >> >> >>}

\* Every kind of upload, of a size within, at and beyond the limit, and posts
\* with an image too large and without any.
FewSources ==
    [kind: {"text"}, size: 1..3, parts: {<< "text" >>}]
      \cup [kind: {"docx"}, size: {2}, parts: {<< "text" >>, << "broken" >>}]
      \cup [kind: {"pptx", "xlsx"}, size: {2}, parts: {<< "text", "broken", "text" >>}]
      \cup [kind: {"post"}, size: {0}, parts: {<< >>, << 2, 3 >>}]

NoSource == [m \in Messages |-> {}]
NoFrame == frame = Nil /\ data = << >> /\ damage = "none"

\* Sound: nothing tells two requests, or two messages, apart, and the run has
\* no liveness.
FrontendSymmetry == Permutations(Requests) \cup Permutations(Messages)

\* Bound: what comes after a third send of an event is explored without
\* faults and without the clock.
ThirdSendAlone == SumFunction(sends) > 2 => faultCount = 0 /\ now = 0

FrontendInit ==
    /\ InboundInit /\ InterInit /\ ConnInit /\ BotInit /\ RouteInit /\ InboxStart
    /\ \/ part = "codec" /\ CodecInit /\ source = NoSource
       \/ part = "inbox" /\ NoFrame /\ source \in [Messages -> Sources]
       \/ /\ part \in {"inbound", "interactive", "conn", "bot", "routes"}
          /\ NoFrame /\ source = NoSource

FrontendNext ==
    \/ /\ part = "inbound" /\ InboundNext
       /\ UNCHANGED <<interVars, connVars, botVars, codecVars, routeVars, inboxVars, part>>
    \/ /\ part = "interactive" /\ InterNext
       /\ UNCHANGED <<inboundVars, connVars, botVars, codecVars, routeVars, inboxVars, part>>
    \/ /\ part = "conn" /\ ConnNext
       /\ UNCHANGED <<inboundVars, interVars, botVars, codecVars, routeVars, inboxVars, part>>
    \/ /\ part = "bot" /\ BotNext
       /\ UNCHANGED <<inboundVars, interVars, connVars, codecVars, routeVars, inboxVars, part>>
    \/ /\ part = "codec" /\ CodecNext
       /\ UNCHANGED <<inboundVars, interVars, connVars, botVars, routeVars, inboxVars, part>>
    \/ /\ part = "routes" /\ RouteNext
       /\ UNCHANGED <<inboundVars, interVars, connVars, botVars, codecVars, inboxVars, part>>
    \/ /\ part = "inbox" /\ InboxNext
       /\ UNCHANGED <<inboundVars, interVars, connVars, botVars, codecVars, routeVars, part>>

FrontendSpec == FrontendInit /\ [][FrontendNext]_frontendVars
=============================================================================
