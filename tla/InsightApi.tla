----------------------------- MODULE InsightApi -----------------------------
(* Requests to the insight API: every one passes the rate limiter, which     *)
(* comes before the routes (insight-api/lib/index.js, setupRoutes), and one  *)
(* that is let through runs its controller in the same turn.                 *)
EXTENDS RateLimiter

CONSTANTS BlockHeight, BlockCacheConfirmations, Followers, MaxHeight

ASSUME PagesAssumption ==
    /\ BlockHeight \in Nat
    /\ BlockCacheConfirmations \in Nat
    /\ Followers \subseteq Nat \ {0}
    /\ MaxHeight \in Nat

VARIABLES nodeHeight, onChain, follower, highest, deepest, height, page, summary, run

Pages == INSTANCE BlockPages WITH Callers <- Clients

pageVars == <<nodeHeight, onChain, follower, highest, deepest, height, page, summary, run>>

apiVars == <<clients, timers, admitted, sinceBan,
          nodeHeight, onChain, follower, highest, deepest, height, page, summary, run>>

ApiInit == LimiterInit /\ Pages!PagesInit

RequestPage(c) == Admit(c) /\ Pages!AskPage(c)
RequestSummary(c) == Admit(c) /\ Pages!AskSummary(c)

\* Any other route, or one whose parameters are refused.
RequestOther(c) == Admit(c) /\ UNCHANGED pageVars

RequestRefused(c) == Refuse(c) /\ UNCHANGED pageVars

TimePasses ==
    /\ Tick \/ \E c \in Clients : TimerFires(c)
    /\ UNCHANGED pageVars

PageAnswered(c) ==
    \/ Pages!BlockAnswered(c)
    \/ Pages!HeaderAnswered(c)
    \/ Pages!SubsidyAnswered(c)
    \/ Pages!PageDone(c)
    \/ Pages!SummaryBlockAnswered(c)
    \/ Pages!SummaryDone(c)
    \/ Pages!RequestFails(c)

PagesMove ==
    /\ \/ \E dropped, added \in 0 .. MaxHeight : Pages!NodeAdvances(dropped, added)
       \/ \E h \in 0 .. MaxHeight : Pages!HeightArrives(h)
       \/ \E c \in Clients : PageAnswered(c)
       \/ Pages!Evicted
    /\ UNCHANGED limiterVars

ApiNext ==
    \/ \E c \in Clients :
          RequestPage(c) \/ RequestSummary(c) \/ RequestOther(c) \/ RequestRefused(c)
    \/ TimePasses
    \/ PagesMove

ApiSpec == ApiInit /\ [][ApiNext]_apiVars

-----------------------------------------------------------------------------
\* Kept pages and summaries are true, as BlockPages states it of each.
KeptIsTrue == Pages!PagesAreTrue /\ Pages!SummariesAreTrue
=============================================================================
