-------------------------- MODULE PermissionBanner --------------------------
(***************************************************************************)
(* The permission banner of the web page: app/access-fix.js shows one      *)
(* request of the open chat or of a subagent of it and sends the user's    *)
(* reply, app/control-plane.js asks the server whether the request may be  *)
(* answered without the user.  Both mark what was answered, for fifteen    *)
(* seconds (permissionSuppression), so that a read of the server made      *)
(* before the answer does not bring it back.                               *)
(*                                                                         *)
(* The click of allowPermissionInProject, which answers whatever the       *)
(* banner has when its own request returns, is left out.                   *)
(***************************************************************************)
EXTENDS Naturals

CONSTANTS BannerChats,  \* chats the page can open
          NoBannerChat, \* the home screen
          PermAsks,         \* permission requests
          NoAsk,
          AskChat,      \* the chat of a request, or of the subagent that made it
          AskKids,      \* requests of subagents
          MaxClicks     \* bound: replies the user gives to a request

ASSUME BannerAssumption ==
  /\ NoBannerChat \notin BannerChats /\ NoAsk \notin PermAsks
  /\ AskChat \in [PermAsks -> BannerChats] /\ AskKids \subseteq PermAsks
  /\ MaxClicks \in Nat

VARIABLES bannerChat,  \* the chat of location.hash
          hashDue,     \* its hashchange was not handled yet
          kidsOf,      \* the chat whose subagents CustomOpenCodeSessionFamily lists
          asks,        \* the server: absent, pending or settled
          askedEvents,       \* permission.asked events on their way
          replied,     \* permission.replied, rejected or cancelled events on their way
          endTold,        \* requests whose end was reported to the page
          permission,      \* activePermission with the chat and the hidden flag of the banner
          lastCleared, \* lastClearBannerKey, for three seconds
          suppressed,  \* permissionSuppression.resolved
          bannerRead,  \* refreshPermission under way
          refreshAgain,
          readMissed,  \* the last read failed, or found what had just been cleared
          permReply,    \* the user's reply to a request: none, sent, or taken by the server
          clicks,      \* replies the user gave, per request
          shownAgain,       \* requests whose reply failed, or whose suppression was too short
          risk         \* autoEvaluate of the control plane under way

bannerVars == <<bannerChat, hashDue, kidsOf, asks, askedEvents, replied, endTold, permission,
                lastCleared, suppressed, bannerRead, refreshAgain, readMissed, permReply,
                clicks, shownAgain, risk>>
serverAsks == <<asks, askedEvents, replied, endTold>>
bannerReads == <<bannerRead, refreshAgain, readMissed>>
bannerPlace == <<bannerChat, hashDue, kidsOf>>
userReplies == <<permReply, clicks, shownAgain>>

NoCleared == [ask |-> NoAsk, chat |-> NoBannerChat]
NoPermission == [ask |-> NoAsk, chat |-> NoBannerChat, shown |-> FALSE]
NoBannerRead == [stage |-> "none", chat |-> NoBannerChat, rows |-> {}]
NoRisk == [stage |-> "none", chat |-> NoBannerChat, ask |-> NoAsk]

Pending == {r \in PermAsks : asks[r] = "pending"}
\* The open chat and the subagents listed for it.
InCurrentFamily(r) ==
  /\ bannerChat # NoBannerChat
  /\ AskChat[r] = IF r \in AskKids THEN kidsOf ELSE bannerChat

-----------------------------------------------------------------------------
(* clearBanner, showPermission, refreshPermission *)

ClearBanner ==
  /\ permission' = NoPermission
  /\ lastCleared' = IF permission.ask = NoAsk THEN lastCleared
                    ELSE [ask |-> permission.ask, chat |-> permission.chat]

\* Faulty variant: what was answered may be shown again.
MayShowAnswered(r) == InCurrentFamily(r)
MayShow(r) == InCurrentFamily(r) /\ r \notin suppressed

JustCleared(r) == lastCleared = [ask |-> r, chat |-> bannerChat]

ShowPermission(r) ==
  IF ~MayShow(r) THEN ClearBanner
  ELSE /\ UNCHANGED lastCleared
       /\ permission' = IF JustCleared(r) THEN permission
                    ELSE [ask |-> r, chat |-> bannerChat, shown |-> TRUE]

\* Faulty variant: what is asked for during a read is not made up for.
ReadLater == refreshAgain
RefreshLater == TRUE

\* One read at a time; the home screen has none.
RefreshPermission ==
  /\ UNCHANGED readMissed
  /\ \/ /\ bannerRead.stage # "none"
        /\ refreshAgain' = RefreshLater /\ UNCHANGED <<bannerRead, permission, lastCleared>>
     \/ /\ bannerRead.stage = "none" /\ bannerChat = NoBannerChat
        /\ ClearBanner /\ UNCHANGED <<bannerRead, refreshAgain>>
     \/ /\ bannerRead.stage = "none" /\ bannerChat # NoBannerChat
        /\ bannerRead' = [stage |-> "asked", chat |-> bannerChat, rows |-> {}]
        /\ UNCHANGED <<permission, lastCleared, refreshAgain>>

\* permissionPolling, every five or thirty seconds or woken.
Poll ==
  /\ RefreshPermission
  /\ UNCHANGED <<bannerPlace, serverAsks, suppressed, userReplies, risk>>

BannerReadServed ==
  /\ bannerRead.stage = "asked"
  /\ bannerRead' = [bannerRead EXCEPT !.stage = "served", !.rows = Pending]
  /\ UNCHANGED <<bannerPlace, serverAsks, permission, lastCleared, suppressed, refreshAgain,
                 readMissed, userReplies, risk>>

\* The end of a read: what was asked for meanwhile starts another one (queueMicrotask).
ReadEnds ==
  /\ refreshAgain' = FALSE
  /\ bannerRead' = IF refreshAgain /\ bannerChat # NoBannerChat
                   THEN [stage |-> "asked", chat |-> bannerChat, rows |-> {}]
                   ELSE NoBannerRead

\* The first request of the family that was not answered is shown.
ReadArrives ==
  /\ bannerRead.stage = "served"
  /\ ReadEnds
  /\ LET fitting == {r \in bannerRead.rows : MayShow(r)} IN
     \/ /\ bannerRead.chat # bannerChat
        /\ IF refreshAgain /\ bannerChat = NoBannerChat THEN ClearBanner
           ELSE UNCHANGED <<permission, lastCleared>>
        /\ UNCHANGED readMissed
     \/ /\ bannerRead.chat = bannerChat /\ fitting = {}
        /\ ClearBanner
        /\ readMissed' = FALSE
     \/ /\ bannerRead.chat = bannerChat
        /\ \E r \in fitting : ShowPermission(r) /\ readMissed' = JustCleared(r)
  /\ UNCHANGED <<bannerPlace, serverAsks, suppressed, userReplies, risk>>

BannerReadFails ==
  /\ bannerRead.stage # "none"
  /\ ReadEnds
  /\ IF refreshAgain /\ bannerChat = NoBannerChat THEN ClearBanner
     ELSE UNCHANGED <<permission, lastCleared>>
  /\ readMissed' = TRUE
  /\ UNCHANGED <<bannerPlace, serverAsks, suppressed, userReplies, risk>>

\* Three seconds after the banner was cleared, fifteen after a request was answered.
ClearedExpires ==
  /\ lastCleared # NoCleared
  /\ lastCleared' = NoCleared
  /\ UNCHANGED <<bannerPlace, serverAsks, permission, suppressed, bannerReads, userReplies,
                 risk>>

SuppressionEnds(r) ==
  /\ r \in suppressed
  /\ suppressed' = suppressed \ {r}
  /\ shownAgain' = IF r \in bannerRead.rows \cup askedEvents \/ asks[r] = "pending"
              THEN shownAgain \cup {r} ELSE shownAgain
  /\ UNCHANGED <<bannerPlace, serverAsks, permission, lastCleared, bannerReads, permReply,
                 clicks, risk>>

-----------------------------------------------------------------------------
(* The server and its events, and the chat that is open *)

AskArrives(r) ==
  /\ asks[r] = "absent"
  /\ asks' = [asks EXCEPT ![r] = "pending"]
  /\ askedEvents' = askedEvents \cup {r}
  /\ UNCHANGED <<bannerPlace, replied, endTold, permission, lastCleared, suppressed,
                 bannerReads, userReplies, risk>>

\* The request ends, answered by anyone.
PermSettles(r) ==
  /\ asks' = [asks EXCEPT ![r] = "settled"]
  /\ replied' = replied \cup {r}
  /\ UNCHANGED <<askedEvents, endTold>>

\* Another client answers, or the session is stopped.
PermSettledElsewhere(r) ==
  /\ asks[r] = "pending"
  /\ PermSettles(r)
  /\ UNCHANGED <<bannerPlace, permission, lastCleared, suppressed, bannerReads, userReplies,
                 risk>>

HearAsked(r) ==
  /\ r \in askedEvents
  /\ askedEvents' = askedEvents \ {r}
  /\ IF InCurrentFamily(r) THEN ShowPermission(r) ELSE UNCHANGED <<permission, lastCleared>>
  /\ UNCHANGED <<bannerPlace, asks, replied, endTold, suppressed, bannerReads, userReplies,
                 risk>>

HearReplied(r) ==
  /\ r \in replied \ askedEvents
  /\ replied' = replied \ {r}
  /\ endTold' = endTold \cup {r}
  /\ RefreshPermission
  /\ UNCHANGED <<bannerPlace, asks, askedEvents, suppressed, userReplies, risk>>

OpenChatAt(c) ==
  /\ ~hashDue /\ c # bannerChat
  /\ bannerChat' = c
  /\ hashDue' = TRUE
  /\ UNCHANGED <<kidsOf, serverAsks, permission, lastCleared, suppressed, bannerReads,
                 userReplies, risk>>

\* selectSession, and selectSessionState of advanced-features.js, which forgets the subagents.
HashChange ==
  /\ hashDue
  /\ hashDue' = FALSE
  /\ kidsOf' = NoBannerChat
  /\ ClearBanner
  /\ UNCHANGED <<bannerChat, serverAsks, suppressed, bannerReads, userReplies, risk>>

KidsLoad ==
  /\ ~hashDue /\ kidsOf # bannerChat
  /\ kidsOf' = bannerChat
  /\ UNCHANGED <<bannerChat, hashDue, serverAsks, permission, lastCleared, suppressed,
                 bannerReads, userReplies, risk>>

-----------------------------------------------------------------------------
(* handlePermissionAction and sendPermissionReply *)

Click ==
  /\ permission.shown /\ ~InCurrentFamily(permission.ask)
  /\ \/ /\ bannerRead.stage # "none"
        /\ refreshAgain' = RefreshLater /\ UNCHANGED bannerRead
     \/ /\ bannerRead.stage = "none" /\ bannerChat = NoBannerChat
        /\ UNCHANGED <<bannerRead, refreshAgain>>
     \/ /\ bannerRead.stage = "none" /\ bannerChat # NoBannerChat
        /\ bannerRead' = [stage |-> "asked", chat |-> bannerChat, rows |-> {}]
        /\ UNCHANGED refreshAgain
  /\ ClearBanner
  /\ UNCHANGED <<bannerPlace, serverAsks, suppressed, readMissed, userReplies, risk>>

Answer(r) ==
  /\ permission.shown /\ permission.ask = r /\ InCurrentFamily(r)
  /\ clicks[r] < MaxClicks /\ permReply[r] = "none"
  /\ suppressed' = suppressed \cup {r}
  /\ ClearBanner
  /\ permReply' = [permReply EXCEPT ![r] = "sent"]
  /\ clicks' = [clicks EXCEPT ![r] = @ + 1]
  /\ UNCHANGED <<bannerPlace, serverAsks, bannerReads, shownAgain, risk>>

PermReplyTaken(r) ==
  /\ permReply[r] = "sent" /\ asks[r] = "pending"
  /\ permReply' = [permReply EXCEPT ![r] = "taken"]
  /\ PermSettles(r)
  /\ UNCHANGED <<bannerPlace, permission, lastCleared, suppressed, bannerReads, clicks,
                 shownAgain, risk>>

ReplyArrives(r) ==
  /\ permReply[r] = "taken"
  /\ permReply' = [permReply EXCEPT ![r] = "none"]
  /\ UNCHANGED <<bannerPlace, serverAsks, permission, lastCleared, suppressed, bannerReads,
                 clicks, shownAgain, risk>>

\* The answer is lost, or the request had ended: it may be shown again.
PermReplyFails(r) ==
  /\ permReply[r] # "none"
  /\ permReply' = [permReply EXCEPT ![r] = "none"]
  /\ suppressed' = suppressed \ {r}
  /\ shownAgain' = shownAgain \cup {r}
  /\ RefreshPermission
  /\ UNCHANGED <<bannerPlace, serverAsks, clicks, risk>>

-----------------------------------------------------------------------------
(* tickNow and autoEvaluate of the control plane: requests of the chat itself only *)

\* The decision about the request the server has must be about the one that is shown when
\* it arrives: nothing else of tickNow changes the state.
RiskDecided ==
  /\ risk = NoRisk
  /\ permission.shown /\ bannerChat # NoBannerChat /\ permission.chat = bannerChat
  /\ permission.ask \in Pending \ AskKids /\ AskChat[permission.ask] = bannerChat
  /\ risk' = [stage |-> "evaluating", chat |-> bannerChat, ask |-> permission.ask]
  /\ UNCHANGED <<bannerPlace, serverAsks, permission, lastCleared, suppressed, bannerReads,
                 userReplies>>

\* Answered by the server if it is still pending (evaluate_permission).
EvaluateServed ==
  /\ risk.stage = "evaluating" /\ risk.ask \in Pending
  /\ PermSettles(risk.ask)
  /\ risk' = [risk EXCEPT !.stage = "answered"]
  /\ UNCHANGED <<bannerPlace, permission, lastCleared, suppressed, bannerReads,
                 userReplies>>

EvaluateEnds ==
  /\ risk.stage = "evaluating" \/ risk.stage = "answered"
  /\ risk' = NoRisk
  /\ UNCHANGED <<bannerPlace, serverAsks, permission, lastCleared, suppressed, bannerReads,
                 userReplies>>

EvaluateAnswers ==
  /\ risk.stage = "answered"
  /\ risk' = NoRisk
  /\ permission' = IF permission.chat = risk.chat /\ permission.ask = risk.ask
               THEN [permission EXCEPT !.shown = FALSE] ELSE permission
  /\ suppressed' = suppressed \cup {risk.ask}
  /\ UNCHANGED <<bannerPlace, serverAsks, lastCleared, bannerReads, userReplies>>

-----------------------------------------------------------------------------
BannerInit ==
  /\ bannerChat \in BannerChats /\ hashDue = FALSE /\ kidsOf = NoBannerChat
  /\ asks = [r \in PermAsks |-> "absent"] /\ askedEvents = {} /\ replied = {} /\ endTold = {}
  /\ permission = NoPermission /\ lastCleared = NoCleared /\ suppressed = {}
  /\ bannerRead = NoBannerRead /\ refreshAgain = FALSE /\ readMissed = FALSE
  /\ permReply = [r \in PermAsks |-> "none"]
  /\ clicks = [r \in PermAsks |-> 0] /\ shownAgain = {}
  /\ risk = NoRisk

BannerNext ==
  \/ Poll \/ BannerReadServed \/ ReadArrives \/ BannerReadFails \/ ClearedExpires
  \/ \E r \in PermAsks :
       \/ AskArrives(r) \/ PermSettledElsewhere(r) \/ HearAsked(r) \/ HearReplied(r)
       \/ SuppressionEnds(r) \/ Answer(r)
       \/ PermReplyTaken(r) \/ ReplyArrives(r) \/ PermReplyFails(r)
  \/ \E c \in BannerChats \cup {NoBannerChat} : OpenChatAt(c)
  \/ HashChange \/ KidsLoad \/ Click
  \/ RiskDecided \/ EvaluateServed \/ EvaluateEnds \/ EvaluateAnswers

BannerSpec == BannerInit /\ [][BannerNext]_bannerVars

BannerTypeOK ==
  /\ {bannerChat, kidsOf} \subseteq BannerChats \cup {NoBannerChat}
  /\ {hashDue, refreshAgain, readMissed} \subseteq BOOLEAN
  /\ asks \in [PermAsks -> {"absent", "pending", "settled"}]
  /\ askedEvents \cup replied \cup endTold \cup suppressed \cup shownAgain \subseteq PermAsks
  /\ permission \in [ask : PermAsks \cup {NoAsk}, chat : BannerChats \cup {NoBannerChat},
                 shown : BOOLEAN]
  /\ lastCleared \in [ask : PermAsks \cup {NoAsk}, chat : BannerChats \cup {NoBannerChat}]
  /\ bannerRead \in [stage : {"none", "asked", "served"},
                     chat : BannerChats \cup {NoBannerChat}, rows : SUBSET PermAsks]
  /\ permReply \in [PermAsks -> {"none", "sent", "taken"}]
  /\ clicks \in [PermAsks -> 0..MaxClicks]
  /\ risk \in [stage : {"none", "evaluating", "answered"},
               chat : BannerChats \cup {NoBannerChat}, ask : PermAsks \cup {NoAsk}]

\* The banner has a request of the open chat or of a subagent of it that was not
\* answered; once the page was told that a request ended and the reads this asks for
\* are over, it is not shown; and the user answers a request once, unless the reply
\* failed or took longer than the suppression (access-fix.js, control-plane.js).
BannerSound ==
  /\ permission.shown => permission.ask \notin suppressed
  /\ permission.shown /\ ~hashDue =>
       permission.chat = bannerChat /\ InCurrentFamily(permission.ask)
  /\ permission.shown /\ permission.ask \in endTold =>
       hashDue \/ readMissed \/ bannerRead # NoBannerRead
  /\ \A r \in PermAsks \ shownAgain : clicks[r] <= 1

=============================================================================
