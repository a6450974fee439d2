----------------------------- MODULE PageViews -----------------------------
(***************************************************************************)
(* app/app.js and app/advanced-features.js: nine parts of the page that    *)
(* keep their own state between events.  Each is a specification of its    *)
(* own; they share nothing but the chat that is open.                      *)
(*                                                                         *)
(*   Follow  the message list that follows an answer, or the user          *)
(*   Recall  the drafts and the prompts that the arrow keys bring back     *)
(*   Probe   the reads that tell an empty chat from a conversation         *)
(*   Pull    the pull that reads the chat again                            *)
(*   Target  the dialog that creates a chat in a project                   *)
(*   Trace   the activities of an answer, under the list                   *)
(*   Custom  the models added by hand                                      *)
(*   Git     the state of the folder, its diffs and their review           *)
(*   Poll    the pollers, of app/refresh-coalescer.js                      *)
(***************************************************************************)
EXTENDS Naturals, Sequences, FiniteSets

CONSTANTS PageChats,      \* chats of the page
          WriteChats,     \* chats whose drafts or activities are followed
          NoPageChat,     \* none is open
          MaxStream,      \* bound: changes of the conversation
          MaxShows,       \* bound: chats opened
          DraftTexts,     \* what the user types
          NoDraft,        \* the empty text
          Earlier, Older, \* a prompt of the chat, and one of an older page
          MaxDrafts,      \* bound: texts typed
          MaxRecallTurns, \* bound: chats opened, page loads
          ProbeLimit,     \* HISTORY_PROBE_LIMIT
          MaxProbes,      \* bound: reads asked for
          MaxPulls,       \* bound: touches
          MaxTargets,     \* bound: creations asked for
          MaxItems,       \* how many activities are kept
          MaxTraceVisits, \* bound: chats opened while activities come
          Tabs,           \* tabs of the browser
          ModelKeys       \* names of models

ASSUME PageAssumption ==
  /\ NoPageChat \notin PageChats \cup WriteChats
  /\ NoDraft \notin DraftTexts \cup {Earlier, Older}
  /\ ProbeLimit \in Nat \ {0}

VARIABLES followChat,         \* state.selected
          content,            \* the conversation, as a number of changes
          shownContent,       \* the conversation the list shows
          frame,              \* messageRenderFrame
          place,              \* where the list stands: at its end, near it or above
          wheel,              \* a scroll up that the list does not show yet
          scrollEvent,        \* a scroll event is to be delivered
          detached,           \* followDetachedFor is the chat open
          settlingFor,        \* initialMessageScrollSession
          settlers,           \* renders that still keep a new chat at its end
          orchestrationFrame, \* the frame renderOrchestration asked for
          userUp,             \* the user went up and has not come back
          yanked,             \* the list was brought to its end against the user
          shows               \* chats opened so far, for the bound
VARIABLES recallChat, words, recall, input, keptDrafts, awaited, readOnly, unsent,
          drafted, turns
VARIABLES probeKnown,       \* hasSession
          told,             \* told[c]: when the list last saw the chat change
          talks,            \* the server has words of the chat
          probed,           \* state.mirrorHistory
          waiting, reading, \* historyProbeQueue, and the reads under way
          probeFailed,      \* entries whose read failed
          probes            \* entries made so far, for the bound
VARIABLES pullChat,              \* state.selected
          touching,              \* one finger is on the list
          gesture,               \* the pull, and the chat it began in
          refreshing, pullReads, \* reads under way
          hideDue,               \* hideTimer
          pill,                  \* what the indicator says
          pulls                  \* touches so far, for the bound
VARIABLES targetOpen, targetMode, targetBusy, \* the dialog, its mode, pending
          disabled,    \* its buttons are disabled
          failedShown, \* the status says that a creation failed
          creating,    \* creations under way
          targets      \* creations so far, for the bound
VARIABLES traceChat, visit,     \* the chat, and how often one was opened
          kidsKnown,            \* state.children holds the agents of the chat
          items, currentItem,   \* state.activityItems, currentActivityID
          drawn,                \* the screen shows them
          drawFrame, drawLater, \* the frame, and the throttle before it
          hydrated,             \* activityHydrated
          hydrating             \* reads of the messages under way
VARIABLES offered,                  \* models of the server
          storedModels, hiddenKeys, storedFavourites, \* what the browser keeps
          rowsOf, favourites, inUse \* state.models and the rest, of each tab

followVars == <<followChat, content, shownContent, frame, place, wheel, scrollEvent,
                detached, settlingFor, settlers, orchestrationFrame, userUp, yanked,
                shows>>
recallVars == <<recallChat, words, recall, input, keptDrafts, awaited, readOnly, unsent,
                drafted, turns>>
probeVars  == <<probeKnown, told, talks, probed, waiting, reading, probeFailed, probes>>
pullVars   == <<pullChat, touching, gesture, refreshing, pullReads, hideDue, pill, pulls>>
targetVars == <<targetOpen, targetMode, targetBusy, disabled, failedShown, creating,
                targets>>
traceVars  == <<traceChat, visit, kidsKnown, items, currentItem, drawn, drawFrame, drawLater,
                hydrated, hydrating>>
customVars == <<offered, storedModels, hiddenKeys, storedFavourites, rowsOf, favourites,
                inUse>>

-----------------------------------------------------------------------------
(* Follow: renderMessages and the scroll handlers of bindEvents *)

\* The list is set to its end by the code: a scroll up that does not show
\* yet is undone, and a scroll event follows.  Going there while the user is
\* up is what the code must not do, unless the caller may.
ToEnd(may) ==
  /\ place' = "end" /\ wheel' = FALSE
  /\ scrollEvent' = (scrollEvent \/ place # "end")
  /\ yanked' = (yanked \/ (userUp /\ ~may))

\* Faulty variant: the list follows whenever it is near its end.
SticksAnyway == place \in {"end", "near"}
Sticks == ~detached /\ place \in {"end", "near"}

\* The frame of scheduleMessageRender: nothing to do when the list shows all.
FollowFrame ==
  /\ frame /\ frame' = FALSE /\ shownContent' = content
  /\ \/ shownContent = content /\ UNCHANGED <<place, wheel, scrollEvent, yanked>>
     \/ shownContent # content /\ Sticks /\ ToEnd(FALSE)
     \/ /\ shownContent # content /\ ~Sticks
        /\ place' \in (IF place = "above" THEN {"above"} ELSE {"near", "above"})
        /\ UNCHANGED <<wheel, scrollEvent, yanked>>
  /\ UNCHANGED <<followChat, content, detached, settlingFor, settlers,
                 orchestrationFrame, userUp, shows>>

\* An event of the answer changes the conversation and asks for a frame.
Streams ==
  /\ followChat # NoPageChat /\ content < MaxStream
  /\ content' = content + 1 /\ frame' = TRUE
  /\ UNCHANGED <<followChat, shownContent, place, wheel, scrollEvent, detached,
                 settlingFor, settlers, orchestrationFrame, userUp, yanked, shows>>

\* A page is merged: the first one is shown from its end whatever the user
\* does, an older one keeps the words where they are.
PageLoads(first) ==
  /\ followChat # NoPageChat /\ shownContent' = content
  /\ IF first
     THEN /\ ToEnd(TRUE) /\ userUp' = FALSE
          /\ settlers' = IF settlingFor = followChat
                         THEN settlers \cup {[chat |-> followChat, show |-> shows]}
                         ELSE settlers
     ELSE UNCHANGED <<place, wheel, scrollEvent, yanked, userUp, settlers>>
  /\ UNCHANGED <<followChat, content, frame, detached, settlingFor, orchestrationFrame,
                 shows>>

\* selectSession, or clearSelection: the chat is shown from its end at once.
FollowOpen(c) ==
  /\ shows < MaxShows /\ shows' = shows + 1
  /\ followChat' = c /\ settlingFor' = c
  /\ shownContent' = content /\ place' = "end" /\ wheel' = FALSE
  /\ userUp' = FALSE
  /\ IF c = NoPageChat THEN UNCHANGED <<detached, settlers>>
     ELSE detached' = FALSE /\ settlers' = settlers \cup {[chat |-> c, show |-> shows']}
  /\ UNCHANGED <<content, frame, scrollEvent, orchestrationFrame, yanked>>

\* Faulty variant: the end is kept for as long as the chat is open.
MaySettleWhileOpen(k) == followChat = k.chat
MaySettle(k) == followChat = k.chat /\ settlingFor = k.chat

\* settleBottom: a size changed, or the fonts are there.
StaysAtEnd(k) ==
  /\ k \in settlers /\ MaySettle(k) /\ ToEnd(FALSE)
  /\ UNCHANGED <<followChat, content, shownContent, frame, detached, settlingFor,
                 settlers, orchestrationFrame, userUp, shows>>
\* stopSettling, 1.5 seconds after the render
StopsSettling(k) ==
  /\ k \in settlers /\ settlers' = settlers \ {k}
  /\ settlingFor' = IF settlingFor = k.chat THEN NoPageChat ELSE settlingFor
  /\ UNCHANGED <<followChat, content, shownContent, frame, place, wheel, scrollEvent,
                 detached, orchestrationFrame, userUp, yanked, shows>>

\* wheel, keydown or a touch that moves: armHistoryPagination and
\* setFollowDetached, before the list has moved.
UserGoesUp ==
  /\ followChat # NoPageChat /\ ~wheel
  /\ wheel' = TRUE /\ userUp' = TRUE /\ detached' = TRUE
  /\ settlingFor' = IF settlingFor = followChat THEN NoPageChat ELSE settlingFor
  /\ UNCHANGED <<followChat, content, shownContent, frame, place, scrollEvent, settlers,
                 orchestrationFrame, yanked, shows>>
ListMovesUp ==
  /\ wheel /\ wheel' = FALSE /\ scrollEvent' = TRUE
  /\ place' \in (IF place = "end" THEN {"near", "above"} ELSE {"above"})
  /\ UNCHANGED <<followChat, content, shownContent, frame, detached, settlingFor,
                 settlers, orchestrationFrame, userUp, yanked, shows>>
UserGoesDown ==
  /\ place # "end" /\ ~wheel
  /\ place' \in (IF place = "above" THEN {"near", "end"} ELSE {"end"})
  /\ scrollEvent' = TRUE
  /\ userUp' = (userUp /\ place' # "end")
  /\ UNCHANGED <<followChat, content, shownContent, frame, wheel, detached, settlingFor,
                 settlers, orchestrationFrame, yanked, shows>>

\* The scroll handler follows again when the list stands at its end.  When
\* the event is one of the code's own, it may overtake the user's scroll up,
\* which from then on is not protected: the user counts as back.
ScrollEvent ==
  /\ scrollEvent /\ scrollEvent' = FALSE
  /\ detached' = (detached /\ place # "end")
  /\ userUp' = (userUp /\ place # "end")
  /\ UNCHANGED <<followChat, content, shownContent, frame, place, wheel, settlingFor,
                 settlers, orchestrationFrame, yanked, shows>>
\* The button to the end.
ToEndButton ==
  /\ followChat # NoPageChat /\ place = "above"
  /\ detached' = FALSE /\ userUp' = FALSE /\ ToEnd(TRUE)
  /\ UNCHANGED <<followChat, content, shownContent, frame, settlingFor, settlers,
                 orchestrationFrame, shows>>

\* selectSession of a chat that is not listed: the list follows again while
\* the chat is read, and stays when there is no such chat.
OpensMissing ==
  /\ detached /\ detached' = FALSE /\ userUp' = FALSE
  /\ UNCHANGED <<followChat, content, shownContent, frame, place, wheel, scrollEvent,
                 settlingFor, settlers, orchestrationFrame, yanked, shows>>

\* renderOrchestration replaces the trace above the list and puts the list
\* back where it stood, which undoes a scroll up that does not show yet; one
\* frame later it keeps a list at its end there.  A render with nothing new
\* only voids the frame of the one before.
OrchestrationRenders(news) ==
  /\ followChat # NoPageChat
  /\ orchestrationFrame' = IF news /\ place = "end" /\ ~detached THEN followChat ELSE NoPageChat
  /\ IF news /\ place = "end"
     THEN scrollEvent' = TRUE /\ wheel' = FALSE /\ userUp' = FALSE
     ELSE UNCHANGED <<scrollEvent, wheel, userUp>>
  /\ UNCHANGED <<followChat, content, shownContent, frame, place, detached, settlingFor,
                 settlers, yanked, shows>>
OrchestrationFrame ==
  /\ orchestrationFrame # NoPageChat /\ orchestrationFrame' = NoPageChat
  /\ IF orchestrationFrame = followChat /\ ~detached THEN ToEnd(FALSE)
     ELSE UNCHANGED <<place, wheel, scrollEvent, yanked>>
  /\ UNCHANGED <<followChat, content, shownContent, frame, detached, settlingFor,
                 settlers, userUp, shows>>

FollowInit ==
  /\ followChat = NoPageChat /\ content = 0 /\ shownContent = 0 /\ frame = FALSE /\ place = "end"
  /\ wheel = FALSE /\ scrollEvent = FALSE /\ detached = FALSE
  /\ settlingFor = NoPageChat /\ settlers = {}
  /\ orchestrationFrame = NoPageChat /\ userUp = FALSE /\ yanked = FALSE /\ shows = 0
FollowNext ==
  \/ FollowFrame \/ Streams \/ UserGoesUp \/ ListMovesUp \/ UserGoesDown \/ ScrollEvent
  \/ ToEndButton \/ OpensMissing \/ OrchestrationFrame
  \/ \E first \in BOOLEAN : PageLoads(first) \/ OrchestrationRenders(first)
  \/ \E c \in (PageChats \cup {NoPageChat}) \ {followChat} : FollowOpen(c)
  \/ \E k \in settlers : StaysAtEnd(k) \/ StopsSettling(k)
FollowSpec == FollowInit /\ [][FollowNext]_followVars

FollowTypeOK ==
  /\ {followChat, settlingFor, orchestrationFrame} \subseteq PageChats \cup {NoPageChat}
  /\ content \in 0..MaxStream /\ shownContent \in 0..content /\ shows \in 0..MaxShows
  /\ {frame, wheel, scrollEvent, detached, userUp, yanked} \subseteq BOOLEAN
  /\ place \in {"end", "near", "above"}
  /\ settlers \subseteq [chat : PageChats, show : 1..MaxShows]

\* The list is never brought back to its end while the user reads further up,
\* and an answer that is not all on the screen has its frame: no event that
\* came while a frame was due, a chat was opened or a page was merged is left
\* out of the list.  (renderMessages, scheduleMessageRender)
FollowsUser == ~yanked /\ (shownContent = content \/ frame)

-----------------------------------------------------------------------------
(* Recall: the drafts of the chats and the history of the arrow keys.      *)
(* A text is sent from a chat, one at a time.                              *)

HistoryOf(c, chat) ==
  LET entries == IF chat = NoPageChat THEN <<>> ELSE words[chat]
  IN  [chat |-> c, entries |-> IF c = NoPageChat THEN <<>> ELSE entries,
       cursor |-> IF c = NoPageChat THEN 0 ELSE Len(entries), draft |-> NoDraft,
       value |-> NoDraft]
Recalling(h) == h.cursor < Len(h.entries)

\* syncPromptHistory, once the prompts of the open chat are now
SyncedTo(now) ==
  LET cursor == IF ~Recalling(recall) \/ recall.cursor > Len(now)
                THEN Len(now) ELSE recall.cursor
  IN  IF recall.chat # recallChat THEN HistoryOf(recallChat, recallChat)
      ELSE [recall EXCEPT !.entries = now, !.cursor = cursor,
                          !.value = IF cursor = Len(now) /\ input # NoDraft
                                    THEN input ELSE @]
RecallSynced == SyncedTo(HistoryOf(recallChat, recallChat).entries)

\* Faulty variant: what stands in the area is the draft.
SavedAsShown == input
\* saveDraftNow: while a prompt of the history is shown, the text before it
SavedDraft ==
  IF recall.chat = recallChat /\ recallChat # NoPageChat /\ Recalling(recall)
  THEN recall.draft ELSE input
Saved == [keptDrafts EXCEPT ![recallChat] = SavedDraft]

\* notePromptInput, and the save 180 ms later
Types(t) ==
  /\ drafted < MaxDrafts /\ drafted' = drafted + 1 /\ ~readOnly
  /\ input' = t /\ unsent' = [unsent EXCEPT ![recallChat] = t]
  /\ recall' = [RecallSynced EXCEPT !.cursor = Len(RecallSynced.entries), !.draft = t, !.value = t]
  /\ UNCHANGED <<recallChat, words, keptDrafts, awaited, readOnly, turns>>
SavesDraft ==
  /\ keptDrafts' = Saved
  /\ UNCHANGED <<recallChat, words, recall, input, awaited, readOnly, unsent, drafted,
                 turns>>

\* Faulty variant: the text typed is only known from the input event.
DraftedNever(h, up) == h
\* The text before the first step up is kept.
Drafted(h, up) == IF up /\ ~Recalling(h) THEN [h EXCEPT !.draft = input] ELSE h

\* navigatePromptHistory
Arrow(up) ==
  /\ recallChat # NoPageChat
  /\ LET sync  == RecallSynced
         back  == IF Recalling(sync) /\ input # sync.value
                  THEN [sync EXCEPT !.cursor = Len(sync.entries), !.draft = input]
                  ELSE sync
         from  == Drafted(back, up)
         next  == IF up THEN (IF from.cursor = 0 THEN 0 ELSE from.cursor - 1)
                  ELSE IF Recalling(from) THEN from.cursor + 1 ELSE from.cursor
         value == IF next = Len(from.entries) THEN from.draft ELSE from.entries[next + 1]
     IN  IF sync.entries = <<>> \/ next = from.cursor
         THEN recall' = (IF sync.entries = <<>> THEN sync ELSE from) /\ UNCHANGED input
         ELSE recall' = [from EXCEPT !.cursor = next, !.value = value] /\ input' = value
  /\ UNCHANGED <<recallChat, words, keptDrafts, awaited, readOnly, unsent, drafted,
                 turns>>

\* selectSession and clearSelection
RecallOpen(c) ==
  /\ turns < MaxRecallTurns /\ turns' = turns + 1
  /\ keptDrafts' = Saved /\ recallChat' = c /\ recall' = HistoryOf(c, c)
  /\ input' = Saved[c] /\ readOnly' = FALSE
  /\ UNCHANGED <<words, awaited, unsent, drafted>>

\* sendMessage: the text leaves the area.  A text kept while another is
\* recalled goes with it.
SendsText ==
  /\ recallChat # NoPageChat /\ awaited[recallChat] = NoDraft /\ input # NoDraft
  /\ input' = NoDraft /\ keptDrafts' = [keptDrafts EXCEPT ![recallChat] = NoDraft]
  /\ awaited' = [awaited EXCEPT ![recallChat] = input] /\ readOnly' = TRUE
  /\ unsent' = [unsent EXCEPT ![recallChat] = NoDraft]
  /\ UNCHANGED <<recallChat, words, recall, drafted, turns>>

\* rememberSubmittedPrompt once the server has the text: the history starts
\* over, with the chat of the text even when another one is open, and the
\* text that waits while a prompt is recalled goes.
SendAnswered(c) ==
  /\ awaited[c] # NoDraft /\ awaited' = [awaited EXCEPT ![c] = NoDraft]
  /\ readOnly' = (readOnly /\ c # recallChat)
  /\ LET base == IF recall.chat # c THEN HistoryOf(c, recallChat) ELSE recall
         last == base.entries # <<>> /\ base.entries[Len(base.entries)] = awaited[c]
         now  == IF last THEN base.entries ELSE Append(base.entries, awaited[c])
     IN  recall' = [base EXCEPT !.entries = now, !.cursor = Len(now), !.draft = NoDraft,
                                !.value = NoDraft]
  /\ unsent' = IF Recalling(recall) THEN [unsent EXCEPT ![recallChat] = NoDraft] ELSE unsent
  /\ UNCHANGED <<recallChat, words, input, keptDrafts, drafted, turns>>
\* A text that was not taken comes back when its chat is open and nothing is
\* in the area.
SendFailed(c) ==
  /\ awaited[c] # NoDraft /\ awaited' = [awaited EXCEPT ![c] = NoDraft]
  /\ readOnly' = (readOnly /\ c # recallChat)
  /\ IF c # recallChat THEN UNCHANGED <<input, keptDrafts, unsent>>
     ELSE /\ input' = IF input = NoDraft THEN awaited[c] ELSE input
          /\ keptDrafts' = [keptDrafts EXCEPT ![c] = input']
          /\ unsent' = IF input = NoDraft /\ ~Recalling(recall)
                       THEN [unsent EXCEPT ![c] = awaited[c]] ELSE unsent
  /\ UNCHANGED <<recallChat, words, recall, drafted, turns>>

\* loadContext and loadOlderContext change the prompts of a chat.
WordsChange(c, now) ==
  /\ words' = [words EXCEPT ![c] = now]
  /\ recall' = IF c = recallChat /\ recall.chat = c THEN SyncedTo(now) ELSE recall
  /\ UNCHANGED <<recallChat, input, keptDrafts, awaited, readOnly, unsent, drafted,
                 turns>>
OlderWords(c) == Older \notin {words[c][i] : i \in DOMAIN words[c]}
                   /\ WordsChange(c, <<Older>> \o words[c])
NewWords(c, t) == t \notin {words[c][i] : i \in DOMAIN words[c]}
                    /\ WordsChange(c, Append(words[c], t))

\* beforeunload saves; the page that loads with a chat in its address opens
\* it as if it left an empty text for a new chat.
ReloadPage ==
  /\ turns < MaxRecallTurns /\ turns' = turns + 1 
  /\ awaited' = [c \in DOMAIN awaited |-> NoDraft] /\ readOnly' = FALSE
  /\ keptDrafts' = IF recallChat = NoPageChat THEN Saved ELSE [Saved EXCEPT ![NoPageChat] = NoDraft]
  /\ unsent' = IF recallChat = NoPageChat THEN unsent
               ELSE [unsent EXCEPT ![NoPageChat] = NoDraft]
  /\ recall' = HistoryOf(recallChat, recallChat) /\ input' = keptDrafts'[recallChat]
  /\ UNCHANGED <<recallChat, words, drafted>>

RecallInit ==
  /\ recallChat = NoPageChat /\ words = [c \in WriteChats |-> <<Earlier>>]
  /\ recall = [chat |-> NoPageChat, entries |-> <<>>, cursor |-> 0, draft |-> NoDraft,
               value |-> NoDraft]
  /\ input = NoDraft /\ drafted = 0 /\ turns = 0
  /\ keptDrafts = [c \in WriteChats \cup {NoPageChat} |-> NoDraft]
  /\ unsent = keptDrafts /\ awaited = keptDrafts /\ readOnly = FALSE
RecallNext ==
  \/ SavesDraft \/ SendsText \/ ReloadPage
  \/ \E up \in BOOLEAN : Arrow(up)
  \/ \E t \in DraftTexts : Types(t)
  \/ \E c \in (WriteChats \cup {NoPageChat}) \ {recallChat} : RecallOpen(c)
  \/ \E c \in WriteChats : SendAnswered(c) \/ SendFailed(c) \/ OlderWords(c)
                            \/ \E t \in DraftTexts : NewWords(c, t)
RecallSpec == RecallInit /\ [][RecallNext]_recallVars

RecallTypeOK ==
  /\ recallChat \in WriteChats \cup {NoPageChat} 
  /\ readOnly \in BOOLEAN /\ recall.cursor \in 0..Len(recall.entries)
  /\ {input, recall.draft} \subseteq DraftTexts \cup {NoDraft, Earlier, Older}
  /\ drafted \in 0..MaxDrafts /\ turns \in 0..MaxRecallTurns

\* A text that was typed and not sent is never lost while the user goes
\* through the history and from chat to chat: it stands in the area, or waits
\* behind the prompt that is recalled, or is kept for the chat it belongs to.
\* (saveDraftNow, navigatePromptHistory, notePromptInput)
DraftKept ==
  \A c \in WriteChats \cup {NoPageChat} :
    unsent[c] = NoDraft
    \/ IF c # recallChat THEN keptDrafts[c] = unsent[c]
       ELSE input = unsent[c] \/ (recall.chat = c /\ Recalling(recall)
                                  /\ recall.draft = unsent[c])

-----------------------------------------------------------------------------
(* Probe: which chats the shortcuts show.  An entry has the time it was    *)
(* made for, a name of its own and the value; a read is of one entry.      *)

NoProbe == [updated |-> 0, name |-> 0, value |-> "unknown"]
Read(c, name) == [chat |-> c, name |-> name, value |-> "unknown"]

\* pump: reads start while there is room, the oldest names first.
Pumped(queue, under) ==
  LET room  == ProbeLimit - Cardinality(under)
      first == {r \in queue : Cardinality({q \in queue : q.name < r.name}) < room}
  IN  waiting' = queue \ first /\ reading' = under \cup first

\* mirrorHasConversation of a render: an entry of another time is replaced by
\* one that keeps the value until its own read is there.
Renders(c) ==
  /\ c \in probeKnown /\ probed[c].updated # told[c] /\ probes < MaxProbes
  /\ probes' = probes + 1
  /\ probed' = [probed EXCEPT ![c] = [updated |-> told[c], name |-> probes', value |-> @.value]]
  /\ Pumped(waiting \cup {Read(c, probes')}, reading)
  /\ UNCHANGED <<probeKnown, told, talks, probeFailed>>

\* The server looks for words of the chat.
ProbeReads(r) ==
  /\ r \in reading /\ r.value = "unknown"
  /\ reading' = (reading \ {r}) \cup {[r EXCEPT !.value = IF talks[r.chat] THEN "yes" ELSE "no"]}
  /\ UNCHANGED <<probeKnown, told, talks, probed, waiting, probeFailed, probes>>

\* Faulty variant: the answer goes to whatever entry the chat has.
EntryOfAny(r) == probed[r.chat] # NoProbe
EntryOf(r) == probed[r.chat].name = r.name /\ r.chat \in probeKnown

ProbeAnswers(r) ==
  /\ r \in reading /\ r.value # "unknown"
  /\ probed' = IF EntryOf(r) THEN [probed EXCEPT ![r.chat].value = r.value] ELSE probed
  /\ Pumped(waiting, reading \ {r})
  /\ UNCHANGED <<probeKnown, told, talks, probeFailed, probes>>
\* A read that fails leaves the value the entry has from the one before.
ProbeFails(r) ==
  /\ r \in reading /\ Pumped(waiting, reading \ {r}) /\ probeFailed' = probeFailed \cup {r.name}
  /\ UNCHANGED <<probeKnown, told, talks, probed, probes>>

\* The first words of a chat come with a new time of the chat.
FirstWords(c) ==
  /\ c \in probeKnown /\ ~talks[c]
  /\ talks' = [talks EXCEPT ![c] = TRUE] /\ told' = [told EXCEPT ![c] = @ + 1]
  /\ UNCHANGED <<probeKnown, probed, waiting, reading, probeFailed, probes>>

\* forgetSessionState, and the chat listed again
Forgets(c) ==
  /\ c \in probeKnown /\ probeKnown' = probeKnown \ {c} /\ probed' = [probed EXCEPT ![c] = NoProbe]
  /\ waiting' = {r \in waiting : r.chat # c}
  /\ UNCHANGED <<told, talks, reading, probeFailed, probes>>
ListedAgain(c) ==
  /\ c \notin probeKnown /\ probeKnown' = probeKnown \cup {c}
  /\ UNCHANGED <<told, talks, probed, waiting, reading, probeFailed, probes>>

ProbeInit ==
  /\ probeKnown = PageChats /\ told = [c \in PageChats |-> 1]
  /\ talks = [c \in PageChats |-> FALSE] /\ probed = [c \in PageChats |-> NoProbe]
  /\ waiting = {} /\ reading = {} /\ probeFailed = {} /\ probes = 0
ProbeNext ==
  \/ \E c \in PageChats : Renders(c) \/ FirstWords(c) \/ Forgets(c) \/ ListedAgain(c)
  \/ \E r \in reading : ProbeReads(r) \/ ProbeAnswers(r) \/ ProbeFails(r)
ProbeSpec == ProbeInit /\ [][ProbeNext]_probeVars

ProbeTypeOK ==
  /\ probeKnown \subseteq PageChats /\ probes \in 0..MaxProbes /\ probeFailed \subseteq 1..probes
  /\ \A c \in PageChats : told[c] \in 1..2 /\ talks[c] \in BOOLEAN
                          /\ probed[c].value \in {"unknown", "yes", "no"}

\* At most so many chats are read at once, a read waits only while there is
\* no room, and once the
\* reads of a chat are answered the shortcuts do not hide a chat with words:
\* the answer of a read that began before the first words is not the answer
\* for the chat as it is now.
\* (queueHistoryProbe, mirrorHasConversation)
ProbesSound ==
  /\ Cardinality(reading) <= ProbeLimit
  /\ waiting # {} => Cardinality(reading) = ProbeLimit
  /\ \A c \in probeKnown :
       probed[c].value = "no" /\ talks[c]
         => \/ probed[c].updated # told[c] \/ probed[c].name \in probeFailed
            \/ \E r \in reading \cup waiting : r.chat = c /\ r.name = probed[c].name

-----------------------------------------------------------------------------
(* Pull: setupPullRefresh.  A pull up at the end of the list that is held  *)
(* long enough reads the chat again; the pill says how far it is.          *)

NoGesture == [on |-> FALSE, chat |-> NoPageChat, held |-> FALSE]

\* cancelGesture: the pill goes unless a refresh is under way.
CancelsGesture ==
  /\ gesture' = NoGesture
  /\ IF refreshing THEN UNCHANGED <<pill, hideDue>> ELSE pill' = "hidden" /\ hideDue' = FALSE

\* Faulty variant: the first finger stops the timer of a refresh as well.
TouchStopsTimer == FALSE
\* touchstart: a refresh under way keeps its timer.
TimerKept == hideDue /\ refreshing

TouchStart ==
  /\ ~touching /\ touching' = TRUE /\ pulls < MaxPulls /\ pulls' = pulls + 1
  /\ hideDue' = TimerKept
  /\ gesture' = IF refreshing \/ pullChat = NoPageChat THEN gesture
                ELSE [NoGesture EXCEPT !.on = TRUE, !.chat = pullChat]
  /\ UNCHANGED <<pullChat, refreshing, pullReads, pill>>
SecondFinger ==
  /\ touching /\ CancelsGesture
  /\ UNCHANGED <<pullChat, touching, refreshing, pullReads, pulls>>

\* touchmove: back, sideways or in another chat it ends; below the distance
\* the pill follows the finger; beyond it the hold begins.
TouchMove(far) ==
  /\ touching /\ gesture.on /\ ~refreshing
  /\ IF pullChat # gesture.chat \/ far = "back" THEN CancelsGesture
     ELSE /\ gesture' = [gesture EXCEPT !.held = (far = "beyond")]
          /\ pill' = CASE far = "short" -> "hidden" [] far = "some" -> "pulling"
                       [] far = "beyond" -> "holding"
          /\ hideDue' = (hideDue /\ far # "short")
  /\ UNCHANGED <<pullChat, touching, refreshing, pullReads, pulls>>
\* touchend keeps a refresh; touchcancel is the same for what is left.
TouchEnd ==
  /\ touching /\ touching' = FALSE
  /\ IF gesture.on THEN CancelsGesture ELSE UNCHANGED <<gesture, pill, hideDue>>
  /\ UNCHANGED <<pullChat, refreshing, pullReads, pulls>>

\* updateHold: the frame that sees the hold complete starts refreshData.
HoldFrame ==
  /\ gesture.held /\ ~refreshing
  /\ IF pullChat # gesture.chat THEN CancelsGesture /\ UNCHANGED <<refreshing,
                                                                   pullReads>>
     ELSE /\ refreshing' = TRUE /\ pullReads' = {gesture.chat}
          /\ gesture' = NoGesture /\ pill' = "refreshing" /\ UNCHANGED hideDue
  /\ UNCHANGED <<pullChat, touching, pulls>>
\* Both reads ended, however: done is said only in the chat they were for.
PullSettles ==
  /\ pullReads # {} /\ pullReads' = {}
  /\ IF pullChat \in pullReads THEN pill' = "done" /\ hideDue' = TRUE /\ UNCHANGED refreshing
     ELSE refreshing' = FALSE /\ pill' = "hidden" /\ hideDue' = FALSE
  /\ UNCHANGED <<pullChat, touching, gesture, pulls>>
HideFires ==
  /\ hideDue /\ hideDue' = FALSE /\ refreshing' = FALSE /\ pill' = "hidden"
  /\ UNCHANGED <<pullChat, touching, gesture, pullReads, pulls>>

PullOpen(c) ==
  /\ c # pullChat /\ pullChat' = c
  /\ UNCHANGED <<touching, gesture, refreshing, pullReads, hideDue, pill, pulls>>

PullInit ==
  /\ pullChat = NoPageChat /\ touching = FALSE /\ gesture = NoGesture
  /\ refreshing = FALSE /\ pullReads = {} /\ hideDue = FALSE /\ pill = "hidden" /\ pulls = 0
PullNext ==
  \/ TouchStart \/ SecondFinger \/ TouchEnd \/ HoldFrame \/ PullSettles \/ HideFires
  \/ \E far \in {"back", "short", "some", "beyond"} : TouchMove(far)
  \/ \E c \in PageChats \cup {NoPageChat} : PullOpen(c)
PullSpec == PullInit /\ [][PullNext]_pullVars

PullTypeOK ==
  /\ pullChat \in PageChats \cup {NoPageChat} /\ pullReads \subseteq PageChats
  /\ {touching, refreshing, hideDue, gesture.on, gesture.held} \subseteq BOOLEAN
  /\ pulls \in 0..MaxPulls /\ pill \in {"hidden", "pulling", "holding", "refreshing", "done"}

\* A pull can always be made again: a refresh is under way only while its
\* reads are, or while the pill still says that it is done, and the pill says
\* nothing that nothing will take away.  (setupPullRefresh)
PullEnds ==
  /\ refreshing <=> (pullReads # {} \/ hideDue)
  /\ pill = "refreshing" <=> pullReads # {}
  /\ pill = "done" <=> hideDue
  /\ pill \in {"pulling", "holding"} => gesture.on /\ touching

-----------------------------------------------------------------------------
(* Target: openProjectDialog and selectProjectTarget *)

TargetOpens(mode) ==
  /\ ~targetBusy /\ ~targetOpen
  /\ targetOpen' = TRUE /\ targetMode' = mode /\ failedShown' = FALSE
  /\ UNCHANGED <<targetBusy, disabled, creating, targets>>
\* Escape, the backdrop and the button that closes it.
TargetCloses ==
  /\ targetOpen /\ ~targetBusy /\ targetOpen' = FALSE
  /\ UNCHANGED <<targetMode, targetBusy, disabled, failedShown, creating, targets>>

\* Faulty variant: only the buttons keep a second choice out.
MayTargetByButton == TRUE
MayTarget == ~targetBusy

\* A choice of the dialog, or of the folder browser of another script, which
\* no disabled button stops.
Targets(script) ==
  /\ targets < MaxTargets /\ targets' = targets + 1
  /\ MayTarget /\ (script \/ (targetOpen /\ ~disabled))
  /\ IF targetMode # "create" THEN targetOpen' = FALSE
                                  /\ UNCHANGED <<targetBusy, disabled, failedShown,
                                                 creating>>
     ELSE /\ targetBusy' = TRUE /\ disabled' = TRUE /\ failedShown' = FALSE
          /\ creating' = creating + 1 /\ UNCHANGED targetOpen
  /\ UNCHANGED targetMode
TargetEnds(made) ==
  /\ creating > 0 /\ creating' = creating - 1
  /\ targetBusy' = FALSE /\ disabled' = FALSE
  /\ targetOpen' = (targetOpen /\ ~made) /\ failedShown' = ~made
  /\ UNCHANGED <<targetMode, targets>>

TargetInit ==
  /\ targetOpen = FALSE /\ targetMode = "create" /\ targetBusy = FALSE /\ disabled = FALSE
  /\ failedShown = FALSE /\ creating = 0 /\ targets = 0
TargetNext ==
  \/ TargetCloses
  \/ \E mode \in {"create", "copy", "move"} : TargetOpens(mode)
  \/ \E b \in BOOLEAN : Targets(b) \/ TargetEnds(b)
TargetSpec == TargetInit /\ [][TargetNext]_targetVars

TargetTypeOK ==
  /\ {targetOpen, targetBusy, disabled, failedShown} \subseteq BOOLEAN
  /\ targetMode \in {"create", "copy", "move"} /\ targets \in 0..MaxTargets
  /\ creating \in 0..MaxTargets

\* One creation at a time, and its dialog takes no other choice until it ends.
\* (selectProjectTarget)
OneCreation == creating <= 1 /\ (creating = 1 <=> targetBusy) /\ (disabled <=> targetBusy)

-----------------------------------------------------------------------------
(* Trace: updateActivityFromEvent and the reads beside it.  A chat has one *)
(* agent below it.  An event is of a call, of words or of the run itself,  *)
(* which has the same activity for a chat and its agents.                  *)

TraceEvents == {<<"tool", "begins">>, <<"tool", "goes on">>, <<"tool", "ends">>,
                <<"text", "goes on">>, <<"text", "ends">>, <<"run", "begins">>, <<"run", "ends">>}
ItemOf(kind, chat, kid) == [kind |-> kind, chat |-> chat, kid |-> kid /\ kind # "run"]
Activity(item, status) == [item |-> item, status |-> status]
Items(list) == {list[i].item : i \in DOMAIN list}
LastOf(list) == IF Len(list) > MaxItems THEN Tail(list) ELSE list

\* activityBelongsToSession: of the chat, or of an agent of it that the event
\* or the list of its agents names.
Belongs(chat, from) == chat = traceChat /\ (from = "agent" => kidsKnown)

\* More of a call keeps the status it has; anything else that is no end runs.
StatusAfter(kind, step, item) ==
  IF step = "ends" THEN "completed"
  ELSE IF step = "goes on" /\ kind = "tool" /\ item \in Items(items)
       THEN (CHOOSE a \in {items[i] : i \in DOMAIN items} : a.item = item).status
       ELSE "running"

TraceEvent(kind, step, from, chat) ==
  /\ Belongs(chat, from)
  /\ LET item == ItemOf(kind, chat, from # "chat")
         next == Activity(item, StatusAfter(kind, step, item))
     IN  /\ items' = IF item \in Items(items)
                     THEN [i \in DOMAIN items |-> IF items[i].item = item THEN next ELSE items[i]]
                     ELSE LastOf(Append(items, next))
         /\ currentItem' = item /\ drawn' = FALSE
  /\ IF kind = "text" /\ step = "goes on" THEN drawLater' = TRUE /\ UNCHANGED drawFrame
     ELSE drawFrame' = TRUE /\ UNCHANGED drawLater
  /\ UNCHANGED <<traceChat, visit, kidsKnown, hydrated, hydrating>>

DrawLater ==
  /\ drawLater /\ drawLater' = FALSE /\ drawFrame' = TRUE
  /\ UNCHANGED <<traceChat, visit, kidsKnown, items, currentItem, drawn, hydrated,
                 hydrating>>
DrawFrame ==
  /\ drawFrame /\ drawFrame' = FALSE /\ drawn' = TRUE
  /\ UNCHANGED <<traceChat, visit, kidsKnown, items, currentItem, drawLater, hydrated,
                 hydrating>>

\* selectSessionState
TraceOpen(c) ==
  /\ visit < MaxTraceVisits /\ visit' = visit + 1
  /\ traceChat' = c /\ kidsKnown' = FALSE /\ items' = <<>> /\ drawn' = TRUE
  /\ currentItem' = NoPageChat /\ hydrated' = FALSE
  /\ UNCHANGED <<drawFrame, drawLater, hydrating>>

\* The end of refreshOrchestrationNow: the agents are known, all is drawn, and
\* the messages are read once for the activities before the page was opened.
TraceRefreshes ==
  /\ traceChat # NoPageChat /\ kidsKnown' = TRUE /\ drawn' = TRUE
  /\ hydrating' = IF hydrated \/ \E r \in hydrating : r.visit = visit THEN hydrating
                  ELSE hydrating \cup {[chat |-> traceChat, visit |-> visit]}
  /\ UNCHANGED <<traceChat, visit, items, currentItem, drawFrame, drawLater, hydrated>>

\* Faulty variant: the answer is for whatever chat is open.
ForAnyVisit(r) == TRUE
ForThisVisit(r) == r.chat = traceChat /\ r.visit = visit

\* latestActivityFromMessages
LatestCall(chat, status) == Activity(ItemOf("tool", chat, FALSE), status)

\* The latest call of the messages, unless events were faster.
Hydrates(r, status) ==
  /\ r \in hydrating /\ hydrating' = hydrating \ {r}
  /\ hydrated' = (hydrated \/ ForThisVisit(r))
  /\ IF ForThisVisit(r) /\ items = <<>> /\ status # "none"
     THEN LET latest == LatestCall(r.chat, status)
          IN  items' = <<latest>> /\ currentItem' = latest.item /\ drawn' = TRUE
     ELSE UNCHANGED <<items, currentItem, drawn>>
  /\ UNCHANGED <<traceChat, visit, kidsKnown, drawFrame, drawLater>>
HydrateFails(r) ==
  /\ r \in hydrating /\ hydrating' = hydrating \ {r}
  /\ UNCHANGED <<traceChat, visit, kidsKnown, items, currentItem, drawn, drawFrame,
                 drawLater, hydrated>>

TraceInit ==
  /\ traceChat = NoPageChat /\ visit = 0 /\ kidsKnown = FALSE /\ items = <<>>
  /\ currentItem = NoPageChat /\ drawn = TRUE /\ drawFrame = FALSE /\ drawLater = FALSE
  /\ hydrated = FALSE /\ hydrating = {}
TraceNext ==
  \/ DrawLater \/ DrawFrame \/ TraceRefreshes
  \/ \E e \in TraceEvents, from \in {"chat", "agent", "named agent"}, c \in WriteChats :
       TraceEvent(e[1], e[2], from, c)
  \/ \E c \in (WriteChats \cup {NoPageChat}) \ {traceChat} : TraceOpen(c)
  \/ \E r \in hydrating : HydrateFails(r)
                            \/ \E status \in {"none", "running", "completed"} : Hydrates(r, status)
TraceSpec == TraceInit /\ [][TraceNext]_traceVars

TraceTypeOK ==
  /\ traceChat \in WriteChats \cup {NoPageChat} /\ visit \in 0..MaxTraceVisits
  /\ {kidsKnown, drawn, drawFrame, drawLater, hydrated} \subseteq BOOLEAN /\ Len(items) <= MaxItems
  /\ \A i \in DOMAIN items : items[i].status \in {"running", "completed"}

\* The activities under the list are of the chat that is open and of its
\* agents, one for each, the one called current is among them, and a change
\* that is not on the screen is to be drawn: events, the read of the messages
\* and the change of the chat come in any order.  (updateActivityFromEvent,
\* refreshOrchestrationNow, scheduleOrchestrationRenderThrottled)
TraceIsOwn ==
  /\ \A item \in Items(items) : item.chat = traceChat
  /\ Cardinality(Items(items)) = Len(items)
  /\ items # <<>> => currentItem \in Items(items)
  /\ drawn \/ drawFrame \/ drawLater

-----------------------------------------------------------------------------
(* Custom: the models added by hand and the ones hidden from the picker.   *)
(* The browser keeps both for all tabs; the rows, the favourites and the   *)
(* model in use are of a tab.  Every name has a provider and an id.        *)

Keys(rows) == {row.key : row \in rows}
\* mergeCustomModels
WithCustom(rows) == rows \cup [key : storedModels \ Keys(rows), custom : {TRUE}]
FromServer == [key : offered, custom : {FALSE}]

\* Faulty variant: a model added again stays hidden.
StaysHidden(k) == hiddenKeys
Unhidden(k) == hiddenKeys \ {k}

\* addCustomModel: a model the server offers is only shown again.
AddsModel(t, k) ==
  /\ hiddenKeys' = Unhidden(k)
  /\ IF [key |-> k, custom |-> FALSE] \in rowsOf[t] THEN UNCHANGED <<storedModels,
                                                                     rowsOf>>
     ELSE /\ storedModels' = storedModels \cup {k}
          /\ rowsOf' = [rowsOf EXCEPT ![t] =
               LET rest == @ \ {[key |-> k, custom |-> TRUE]}
               IN  rest \cup [key : storedModels' \ Keys(rest), custom : {TRUE}]]
  /\ UNCHANGED <<offered, favourites, storedFavourites, inUse>>

\* The button beside a row that is not in use: a hidden one is shown again, a
\* custom one goes with its star, any other one is hidden.
RemovesModel(t, k) ==
  /\ k \in Keys(rowsOf[t]) /\ inUse[t] # k
  /\ \/ k \in hiddenKeys /\ hiddenKeys' = Unhidden(k)
        /\ UNCHANGED <<storedModels, rowsOf, favourites, storedFavourites>>
     \/ /\ k \in storedModels \ hiddenKeys /\ storedModels' = storedModels \ {k} /\ hiddenKeys' = Unhidden(k)
        /\ rowsOf' = [rowsOf EXCEPT ![t] = @ \ {[key |-> k, custom |-> TRUE]}]
        /\ favourites' = [favourites EXCEPT ![t] = @ \ {k}]
        /\ storedFavourites' = favourites'[t]
     \/ /\ k \notin storedModels \cup hiddenKeys /\ hiddenKeys' = hiddenKeys \cup {k}
        /\ UNCHANGED <<storedModels, rowsOf, favourites, storedFavourites>>
  /\ UNCHANGED <<offered, inUse>>

\* The stars of a tab are stored whole, over those of another one.
StarsModel(t, k) ==
  /\ k \in Keys(rowsOf[t])
  /\ favourites' = [favourites EXCEPT ![t] = IF k \in @ THEN @ \ {k} ELSE @ \cup {k}]
  /\ storedFavourites' = favourites'[t]
  /\ UNCHANGED <<offered, storedModels, hiddenKeys, rowsOf, inUse>>
ChoosesModel(t, k) ==
  /\ k \in Keys(rowsOf[t]) \ {inUse[t]} /\ inUse' = [inUse EXCEPT ![t] = k]
  /\ UNCHANGED <<offered, storedModels, hiddenKeys, rowsOf, favourites,
                 storedFavourites>>
LoadsModels(t) ==
  /\ rowsOf' = [rowsOf EXCEPT ![t] = WithCustom(FromServer)]
  /\ UNCHANGED <<offered, storedModels, hiddenKeys, favourites, storedFavourites,
                 inUse>>
TabLoads(t) ==
  /\ favourites' = [favourites EXCEPT ![t] = storedFavourites]
  /\ rowsOf' = [rowsOf EXCEPT ![t] = {}] /\ inUse' = [inUse EXCEPT ![t] = NoPageChat]
  /\ UNCHANGED <<offered, storedModels, hiddenKeys, storedFavourites>>
ServerOffers(k) ==
  /\ offered' = IF k \in offered THEN offered \ {k} ELSE offered \cup {k}
  /\ UNCHANGED <<storedModels, hiddenKeys, rowsOf, favourites, storedFavourites, inUse>>

CustomInit ==
  /\ offered = {} /\ storedModels = {} /\ hiddenKeys = {} /\ rowsOf = [t \in Tabs |-> {}]
  /\ favourites = [t \in Tabs |-> {}] /\ storedFavourites = {}
  /\ inUse = [t \in Tabs |-> NoPageChat]
CustomNext ==
  \/ \E t \in Tabs, k \in ModelKeys :
       AddsModel(t, k) \/ RemovesModel(t, k) \/ StarsModel(t, k) \/ ChoosesModel(t, k)
  \/ \E t \in Tabs : LoadsModels(t) \/ TabLoads(t)
  \/ \E k \in ModelKeys : ServerOffers(k)
CustomSpec == CustomInit /\ [][CustomNext]_customVars

CustomTypeOK ==
  /\ {offered, storedModels, hiddenKeys, storedFavourites} \subseteq SUBSET ModelKeys
  /\ \A t \in Tabs : favourites[t] \subseteq ModelKeys
                     /\ rowsOf[t] \subseteq [key : ModelKeys, custom : BOOLEAN]

\* A model added by hand is never one that is hidden, whichever tab added,
\* removed or hid it and in whatever order, and no tab shows a model twice
\* when the server starts to offer it.  (addCustomModel, removeModelFromPicker)
CustomIsShown ==
  /\ storedModels \cap hiddenKeys = {}
  /\ \A t \in Tabs, k \in ModelKeys : Cardinality({row \in rowsOf[t] : row.key = k}) <= 1

-----------------------------------------------------------------------------
(***************************************************************************)
(* The Git state and the review of the chat shown: app/app.js reads the    *)
(* state once per selection and the diffs when its dialog opens,           *)
(* app/advanced-features.js reads the same diffs once more for a review    *)
(* whose rows can be reverted.                                             *)
(***************************************************************************)
CONSTANTS GitChats,   \* chats, each in a folder of its own
          NoGitChat,  \* none, and the home screen
          Elsewhere,  \* the folder the server reads when the page names none
          MaxGitVisits, \* bound: selections
          MaxDiffReads  \* bound: reads of diffs under way

VARIABLES gitVisits,   \* chats selected, in order
          folderKnown, \* advanced-features: state.directory is that of the chat shown
          gitReads,    \* visits whose refreshGit is under way
          gitOf,       \* the chat state.git was read for
          gitDiffsOf,  \* the chat state.git.diffs were read for
          gitShown,    \* the dialog is open
          dialogReads, \* openGitDialog under way
          reviewLoads, \* loadReview under way
          reviewOf,    \* the folder whose rows reviewDiffs has
          reviewLeft,  \* the chat was changed since these rows were asked for
          astray       \* a revert reached another folder

gitVars == <<gitVisits, folderKnown, gitReads, gitOf, gitDiffsOf, gitShown, dialogReads,
             reviewLoads, reviewOf, reviewLeft, astray>>
gitStates == <<gitReads, gitOf, gitDiffsOf>>
reviewVars == <<reviewLoads, reviewOf, reviewLeft, astray>>

GitVisit == Len(gitVisits)
GitChat == gitVisits[GitVisit]
FewReads == Cardinality(dialogReads) + Cardinality(reviewLoads) < MaxDiffReads

-----------------------------------------------------------------------------
(* selectSession, clearSelection, selectSessionState; refreshGit *)

SelectsGit(c) ==
  /\ GitVisit < MaxGitVisits /\ c # GitChat
  /\ gitVisits' = Append(gitVisits, c) /\ folderKnown' = FALSE
  /\ gitReads' = IF c = NoGitChat THEN gitReads ELSE gitReads \cup {GitVisit + 1}
  /\ reviewLeft' = (reviewLeft \/ reviewLoads # {} \/ reviewOf # NoGitChat)
  /\ UNCHANGED <<gitOf, gitDiffsOf, gitShown, dialogReads, reviewLoads, reviewOf, astray>>

\* refreshSelectedSessionNow
FolderLoads ==
  /\ ~folderKnown /\ GitChat # NoGitChat
  /\ folderKnown' = TRUE
  /\ UNCHANGED <<gitVisits, gitStates, gitShown, dialogReads, reviewVars>>

\* Faulty variant: an answer is taken whatever chat is shown.
GitOfAny(v) == GitChat # NoGitChat
\* state.selected?.id!==id
GitOfShown(v) == gitVisits[v] = GitChat

\* getVcs and getFileStatus answer even when they fail.
GitRead(v) ==
  /\ v \in gitReads
  /\ gitReads' = gitReads \ {v}
  /\ IF GitOfShown(v) THEN gitOf' = gitVisits[v] /\ gitDiffsOf' = NoGitChat
     ELSE UNCHANGED <<gitOf, gitDiffsOf>>
  /\ UNCHANGED <<gitVisits, folderKnown, gitShown, dialogReads, reviewVars>>

-----------------------------------------------------------------------------
(* openGitDialog *)

OpensGit ==
  /\ ~gitShown /\ GitChat # NoGitChat /\ FewReads
  /\ gitShown' = TRUE
  /\ dialogReads' = dialogReads \cup {[visit |-> GitVisit, stage |-> "session"]}
  /\ UNCHANGED <<gitVisits, folderKnown, gitStates, reviewVars>>

ClosesGit ==
  /\ gitShown
  /\ gitShown' = FALSE
  /\ UNCHANGED <<gitVisits, folderKnown, gitStates, dialogReads, reviewVars>>

\* Without diffs of the chat those of its folder are read.
DialogAnswered(x, empty) ==
  /\ x \in dialogReads
  /\ dialogReads' = (dialogReads \ {x}) \cup
                    IF GitOfShown(x.visit) /\ empty /\ x.stage = "session"
                    THEN {[x EXCEPT !.stage = "folder"]} ELSE {}
  /\ gitDiffsOf' = IF GitOfShown(x.visit) /\ ~(empty /\ x.stage = "session")
                   THEN gitVisits[x.visit] ELSE gitDiffsOf
  /\ UNCHANGED <<gitVisits, folderKnown, gitReads, gitOf, gitShown, reviewVars>>

-----------------------------------------------------------------------------
(* loadReview, revertReviewFile, revertReviewHunk *)

\* A load begins 120 ms after the dialog opens, at the end of a run, and after a revert.
NewReview == [visit |-> GitVisit, stage |-> "session", folder |-> GitChat]
MayLoad == gitShown /\ folderKnown /\ FewReads

LoadsReview ==
  /\ MayLoad
  /\ reviewLoads' = reviewLoads \cup {NewReview}
  /\ UNCHANGED <<gitVisits, folderKnown, gitStates, gitShown, dialogReads, reviewOf,
                 reviewLeft, astray>>

\* Whatever chat is shown by now, the rows are replaced; those of a folder are read from
\* the folder of the chat shown.
ReviewAnswered(x, empty) ==
  /\ x \in reviewLoads
  /\ IF empty /\ x.stage = "session"
     THEN /\ reviewLoads' = (reviewLoads \ {x}) \cup
                            {[x EXCEPT !.stage = "folder",
                                       !.folder = IF folderKnown THEN GitChat ELSE Elsewhere]}
          /\ UNCHANGED <<reviewOf, reviewLeft>>
     ELSE /\ reviewLoads' = reviewLoads \ {x} /\ reviewOf' = x.folder
          /\ reviewLeft' = (reviewLeft /\ ~(x.visit = GitVisit /\ reviewLoads = {x}))
  /\ UNCHANGED <<gitVisits, folderKnown, gitStates, gitShown, dialogReads, astray>>

ReviewFails(x) ==
  /\ x \in reviewLoads
  /\ reviewLoads' = reviewLoads \ {x}
  /\ UNCHANGED <<gitVisits, folderKnown, gitStates, gitShown, dialogReads, reviewOf,
                 reviewLeft, astray>>

\* The row names the file, state.directory the folder; the user confirms the file. A
\* revert that fails loads nothing.
Reverts ==
  /\ MayLoad /\ reviewOf # NoGitChat
  /\ astray' = (astray \/ (reviewOf # GitChat /\ ~reviewLeft))
  /\ reviewLoads' \in {reviewLoads, reviewLoads \cup {NewReview}}
  /\ UNCHANGED <<gitVisits, folderKnown, gitStates, gitShown, dialogReads, reviewOf,
                 reviewLeft>>

-----------------------------------------------------------------------------
GitInit ==
  /\ gitVisits = <<NoGitChat>> /\ folderKnown = FALSE /\ gitReads = {}
  /\ gitOf = NoGitChat /\ gitDiffsOf = NoGitChat /\ gitShown = FALSE
  /\ dialogReads = {} /\ reviewLoads = {} /\ reviewOf = NoGitChat
  /\ reviewLeft = FALSE /\ astray = FALSE

GitNext ==
  \/ \E c \in GitChats \cup {NoGitChat} : SelectsGit(c)
  \/ FolderLoads \/ OpensGit \/ ClosesGit \/ LoadsReview \/ Reverts
  \/ \E v \in gitReads : GitRead(v)
  \/ \E empty \in BOOLEAN : \/ \E x \in dialogReads : DialogAnswered(x, empty)
                            \/ \E x \in reviewLoads : ReviewAnswered(x, empty)
  \/ \E x \in reviewLoads : ReviewFails(x)

GitSpec == GitInit /\ [][GitNext]_gitVars

\* The Git state keeps values of their types.
GitTypeOK ==
  /\ gitVisits \in Seq(GitChats \cup {NoGitChat}) /\ gitVisits # <<>>
  /\ gitReads \subseteq 1 .. GitVisit
  /\ \A flag \in {folderKnown, gitShown, reviewLeft, astray} : flag \in BOOLEAN
  /\ {gitOf, gitDiffsOf} \subseteq GitChats \cup {NoGitChat}
  /\ reviewOf \in GitChats \cup {NoGitChat, Elsewhere}
  /\ dialogReads \subseteq [visit : 1 .. GitVisit, stage : {"session", "folder"}]
  /\ reviewLoads \subseteq [visit : 1 .. GitVisit, stage : {"session", "folder"},
                            folder : GitChats \cup {Elsewhere}]

\* The Git state is that of the chat shown once its own read has answered, whichever
\* reads of other chats answer later, and its diffs are never those of another chat; a
\* row is reverted in the folder it was read from unless the chat was changed since.
GitIsOwn ==
  /\ GitChat # NoGitChat /\ (\A v \in gitReads : gitVisits[v] # GitChat) =>
       gitOf = GitChat /\ gitDiffsOf \in {NoGitChat, GitChat}
  /\ ~astray
-----------------------------------------------------------------------------
(***************************************************************************)
(* Poll: createAdaptivePoller of app/refresh-coalescer.js, the pollers of  *)
(* the page with the events that start, stop and wake them.                *)
(***************************************************************************)
VARIABLES pollTimer,     \* timer: none, at once ("soon"), or after a delay ("later")
          pollStopped, polling, wakeRequested,
          pageVisible,   \* isVisible()
          readDue,       \* a read was asked for and has not begun since
          twoTimers      \* a timer was set beside another one

pollVars == <<pollTimer, pollStopped, polling, wakeRequested, pageVisible, readDue, twoTimers>>

\* schedule, when the handle holds the timer held
Schedules(held, delay) ==
  /\ pollTimer' = IF pollStopped' THEN held ELSE delay
  /\ twoTimers' = (twoTimers \/ (~pollStopped' /\ held # "none"))

\* start: a screen that was just loaded waits for its first read
PollStarts(immediate) ==
  /\ pollStopped /\ pollStopped' = FALSE /\ readDue' = immediate
  /\ IF polling THEN wakeRequested' = TRUE /\ UNCHANGED <<pollTimer, twoTimers>>
     ELSE /\ Schedules(pollTimer, IF immediate THEN "soon" ELSE "later")
          /\ UNCHANGED wakeRequested
  /\ UNCHANGED <<polling, pageVisible>>
PollStops ==
  /\ pollStopped' = TRUE /\ wakeRequested' = FALSE /\ pollTimer' = "none" /\ readDue' = FALSE
  /\ UNCHANGED <<polling, pageVisible, twoTimers>>

\* The end of a tick sets the next timer.
NextPoll(held) ==
  /\ wakeRequested' = FALSE
  /\ Schedules(held, IF wakeRequested THEN "soon" ELSE "later")
\* tick: a hidden page reads nothing.
PollTick ==
  /\ pollTimer # "none" /\ UNCHANGED <<pollStopped, pageVisible>>
  /\ IF pollStopped \/ polling \/ pageVisible
     THEN /\ pollTimer' = "none" /\ polling' = (polling \/ ~pollStopped)
          /\ readDue' = (readDue /\ (polling \/ pollStopped))
          /\ UNCHANGED <<wakeRequested, twoTimers>>
     ELSE NextPoll("none") /\ UNCHANGED <<polling, readDue>>
\* run answers, or fails
PollRunEnds ==
  /\ polling /\ polling' = FALSE /\ UNCHANGED <<pollStopped, pageVisible, readDue>>
  /\ NextPoll(pollTimer)

\* Faulty variant: a wake during a read sets a timer of its own.
WakenedBeside == /\ pollTimer' = "soon" /\ twoTimers' = (twoTimers \/ pollTimer # "none")
               /\ UNCHANGED wakeRequested
\* wake of a poller that is not stopped
Wakened ==
  IF polling THEN wakeRequested' = TRUE /\ UNCHANGED <<pollTimer, twoTimers>>
  ELSE Schedules("none", "soon") /\ UNCHANGED wakeRequested
\* reschedule of a poller that is not stopped, beside a read of its own
Rereads ==
  /\ IF polling THEN UNCHANGED <<pollTimer, twoTimers>> ELSE Schedules("none", "later")
  /\ UNCHANGED wakeRequested

\* An event of the server, a click, a selection.
PollWakes ==
  /\ ~pollStopped /\ UNCHANGED <<pollStopped, polling, pageVisible>>
  /\ Wakened /\ readDue' = TRUE
\* visibilitychange: a page that is shown again wakes the poller, or reads itself and
\* sets the timer of the poller anew.
PageHides ==
  /\ pageVisible /\ pageVisible' = FALSE
  /\ UNCHANGED <<pollTimer, pollStopped, polling, wakeRequested, readDue, twoTimers>>
PageShows ==
  /\ ~pageVisible /\ pageVisible' = TRUE
  /\ UNCHANGED <<pollStopped, polling>>
  /\ \/ pollStopped /\ UNCHANGED <<pollTimer, wakeRequested, readDue, twoTimers>>
     \/ ~pollStopped /\ Wakened /\ readDue' = TRUE
     \/ ~pollStopped /\ Rereads /\ readDue' = FALSE

PollInit ==
  /\ pollTimer = "none" /\ pollStopped = TRUE /\ polling = FALSE /\ wakeRequested = FALSE
  /\ pageVisible = TRUE /\ readDue = FALSE /\ twoTimers = FALSE
PollNext ==
  \/ \E immediate \in BOOLEAN : PollStarts(immediate)
  \/ PollStops \/ PollTick \/ PollRunEnds \/ PollWakes \/ PageHides \/ PageShows

PollSpec == PollInit /\ [][PollNext]_pollVars

\* The poller keeps values of their types.
PollTypeOK ==
  /\ pollTimer \in {"none", "soon", "later"}
  /\ \A flag \in {pollStopped, polling, wakeRequested, pageVisible, readDue, twoTimers} :
       flag \in BOOLEAN

\* Starts, stops, wakes, reads that last and a page that hides in any order neither end
\* the polling nor double it: a poller that was not stopped reads or has its timer, a
\* stopped one has none, and there are never two; a read that was asked for follows at
\* once, or as soon as the read under way ends.  (createAdaptivePoller)
PollsGoOn ==
  /\ ~twoTimers
  /\ IF pollStopped THEN pollTimer = "none" ELSE polling \/ pollTimer # "none"
  /\ readDue /\ pageVisible => IF polling THEN wakeRequested ELSE pollTimer = "soon"
=============================================================================
