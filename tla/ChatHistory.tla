----------------------------- MODULE ChatHistory -----------------------------
(***************************************************************************)
(* app/app.js: the history of the open chat.  Each chat has a cache entry  *)
(* that pages are loaded into; while the entry is the shown one,           *)
(* state.context is the entry's own array and streamed words are added to  *)
(* it.  What is followed here is the last message of each chat as the set  *)
(* of its words; older pages only take the entry's loading flag.           *)
(***************************************************************************)
EXTENDS Naturals, Sequences, FiniteSets

CONSTANTS Chats,    \* chats of the tab
          Answering,\* those an answer is being written in
          NoChat,   \* no chat is open
          MaxWords, \* bound: words of a chat's last answer
          MaxEvents \* bound: events on their way

ASSUME ChatAssumption == NoChat \notin Chats /\ Answering \subseteq Chats /\ MaxWords \in Nat \ {0}

VARIABLES said,     \* the words the server has, by chat
          over,     \* the answer has ended, by chat
          stream,   \* session.text.delta and terminal events on their way
          tabRuns,  \* state.running: chats the tab takes as running
          open,     \* state.selected
          context,  \* state.context: its words; whether it is the cache's array
          cache,    \* state.contextCache
          reload,   \* contextReloadTimer is set
          failed,   \* the last load of a chat failed
          lostRuns, \* chats whose end the tab could not notice, until they are reloaded
          erased    \* a reply took words away that the open, loaded chat showed

chatVars ==
  <<said, over, stream, tabRuns, open, context, cache, reload, failed, lostRuns, erased>>
\* state.running, and what it missed.
runVars == <<tabRuns, lostRuns>>

\* load: what is under way; touched: a delta reached the entry's message since
\* the page was asked for (_liveAt > fetchStartedAt).
NoEntry == [kept |-> FALSE, loaded |-> FALSE, load |-> "none", page |-> {},
            again |-> FALSE, words |-> {}, touched |-> FALSE]
NewEntry == [NoEntry EXCEPT !.kept = TRUE]

-----------------------------------------------------------------------------
(* The server *)

Say(c) ==
  /\ ~over[c] /\ Cardinality(said[c]) < MaxWords /\ Len(stream) < MaxEvents
  /\ LET word == Cardinality(said[c]) + 1
     IN /\ said' = [said EXCEPT ![c] = @ \cup {word}]
        /\ stream' = Append(stream, [chat |-> c, word |-> word])
  /\ UNCHANGED <<over, open, context, cache, reload, failed, runVars, erased>>

\* session.execution.succeeded, failed or interrupted.
End(c) ==
  /\ ~over[c] /\ Len(stream) < MaxEvents
  /\ over' = [over EXCEPT ![c] = TRUE]
  /\ stream' = Append(stream, [chat |-> c, word |-> 0])
  /\ UNCHANGED <<said, open, context, cache, reload, failed, runVars, erased>>

ServerReadsPage(c) ==
  /\ cache[c].load = "asked"
  /\ cache' = [cache EXCEPT ![c].load = "read", ![c].page = said[c]]
  /\ UNCHANGED <<said, over, stream, open, context, reload, failed, runVars, erased>>

-----------------------------------------------------------------------------
(* loadContext *)

\* The entry after loadContext(force) for an open chat; a load under way is
\* asked to be repeated, a loaded entry is only loaded again when forced.
Load(entry, force) ==
  LET e == IF entry.kept THEN entry ELSE NewEntry
  IN IF e.loaded /\ ~force THEN e
     ELSE IF e.load # "none" THEN [e EXCEPT !.again = @ \/ force]
     ELSE [e EXCEPT !.load = "asked", !.touched = FALSE]

\* selectSession: the cached messages are shown at once, or an array of its own.
Select(c) ==
  /\ c # open
  /\ open' = c
  /\ context' = [words |-> cache[c].words, own |-> ~cache[c].kept]
  /\ cache' = [cache EXCEPT ![c] = Load(@, @.kept)]
  /\ failed' = [failed EXCEPT ![c] = FALSE]
  /\ lostRuns' = lostRuns \ {c}
  /\ UNCHANGED <<said, over, stream, tabRuns, reload, erased>>

ClearSelection ==
  /\ open # NoChat
  /\ open' = NoChat /\ context' = [words |-> {}, own |-> TRUE]
  /\ UNCHANGED <<said, over, stream, cache, reload, failed, runVars, erased>>

\* loadContext({force: true}), if a chat is open.
LoadOpenChat ==
  /\ IF open = NoChat THEN UNCHANGED <<cache, failed>>
     ELSE /\ cache' = [cache EXCEPT ![open] = Load(@, TRUE)]
          /\ failed' = [failed EXCEPT ![open] = FALSE]
  /\ lostRuns' = lostRuns \ {open}

\* scheduleContextReload's timer, the refresh button, the return to the tab.
\* The timer reloads whichever chat is open by then.
Reload ==
  /\ reload \/ open # NoChat
  /\ reload' = FALSE
  /\ LoadOpenChat
  /\ UNCHANGED <<said, over, stream, tabRuns, open, context, erased>>

\* pruneContextCache: other chats fill the cache; a load under way is orphaned
\* and its reply belongs to no entry.
Discard(c) ==
  /\ cache[c].kept /\ c # open
  /\ cache' = [cache EXCEPT ![c] = NoEntry]
  /\ UNCHANGED <<said, over, stream, open, context, reload, failed, runVars, erased>>

\* Faulty variant: the page always replaces what is shown.
PageWins(entry) == entry.page
\* mergeContextMessages: a message touched since the request keeps its words.
Merged(entry) ==
  IF entry.loaded /\ entry.touched THEN entry.words ELSE entry.page

\* The entry when its load is over: repeated at once if the chat is still open.
LoadOver(c, entry) ==
  LET idle == [entry EXCEPT !.load = "none", !.page = {}, !.again = FALSE]
  IN IF entry.again /\ open = c THEN Load(idle, TRUE) ELSE idle

PageArrives(c) ==
  LET entry == cache[c]
      words == Merged(entry)
  IN /\ entry.load = "read"
     /\ cache' = [cache EXCEPT
          ![c] = LoadOver(c, [entry EXCEPT !.words = words, !.loaded = TRUE])]
     /\ IF open = c
          THEN /\ context' = [words |-> words, own |-> FALSE]
               /\ erased' = (erased \/ (entry.loaded /\ ~(context.words \subseteq words)))
          ELSE UNCHANGED <<context, erased>>
     /\ UNCHANGED <<said, over, stream, open, reload, failed, runVars>>

\* loadOlderContext: an older page neither holds nor touches the last message.
LoadOlder(c) ==
  /\ open = c /\ cache[c].loaded /\ cache[c].load = "none"
  /\ cache' = [cache EXCEPT ![c].load = "older"]
  /\ UNCHANGED <<said, over, stream, open, context, reload, failed, runVars, erased>>

OlderArrives(c) ==
  /\ cache[c].load = "older"
  /\ cache' = [cache EXCEPT ![c] = LoadOver(c, @)]
  /\ UNCHANGED <<said, over, stream, open, context, reload, failed, runVars, erased>>

LoadFails(c) ==
  /\ cache[c].load \in {"asked", "read"}
  /\ cache' = [cache EXCEPT ![c] = LoadOver(c, @)]
  /\ failed' = [failed EXCEPT ![c] = ~(cache[c].again /\ open = c)]
  /\ UNCHANGED <<said, over, stream, open, context, reload, runVars, erased>>

-----------------------------------------------------------------------------
(* handleEvent *)

\* ensureAssistant, ensurePart: words go to the open chat only, and into the
\* cache when the shown array is the cache's.  markFinished: the end of a run.
StreamEvent ==
  LET event == Head(stream)
      cached == ~context.own
  IN /\ stream # <<>>
     /\ stream' = Tail(stream)
     /\ IF event.chat # open THEN UNCHANGED <<context, cache, reload>>
        ELSE IF event.word = 0
          THEN reload' = TRUE /\ UNCHANGED <<context, cache>>
          ELSE /\ context' = [context EXCEPT !.words = @ \cup {event.word}]
               /\ cache' = IF cached
                    THEN [cache EXCEPT ![open].words = @ \cup {event.word},
                                       ![open].touched = TRUE]
                    ELSE cache
               /\ UNCHANGED reload
     /\ tabRuns' = IF event.word = 0 THEN tabRuns \ {event.chat} ELSE tabRuns
     /\ UNCHANGED <<said, over, open, failed, lostRuns, erased>>

\* A poll of the statuses.  A run that is not in the answer is finished at once, or,
\* as long as it is young or its prompt is on its way, by a later poll.
StatusPoll ==
  /\ \E gone \in SUBSET {c \in tabRuns : over[c]} :
       /\ tabRuns' = (tabRuns \ gone) \cup {c \in Chats : ~over[c]}
       /\ reload' = (reload \/ open \in gone)
  /\ UNCHANGED <<said, over, stream, open, context, cache, failed, lostRuns, erased>>

\* The event stream breaks for more than ten seconds: resyncAfterEventGap.
LongGap ==
  /\ stream # <<>> /\ stream' = <<>>
  /\ LoadOpenChat
  /\ UNCHANGED <<said, over, tabRuns, open, context, reload, erased>>

EndsLost == {c \in Chats : \E i \in DOMAIN stream : stream[i] = [chat |-> c, word |-> 0]}
\* It breaks for less: nothing is reloaded.  The polls go on for the runs the tab
\* knows of; of another run that ended meanwhile it learns nothing.
ShortGap ==
  /\ stream # <<>> /\ stream' = <<>>
  /\ lostRuns' = lostRuns \cup (EndsLost \ tabRuns)
  /\ UNCHANGED <<said, over, tabRuns, open, context, cache, reload, failed, erased>>

-----------------------------------------------------------------------------
ChatInit ==
  /\ said = [c \in Chats |-> {}] /\ over = [c \in Chats |-> c \notin Answering]
  /\ stream = <<>> /\ open = NoChat /\ tabRuns \in SUBSET Answering /\ lostRuns = {}
  /\ context = [words |-> {}, own |-> TRUE]
  /\ cache = [c \in Chats |-> NoEntry]
  /\ reload = FALSE /\ failed = [c \in Chats |-> FALSE] /\ erased = FALSE

ChatNext ==
  \/ \E c \in Chats :
       \/ Say(c) \/ End(c) \/ ServerReadsPage(c)
       \/ Select(c) \/ Discard(c)
       \/ PageArrives(c) \/ LoadOlder(c) \/ OlderArrives(c) \/ LoadFails(c)
  \/ ClearSelection \/ Reload \/ StreamEvent \/ StatusPoll \/ LongGap \/ ShortGap

ChatSpec == ChatInit /\ [][ChatNext]_chatVars

-----------------------------------------------------------------------------
ChatTypeOK ==
  /\ said \in [Chats -> SUBSET (1..MaxWords)]
  /\ over \in [Chats -> BOOLEAN] /\ failed \in [Chats -> BOOLEAN]
  /\ stream \in Seq([chat : Chats, word : 0..MaxWords])
  /\ open \in Chats \cup {NoChat}
  /\ context \in [words : SUBSET (1..MaxWords), own : BOOLEAN]
  /\ cache \in [Chats -> [kept : BOOLEAN, loaded : BOOLEAN,
                          load : {"none", "asked", "read", "older"},
                          page : SUBSET (1..MaxWords), again : BOOLEAN,
                          words : SUBSET (1..MaxWords), touched : BOOLEAN]]
  /\ reload \in BOOLEAN /\ erased \in BOOLEAN
  /\ tabRuns \subseteq Chats /\ lostRuns \subseteq Chats

\* A page that was asked for before the latest words arrived takes none of them
\* off a loaded chat, and once an answer has ended, the tab does not take it as running
\* and nothing of the open chat is under way, all of its words are shown: no switch of
\* chats, eviction, gap in the stream or reload dropped in the middle leaves a hole
\* (mergeContextMessages, loadContext's refreshQueued, connectEventStream).  The
\* exception is a run the tab did not know of that ended in a gap of less than ten
\* seconds: nothing reloads it until the chat is opened again or refreshed.
HistoryComplete ==
  /\ ~erased
  /\ (/\ open # NoChat /\ over[open]
      /\ open \notin tabRuns /\ open \notin lostRuns
      /\ ~reload /\ ~failed[open] /\ cache[open].load = "none"
      /\ \A i \in DOMAIN stream : stream[i].chat # open)
       => context.words = said[open]
=============================================================================
