----------------------------- MODULE SessionList -----------------------------
(***************************************************************************)
(* app/app.js: the list of chats.  The first page, further pages and the   *)
(* lookup of a linked chat are read while chats are created and deleted,   *)
(* here and elsewhere.  sessionSyncGeneration makes the answers that were  *)
(* asked for before such a change void; a void read is modelled as gone.   *)
(***************************************************************************)
EXTENDS Naturals, FiniteSets

CONSTANTS Rows,   \* chat identifiers; one is never used twice
          NoRow   \* no chat

ASSUME RowAssumption == NoRow \notin Rows

VARIABLES stored,    \* the chats the server has
          used,      \* identifiers it gave out
          rows,      \* state.sessions
          picked,    \* state.selected
          filter,    \* a search is on
          firstPage, \* the list request that still counts
          nextPage,  \* the request for a further page that still counts
          lookup,    \* the lookup of a linked chat that still counts
          posts,     \* creations under way: createAt, or a fork or transfer
          deletes,   \* DELETE requests that were taken and not answered
          goneNews,      \* session.deleted events on their way
          created,   \* chats createAt has put in the list
          forgotten  \* chats forgetSessionState has dropped

listVars == <<stored, used, rows, picked, filter, firstPage, nextPage, lookup, posts,
              deletes, goneNews, created, forgotten>>

NoPage == [stage |-> "none", found |-> {}, last |-> FALSE]
AskedPage == [NoPage EXCEPT !.stage = "asked"]
NoLookup == [row |-> NoRow, found |-> FALSE, stage |-> "none"]

\* Faulty variant: a change of the list leaves the reads under way valid.
VoidNothing == UNCHANGED <<firstPage, nextPage, lookup>>
\* sessionSyncGeneration += 1
VoidReads == firstPage' = NoPage /\ nextPage' = NoPage /\ lookup' = NoLookup

-----------------------------------------------------------------------------
(* The server and other clients *)

CreatedElsewhere(r) ==
  /\ r \notin used
  /\ used' = used \cup {r} /\ stored' = stored \cup {r}
  /\ UNCHANGED <<rows, picked, filter, firstPage, nextPage, lookup, posts, deletes,
                 goneNews, created, forgotten>>

\* Assumed: nobody deletes a chat before its creator has the answer.
DeletedElsewhere(r) ==
  /\ r \in stored /\ \A post \in posts : post.row # r
  /\ stored' = stored \ {r} /\ goneNews' = goneNews \cup {r}
  /\ UNCHANGED <<used, rows, picked, filter, firstPage, nextPage, lookup, posts,
                 deletes, created, forgotten>>

\* A page holds every chat only when it has no cursor and no search narrows it.
Page(page, found, last) ==
  /\ page.stage = "asked" /\ found \subseteq stored
  /\ last /\ ~filter => found = stored

ServerListsFirst(found, last) ==
  /\ Page(firstPage, found, last)
  /\ firstPage' = [stage |-> "read", found |-> found, last |-> last]
  /\ UNCHANGED <<stored, used, rows, picked, filter, nextPage, lookup, posts, deletes,
                 goneNews, created, forgotten>>

ServerListsNext(found) ==
  /\ Page(nextPage, found, FALSE)
  /\ nextPage' = [stage |-> "read", found |-> found, last |-> FALSE]
  /\ UNCHANGED <<stored, used, rows, picked, filter, firstPage, lookup, posts, deletes,
                 goneNews, created, forgotten>>

ServerLooksUp ==
  /\ lookup.stage = "asked"
  /\ lookup' = [lookup EXCEPT !.stage = "read", !.found = lookup.row \in stored]
  /\ UNCHANGED <<stored, used, rows, picked, filter, firstPage, nextPage, posts,
                 deletes, goneNews, created, forgotten>>

-----------------------------------------------------------------------------
(* loadSessionsNow, loadMoreSessions, searchSessions *)

LoadSessions ==
  /\ firstPage' = AskedPage /\ nextPage' = NoPage /\ lookup' = NoLookup
  /\ UNCHANGED <<stored, used, rows, picked, filter, posts, deletes, goneNews, created,
                 forgotten>>

LoadMore ==
  /\ firstPage.stage = "none" /\ nextPage.stage = "none"
  /\ nextPage' = AskedPage
  /\ UNCHANGED <<stored, used, rows, picked, filter, firstPage, lookup, posts, deletes,
                 goneNews, created, forgotten>>

\* mergeSessionPage: only a complete, unfiltered page replaces the list.
FirstArrives ==
  /\ firstPage.stage = "read"
  /\ firstPage' = NoPage
  /\ rows' = IF firstPage.last /\ ~filter THEN firstPage.found ELSE rows \cup firstPage.found
  /\ UNCHANGED <<stored, used, picked, filter, nextPage, lookup, posts, deletes,
                 goneNews, created, forgotten>>

NextArrives ==
  /\ nextPage.stage = "read"
  /\ nextPage' = NoPage
  /\ rows' = rows \cup nextPage.found
  /\ UNCHANGED <<stored, used, picked, filter, firstPage, lookup, posts, deletes,
                 goneNews, created, forgotten>>

ReadsFail ==
  /\ \/ firstPage.stage # "none" /\ firstPage' = NoPage /\ UNCHANGED <<nextPage,
                                                                       lookup>>
     \/ nextPage.stage # "none" /\ nextPage' = NoPage /\ UNCHANGED <<firstPage, lookup>>
     \/ lookup.stage # "none" /\ lookup' = NoLookup /\ UNCHANGED <<firstPage, nextPage>>
  /\ UNCHANGED <<stored, used, rows, picked, filter, posts, deletes, goneNews, created,
                 forgotten>>

SearchSessions ==
  /\ filter' = ~filter
  /\ VoidReads
  /\ UNCHANGED <<stored, used, rows, picked, posts, deletes, goneNews, created,
                 forgotten>>

-----------------------------------------------------------------------------
(* selectSession, clearSelection *)

\* A lookup also ends with any other selection (state.selected !== selected).
Pick(r) ==
  /\ r # picked /\ r \in rows \cup {NoRow}
  /\ picked' = r /\ lookup' = NoLookup
  /\ UNCHANGED <<stored, used, rows, filter, firstPage, nextPage, posts, deletes,
                 goneNews, created, forgotten>>

FollowLink(r) ==
  /\ r \in used \ rows
  /\ lookup' = [row |-> r, found |-> FALSE, stage |-> "asked"]
  /\ UNCHANGED <<stored, used, rows, picked, filter, firstPage, nextPage, posts,
                 deletes, goneNews, created, forgotten>>

LinkFound ==
  /\ lookup.stage = "read"
  /\ lookup' = NoLookup
  /\ IF lookup.found THEN rows' = rows \cup {lookup.row} /\ picked' = lookup.row
     ELSE UNCHANGED <<rows, picked>>
  /\ UNCHANGED <<stored, used, filter, firstPage, nextPage, posts, deletes, goneNews,
                 created, forgotten>>

-----------------------------------------------------------------------------
(* createAt; forkWithFallback and transferSessionToProject add a row without
   voiding the reads *)

Post(r, how) ==
  /\ r \notin used
  /\ used' = used \cup {r} /\ stored' = stored \cup {r}
  /\ posts' = posts \cup {[row |-> r, how |-> how]}
  /\ UNCHANGED <<rows, picked, filter, firstPage, nextPage, lookup, deletes, goneNews,
                 created, forgotten>>

CreateAt(post) ==
  /\ post \in posts /\ post.how = "create"
  /\ posts' = posts \ {post}
  /\ rows' = rows \cup {post.row} /\ picked' = post.row
  /\ created' = created \cup {post.row}
  /\ filter' = FALSE
  /\ VoidReads
  /\ UNCHANGED <<stored, used, deletes, goneNews, forgotten>>

Forked(post) ==
  /\ post \in posts /\ post.how = "fork"
  /\ posts' = posts \ {post}
  /\ rows' = rows \cup {post.row} /\ picked' = post.row
  /\ lookup' = NoLookup
  /\ UNCHANGED <<stored, used, filter, firstPage, nextPage, deletes, goneNews, created,
                 forgotten>>

-----------------------------------------------------------------------------
(* removeSession and the session.deleted event *)

Delete(r) ==
  /\ r \in rows \cap stored /\ \A post \in posts : post.row # r
  /\ stored' = stored \ {r}
  /\ deletes' = deletes \cup {r} /\ goneNews' = goneNews \cup {r}
  /\ UNCHANGED <<used, rows, picked, filter, firstPage, nextPage, lookup, posts,
                 created, forgotten>>

\* forgetSessionState
ForgetRow(r) ==
  /\ rows' = rows \ {r}
  /\ picked' = IF picked = r THEN NoRow ELSE picked
  /\ forgotten' = forgotten \cup {r}
  /\ VoidReads
  /\ UNCHANGED <<stored, used, filter, posts, created>>

RowDeleted(r) ==
  \/ r \in deletes /\ deletes' = deletes \ {r} /\ UNCHANGED goneNews /\ ForgetRow(r)
  \/ r \in goneNews /\ goneNews' = goneNews \ {r} /\ UNCHANGED deletes /\ ForgetRow(r)

-----------------------------------------------------------------------------
ListInit ==
  /\ stored = {CHOOSE r \in Rows : TRUE} \* which one does not matter
  /\ used = stored /\ rows = {} /\ picked = NoRow /\ filter = FALSE
  /\ firstPage = NoPage /\ nextPage = NoPage /\ lookup = NoLookup
  /\ posts = {} /\ deletes = {} /\ goneNews = {} /\ created = {} /\ forgotten = {}

ListNext ==
  \/ \E r \in Rows :
       \/ CreatedElsewhere(r) \/ DeletedElsewhere(r) \/ Delete(r) \/ RowDeleted(r)
       \/ FollowLink(r) \/ \E how \in {"create", "fork"} : Post(r, how)
  \/ \E r \in Rows \cup {NoRow} : Pick(r)
  \/ \E found \in SUBSET Rows :
       ServerListsNext(found) \/ \E last \in BOOLEAN : ServerListsFirst(found, last)
  \/ ServerLooksUp \/ LoadSessions \/ LoadMore \/ FirstArrives \/ NextArrives \/ ReadsFail
  \/ SearchSessions \/ LinkFound
  \/ \E post \in posts : CreateAt(post) \/ Forked(post)

ListSpec == ListInit /\ [][ListNext]_listVars

-----------------------------------------------------------------------------
ListTypeOK ==
  /\ stored \subseteq used /\ used \subseteq Rows
  /\ \A set \in {rows, deletes, goneNews, created, forgotten} : set \subseteq Rows
  /\ picked \in Rows \cup {NoRow} /\ filter \in BOOLEAN
  /\ \A page \in {firstPage, nextPage} :
       page \in [stage : {"none", "asked", "read"}, found : SUBSET Rows, last : BOOLEAN]
  /\ lookup \in [row : Rows \cup {NoRow}, found : BOOLEAN, stage : {"none", "asked", "read"}]
  /\ posts \subseteq [row : Rows, how : {"create", "fork"}]

\* A chat created on the page stays in its list for as long as the server has it,
\* and a chat known to be deleted neither comes back to the list nor stays open:
\* no page and no lookup asked for before the change can undo it
\* (sessionSyncGeneration, mergeSessionPage).  Forks and transfers are not
\* promised this.
RowsHonest ==
  /\ created \cap stored \subseteq rows
  /\ rows \cap forgotten = {}
  /\ picked \notin forgotten

-----------------------------------------------------------------------------
(***************************************************************************)
(* app/app.js: the words of a chat go into a new one.  OpenCode cannot     *)
(* move a chat to another folder and an old server cannot fork: the page   *)
(* makes a chat, prompts it with the last words of the source and, for a   *)
(* move, deletes the source (transferSessionToProject, forkWithFallback).  *)
(***************************************************************************)
CONSTANTS Handovers,  \* what the user confirmed: moves and forks of one source
          MaxSaid,    \* bound: words said in the source
          MaxRetyped  \* bound: changes of its draft

ASSUME HandoverAssumption == {"nobody", "user"} \cap Handovers = {}

VARIABLES sourceSaid,    \* words of the source that the server has
          sourceLives,   \* the server has the source
          endedBy,       \* who deleted it: "nobody", "user" or a handover
          sourceWatched, \* the source is the chat shown
          sourceShown,   \* state.context while it is, or what the cache keeps of it
          sourceDraft,   \* drafts[source]: how often it was changed
          handovers      \* of each handover: where it is, and its copy

sourceVars == <<sourceSaid, sourceLives, endedBy, sourceShown, sourceDraft>>
handoverVars == <<sourceVars, sourceWatched, handovers>>

NoHandover == [how |-> "none", step |-> "idle", words |-> 0, copy |-> "none", told |-> 0,
               draft |-> 0, seen |-> 0, drafted |-> 0, foreign |-> FALSE, strayed |-> FALSE,
               select |-> FALSE]

IsAt(h, step) == handovers[h].step = step
\* A fork whose words are still to be taken from the page.
Strayed(x) == [x EXCEPT !.strayed = @ \/ (x.how = "fork" /\ x.step \in {"native", "controls"})]
\* What is over needs no memory, except of the handover that deleted the source.
Over(step) == [NoHandover EXCEPT !.step = step]

\* The handover goes on, and the page shows another chat if it leaves.
Hand(h, x, leaves) ==
  /\ handovers' = [g \in Handovers |-> IF g = h THEN x
                                       ELSE IF leaves THEN Strayed(handovers[g])
                                       ELSE handovers[g]]
  /\ sourceWatched' = (sourceWatched /\ ~leaves)

-----------------------------------------------------------------------------
(* The source: its assistant speaks, the user types, leaves it and returns *)

Says ==
  /\ sourceLives /\ sourceSaid < MaxSaid
  /\ sourceSaid' = sourceSaid + 1
  /\ UNCHANGED <<sourceLives, endedBy, sourceWatched, sourceShown, sourceDraft, handovers>>

ShowsWords ==
  /\ sourceLives /\ sourceWatched /\ sourceShown # sourceSaid
  /\ sourceShown' = sourceSaid
  /\ UNCHANGED <<sourceSaid, sourceLives, endedBy, sourceWatched, sourceDraft, handovers>>

TypesDraft ==
  /\ sourceWatched /\ sourceLives /\ sourceDraft < MaxRetyped
  /\ sourceDraft' = sourceDraft + 1
  /\ UNCHANGED <<sourceSaid, sourceLives, endedBy, sourceWatched, sourceShown, handovers>>

\* Another chat is shown: a fork under way will find its words.
LeavesSource ==
  /\ sourceWatched
  /\ sourceWatched' = FALSE
  /\ handovers' = [h \in Handovers |-> Strayed(handovers[h])]
  /\ UNCHANGED sourceVars

\* It is shown from the cache, or empty until its words are read.
ReturnsToSource(cached) ==
  /\ ~sourceWatched /\ sourceLives
  /\ sourceWatched' = TRUE /\ sourceShown' = IF cached THEN sourceShown ELSE 0
  /\ UNCHANGED <<sourceSaid, sourceLives, endedBy, sourceDraft, handovers>>

UserDeletes ==
  /\ sourceLives
  /\ sourceLives' = FALSE /\ endedBy' = "user" /\ sourceDraft' = 0
  /\ sourceWatched' = FALSE /\ handovers' = [h \in Handovers |-> Strayed(handovers[h])]
  /\ UNCHANGED <<sourceSaid, sourceShown>>

-----------------------------------------------------------------------------
(* handleDrop, continueInProject, forkAtMessage *)

\* The draft of a chat on screen is saved before its transfer.
ConfirmMove(h) ==
  /\ IsAt(h, "idle") /\ sourceLives
  /\ Hand(h, [NoHandover EXCEPT !.how = "move", !.step = "controls",
                !.seen = IF sourceWatched THEN sourceShown ELSE 0, !.drafted = sourceDraft,
                !.select = sourceWatched], FALSE)
  /\ UNCHANGED sourceVars

ConfirmFork(h) ==
  /\ IsAt(h, "idle") /\ sourceLives /\ sourceWatched
  /\ Hand(h, [NoHandover EXCEPT !.how = "fork", !.step = "native"], FALSE)
  /\ UNCHANGED sourceVars

\* forkSession: the server copies the words, has no such command, or fails.
NativeFork(h, how) ==
  /\ IsAt(h, "native")
  /\ Hand(h, CASE how = "copied" /\ sourceLives -> Over("done")
               [] how = "absent" -> [handovers[h] EXCEPT !.step = "controls"]
               [] OTHER -> Over("failed"),
             how = "copied" /\ sourceLives)
  /\ UNCHANGED sourceVars

\* sessionWithControls answers whatever the server does.  Then the words are those shown:
\* a transfer takes them only of its own chat, and reads them otherwise.
ControlsKnown(h) ==
  /\ IsAt(h, "controls")
  /\ Hand(h, IF handovers[h].how = "fork" \/ (sourceWatched /\ sourceShown > 0)
             THEN [handovers[h] EXCEPT !.step = "create", !.foreign = ~sourceWatched,
                                       !.words = IF sourceWatched THEN sourceShown ELSE 1]
             ELSE [handovers[h] EXCEPT !.step = "context"], FALSE)
  /\ UNCHANGED sourceVars

\* getContext
ContextRead(h, answered) ==
  /\ IsAt(h, "context")
  /\ Hand(h, IF answered /\ sourceLives
             THEN [handovers[h] EXCEPT !.step = "create", !.words = sourceSaid]
             ELSE Over("failed"), FALSE)
  /\ UNCHANGED sourceVars

\* A move takes the draft along before it deletes the source.
ToRemoval(x) ==
  IF x.how = "fork" THEN Over("done")
  ELSE [x EXCEPT !.step = "remove", !.draft = sourceDraft]

\* createSession; a lost answer leaves an empty chat behind.
CopyCreated(h, made, answered) ==
  /\ IsAt(h, "create")
  /\ answered => made
  /\ LET x == IF made THEN [handovers[h] EXCEPT !.copy = "alive"] ELSE handovers[h]
     IN  Hand(h, IF ~answered THEN Over("failed")
                 ELSE IF x.words > 0 THEN [x EXCEPT !.step = "prompt"] ELSE ToRemoval(x),
                 answered /\ x.words = 0 /\ x.how = "fork")
  /\ UNCHANGED sourceVars

\* Faulty variant: the copy goes, and the transfer goes on.
UndoneOnly(x) == ToRemoval(x)
\* The copy was deleted and the error is thrown again.
Undone(x) == Over("failed")

\* sendPrompt of the handoff.
CopyPrompted(h, taken, answered) ==
  /\ IsAt(h, "prompt")
  /\ answered => taken
  /\ LET x == IF taken THEN [handovers[h] EXCEPT !.told = handovers[h].words] ELSE handovers[h]
     IN  Hand(h, IF answered THEN ToRemoval(x) ELSE [x EXCEPT !.step = "undo"],
                 answered /\ x.how = "fork")
  /\ UNCHANGED sourceVars

\* The undoing may fail as well: the copy stays.
CopyUndone(h, gone) ==
  /\ IsAt(h, "undo")
  /\ Hand(h, Undone([handovers[h] EXCEPT !.copy = IF gone THEN "gone" ELSE @]), FALSE)
  /\ UNCHANGED sourceVars

\* deleteSession of the source; only an answered one is forgotten, with its draft.
SourceRemoved(h, taken, answered) ==
  /\ IsAt(h, "remove")
  /\ answered => taken
  /\ taken => sourceLives
  /\ Hand(h, IF taken THEN [handovers[h] EXCEPT !.step = "done"] ELSE Over("done"),
             handovers[h].select \/ answered)
  /\ IF taken THEN sourceLives' = FALSE /\ endedBy' = h ELSE UNCHANGED <<sourceLives, endedBy>>
  /\ sourceDraft' = IF answered THEN 0 ELSE sourceDraft
  /\ UNCHANGED <<sourceSaid, sourceShown>>

-----------------------------------------------------------------------------
HandoverInit ==
  /\ sourceSaid = 0 /\ sourceLives = TRUE /\ endedBy = "nobody"
  /\ sourceWatched = TRUE /\ sourceShown = 0 /\ sourceDraft = 0
  /\ handovers = [h \in Handovers |-> NoHandover]

HandoverNext ==
  \/ Says \/ ShowsWords \/ TypesDraft \/ LeavesSource \/ UserDeletes
  \/ \E cached \in BOOLEAN : ReturnsToSource(cached)
  \/ \E h \in Handovers :
       \/ ConfirmMove(h) \/ ConfirmFork(h) \/ ControlsKnown(h)
       \/ \E how \in {"copied", "absent", "failed"} : NativeFork(h, how)
       \/ \E answered \in BOOLEAN :
            \/ ContextRead(h, answered) \/ CopyUndone(h, answered)
            \/ \E taken \in BOOLEAN : \/ CopyCreated(h, taken, answered)
                                      \/ CopyPrompted(h, taken, answered)
                                      \/ SourceRemoved(h, taken, answered)

HandoverSpec == HandoverInit /\ [][HandoverNext]_handoverVars

\* The handovers keep values of their types.
HandoverTypeOK ==
  /\ sourceSaid \in 0 .. MaxSaid /\ sourceShown \in 0 .. sourceSaid
  /\ sourceDraft \in 0 .. MaxRetyped
  /\ sourceLives \in BOOLEAN /\ sourceWatched \in BOOLEAN
  /\ endedBy \in {"nobody", "user"} \cup Handovers
  /\ handovers \in
       [Handovers ->
          [how : {"none", "move", "fork"}, words : 0 .. MaxSaid, told : 0 .. MaxSaid,
           step : {"idle", "native", "controls", "context", "create", "prompt", "undo",
                   "remove", "done", "failed"},
           copy : {"none", "alive", "gone"}, draft : 0 .. MaxRetyped, seen : 0 .. MaxSaid,
           drafted : 0 .. MaxRetyped, foreign : BOOLEAN, strayed : BOOLEAN,
           select : BOOLEAN]]

\* A move deletes its source only once the copy lives, has been handed all that was on
\* screen when the move was confirmed, and has its draft, whatever requests fail, answers
\* are lost or other handovers run beside it; a copy is handed the words of another
\* chat only if its fork was left for that chat.
HandoversKeep ==
  /\ \A h \in Handovers :
       endedBy = h => /\ handovers[h].copy = "alive" /\ handovers[h].how = "move"
                      /\ handovers[h].told >= handovers[h].seen
                      /\ handovers[h].draft >= handovers[h].drafted
  /\ \A h \in Handovers : handovers[h].foreign =>
                            handovers[h].how = "fork" /\ handovers[h].strayed
=============================================================================
