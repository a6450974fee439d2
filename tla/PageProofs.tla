----------------------------- MODULE PageProofs -----------------------------
(***************************************************************************)
(* The rest of the web client: the list of chats, the settings, what the   *)
(* enhancements add, the views of the page, and the model of a chat.  For  *)
(* each an inductive invariant, its proof, and the part of PageSound       *)
(* (MCClients) it implies.                                                 *)
(***************************************************************************)
EXTENDS SessionList, ProjectSettings, UiEnhancements, PageViews, ModelTransition,
        SequenceTheorems, FiniteSetTheorems, WellFoundedInduction, TLAPS

-----------------------------------------------------------------------------
(* The list of chats (SessionList).  An answer that still counts was read   *)
(* after the last change of the list that this page made or was told of, so *)
(* it knows no forgotten chat and, when it is complete, every created one.  *)

RowPages == [stage : {"none", "asked", "read"}, found : SUBSET Rows, last : BOOLEAN]
RowLookups == [row : Rows \cup {NoRow}, found : BOOLEAN, stage : {"none", "asked", "read"}]

ListTypes ==
  /\ stored \subseteq used
  /\ rows \subseteq Rows /\ forgotten \subseteq Rows /\ created \subseteq used
  /\ picked \in Rows \cup {NoRow} /\ filter \in BOOLEAN
  /\ firstPage \in RowPages /\ nextPage \in RowPages /\ lookup \in RowLookups
  /\ lookup.stage # "none" => lookup.row \in Rows

\* Chats that are gone are not stored again, those on their way here are stored.
ServerSide ==
  /\ stored \cap (deletes \cup goneNews \cup forgotten) = {}
  /\ deletes \cup goneNews \cup forgotten \subseteq used
  /\ \A post \in posts : post.row \in stored /\ post.row \in Rows

ReadsHonest ==
  /\ firstPage.stage = "read" => firstPage.found \cap forgotten = {}
  /\ nextPage.stage = "read" => nextPage.found \cap forgotten = {}
  /\ lookup.stage = "read" /\ lookup.found => lookup.row \notin forgotten
  /\ firstPage.stage = "read" /\ firstPage.last /\ ~filter =>
       created \cap stored \subseteq firstPage.found

ListIInv == ListTypes /\ ServerSide /\ ReadsHonest /\ RowsHonest

\* What a read that was given up looks like.
LEMMA NoReads ==
  /\ NoPage \in RowPages /\ NoPage.stage = "none"
  /\ AskedPage \in RowPages /\ AskedPage.stage = "asked"
  /\ NoLookup \in RowLookups /\ NoLookup.stage = "none"
BY DEF NoPage, AskedPage, NoLookup, RowPages, RowLookups

\* Nothing was created or forgotten at first.
LEMMA ListInitOK == ListInit => ListIInv
BY NoReads, RowAssumption
   DEF ListInit, ListIInv, ListTypes, ServerSide, ReadsHonest, RowsHonest

\* The server gets or loses chats.
LEMMA ServerChangesOK ==
  ListIInv
  /\ (\E r \in Rows : \/ CreatedElsewhere(r) \/ DeletedElsewhere(r) \/ Delete(r)
                      \/ \E how \in {"create", "fork"} : Post(r, how))
  => ListIInv'
<1> SUFFICES ASSUME ListIInv, NEW r \in Rows,
                    \/ CreatedElsewhere(r) \/ DeletedElsewhere(r) \/ Delete(r)
                    \/ \E how \in {"create", "fork"} : Post(r, how)
             PROVE  ListIInv'
  OBVIOUS
<1>1. UNCHANGED <<rows, picked, filter, firstPage, nextPage, lookup, created, forgotten>>
  BY DEF CreatedElsewhere, DeletedElsewhere, Delete, Post
<1>2. CASE \E how \in {"create", "fork"} : Post(r, how)
  <2>1. /\ r \notin used /\ used' = used \cup {r} /\ stored' = stored \cup {r}
        /\ UNCHANGED <<deletes, goneNews>>
        /\ \A post \in posts' : post \in posts \/ post.row = r
    BY <1>2 DEF Post
  <2> QED BY <1>1, <2>1 DEF ListIInv, ListTypes, ServerSide, ReadsHonest, RowsHonest
<1>3. CASE CreatedElsewhere(r)
  BY <1>1, <1>3 DEF CreatedElsewhere, ListIInv, ListTypes, ServerSide, ReadsHonest, RowsHonest
<1>4. CASE DeletedElsewhere(r) \/ Delete(r)
  <2>1. /\ r \in stored /\ (\A post \in posts : post.row # r) /\ stored' = stored \ {r}
        /\ UNCHANGED <<used, posts>>
        /\ deletes' \subseteq deletes \cup {r} /\ goneNews' \subseteq goneNews \cup {r}
    BY <1>4 DEF DeletedElsewhere, Delete
  <2> QED BY <1>1, <2>1 DEF ListIInv, ListTypes, ServerSide, ReadsHonest, RowsHonest
<1> QED BY <1>2, <1>3, <1>4

\* The server answers a read: it lists and finds stored chats only.
LEMMA ListReadsOK ==
  ListIInv
  /\ \/ \E found \in SUBSET Rows :
          ServerListsNext(found) \/ \E last \in BOOLEAN : ServerListsFirst(found, last)
     \/ ServerLooksUp
  => ListIInv'
<1> SUFFICES ASSUME ListIInv PROVE
      \/ \E found \in SUBSET Rows :
           ServerListsNext(found) \/ \E last \in BOOLEAN : ServerListsFirst(found, last)
      \/ ServerLooksUp
      => ListIInv'
  OBVIOUS
<1>1. ASSUME NEW found \in SUBSET Rows, ServerListsNext(found) PROVE ListIInv'
  <2>1. nextPage' \in RowPages /\ nextPage'.found \subseteq stored
    BY <1>1 DEF ServerListsNext, Page, RowPages
  <2> QED BY <1>1, <2>1 DEF ServerListsNext, ListIInv, ListTypes, ServerSide, ReadsHonest, RowsHonest
<1>2. ASSUME NEW found \in SUBSET Rows, NEW last \in BOOLEAN, ServerListsFirst(found, last)
      PROVE  ListIInv'
  <2>1. /\ firstPage' \in RowPages /\ firstPage'.found \subseteq stored
        /\ firstPage'.last /\ ~filter => firstPage'.found = stored
    BY <1>2 DEF ServerListsFirst, Page, RowPages
  <2> QED BY <1>2, <2>1 DEF ServerListsFirst, ListIInv, ListTypes, ServerSide, ReadsHonest, RowsHonest
<1>3. ASSUME ServerLooksUp PROVE ListIInv'
  <2>0. \A d \in BOOLEAN :
          LET l == [lookup EXCEPT !.stage = "read", !.found = d]
          IN l \in RowLookups /\ l.row = lookup.row /\ l.found = d
    BY DEF RowLookups, ListIInv, ListTypes
  <2>1. /\ lookup' \in RowLookups /\ lookup'.row = lookup.row /\ lookup.row \in Rows
        /\ lookup'.found => lookup.row \in stored
    <3> DEFINE d == lookup.row \in stored
    <3>0. d \in BOOLEAN
      OBVIOUS
    <3>1. /\ lookup' \in RowLookups /\ lookup'.row = lookup.row
          /\ lookup'.found <=> lookup.row \in stored
      <4>1. lookup' = [lookup EXCEPT !.stage = "read", !.found = d]
        BY <1>3 DEF ServerLooksUp
      <4>2. lookup' \in RowLookups /\ lookup'.row = lookup.row /\ lookup'.found = d
        BY <2>0, <3>0, <4>1, Zenon
      <4> QED BY <4>2, Zenon
    <3>2. lookup.row \in Rows
      BY <1>3 DEF ServerLooksUp, ListIInv, ListTypes
    <3> QED BY <3>1, <3>2
  <2>2. UNCHANGED <<stored, used, rows, picked, filter, firstPage, nextPage, posts, deletes,
                    goneNews, created, forgotten>>
    BY <1>3 DEF ServerLooksUp
  <2>3. lookup'.found => lookup'.row \notin forgotten'
    BY <2>1, <2>2 DEF ListIInv, ServerSide
  <2> QED BY <2>1, <2>2, <2>3 DEF ListIInv, ListTypes, ServerSide, ReadsHonest, RowsHonest
<1> QED BY <1>1, <1>2, <1>3

\* Reads are asked for, given up, or void.
LEMMA ReadsStartOK ==
  ListIInv
  /\ (LoadSessions \/ LoadMore \/ ReadsFail \/ SearchSessions \/ \E r \in Rows : FollowLink(r))
  => ListIInv'
<1> SUFFICES ASSUME ListIInv,
                    \/ LoadSessions \/ LoadMore \/ ReadsFail \/ SearchSessions
                    \/ \E r \in Rows : FollowLink(r)
             PROVE  ListIInv'
  OBVIOUS
<1>1. /\ UNCHANGED <<stored, used, rows, picked, posts, deletes, goneNews, created, forgotten>>
      /\ filter' \in BOOLEAN
  BY DEF LoadSessions, LoadMore, ReadsFail, SearchSessions, FollowLink, ListIInv, ListTypes
<1>2. /\ firstPage' \in RowPages /\ nextPage' \in RowPages /\ lookup' \in RowLookups
      /\ lookup'.stage # "none" => lookup'.row \in Rows
      /\ firstPage'.stage = "read" => firstPage' = firstPage /\ filter' = filter
      /\ nextPage'.stage = "read" => nextPage' = nextPage
      /\ lookup'.stage = "read" => lookup' = lookup
  <2>1. ASSUME NEW r \in Rows, FollowLink(r) PROVE <1>2!:
    <3>1. lookup' \in RowLookups /\ lookup'.stage = "asked" /\ lookup'.row = r
      BY <2>1 DEF FollowLink, RowLookups
    <3> QED BY <2>1, <3>1 DEF FollowLink, ListIInv, ListTypes
  <2>2. CASE LoadSessions \/ LoadMore
    BY <2>2, NoReads DEF LoadSessions, LoadMore, ListIInv, ListTypes
  <2>3. CASE ReadsFail \/ SearchSessions
    BY <2>3, NoReads DEF ReadsFail, SearchSessions, VoidReads, ListIInv, ListTypes
  <2> QED BY <2>1, <2>2, <2>3
<1> QED BY <1>1, <1>2 DEF ListIInv, ListTypes, ServerSide, ReadsHonest, RowsHonest

\* What was read arrives, or an open chat is chosen.
LEMMA ArrivesOK ==
  ListIInv
  /\ (FirstArrives \/ NextArrives \/ LinkFound \/ \E r \in Rows \cup {NoRow} : Pick(r))
  => ListIInv'
<1> SUFFICES ASSUME ListIInv PROVE
      (FirstArrives \/ NextArrives \/ LinkFound \/ \E r \in Rows \cup {NoRow} : Pick(r)) => ListIInv'
  OBVIOUS
<1> USE NoReads DEF ListIInv, ListTypes, ServerSide, ReadsHonest, RowsHonest
<1>1. ASSUME FirstArrives PROVE ListIInv'
  <2>1. firstPage.found \subseteq Rows
    BY DEF RowPages
  <2>2. CASE firstPage.last /\ ~filter
    BY <1>1, <2>1, <2>2 DEF FirstArrives
  <2>3. CASE ~(firstPage.last /\ ~filter)
    BY <1>1, <2>1, <2>3 DEF FirstArrives
  <2> QED BY <2>2, <2>3
<1>2. ASSUME NextArrives PROVE ListIInv'
  <2>1. nextPage.found \subseteq Rows
    BY DEF RowPages
  <2> QED BY <1>2, <2>1 DEF NextArrives
<1>3. ASSUME LinkFound PROVE ListIInv'
  <2>1. CASE lookup.found
    <3>1. lookup.row \in Rows \cup {NoRow} /\ lookup.row \notin forgotten
      BY <1>3, <2>1 DEF LinkFound, RowLookups
    <3>2. lookup.row \in Rows
      BY <1>3 DEF LinkFound
    <3> QED BY <1>3, <2>1, <3>1, <3>2 DEF LinkFound
  <2>2. CASE ~lookup.found
    BY <1>3, <2>2 DEF LinkFound
  <2> QED BY <2>1, <2>2
<1>4. ASSUME NEW r \in Rows \cup {NoRow}, Pick(r) PROVE ListIInv'
  BY <1>4, RowAssumption DEF Pick
<1> QED BY <1>1, <1>2, <1>3, <1>4

\* A chat made here is in the list, and every read under way is void; a fork
\* leaves the reads valid and is promised nothing.
LEMMA CreatesOK == ListIInv /\ (\E post \in posts : CreateAt(post) \/ Forked(post)) => ListIInv'
<1> SUFFICES ASSUME ListIInv, NEW post \in posts, CreateAt(post) \/ Forked(post) PROVE ListIInv'
  OBVIOUS
<1>1. post.row \in stored /\ post.row \in Rows /\ post.row \notin forgotten /\ post.row \in used
  BY DEF ListIInv, ListTypes, ServerSide
<1>2. CASE CreateAt(post)
  BY <1>1, <1>2, NoReads
     DEF CreateAt, VoidReads, ListIInv, ListTypes, ServerSide, ReadsHonest, RowsHonest
<1>3. CASE Forked(post)
  BY <1>1, <1>3, NoReads DEF Forked, ListIInv, ListTypes, ServerSide, ReadsHonest, RowsHonest
<1> QED BY <1>2, <1>3

\* A chat is dropped when its deletion is known.
LEMMA ForgetsOK == ListIInv /\ (\E r \in Rows : RowDeleted(r)) => ListIInv'
<1> SUFFICES ASSUME ListIInv, NEW r \in Rows, RowDeleted(r) PROVE ListIInv'
  OBVIOUS
<1>1. /\ r \in deletes \cup goneNews /\ deletes' \subseteq deletes /\ goneNews' \subseteq goneNews
      /\ ForgetRow(r)
  BY DEF RowDeleted
<1>2. r \notin stored /\ r \in used /\ NoRow \notin Rows
  BY <1>1, RowAssumption DEF ListIInv, ServerSide
<1> QED BY <1>1, <1>2, NoReads
        DEF ForgetRow, VoidReads, ListIInv, ListTypes, ServerSide, ReadsHonest, RowsHonest

\* The invariant is inductive.
LEMMA ListStepOK == ListIInv /\ [ListNext]_listVars => ListIInv'
<1>1. ListIInv /\ UNCHANGED listVars => ListIInv'
  BY DEF listVars, ListIInv, ListTypes, ServerSide, ReadsHonest, RowsHonest
<1> QED BY <1>1, ServerChangesOK, ListReadsOK, ReadsStartOK, ArrivesOK, CreatesOK, ForgetsOK
        DEF ListNext

\* No page and no lookup takes a created chat from the list or brings a deleted
\* one back to it, for every number of chats and reads (app/app.js,
\* sessionSyncGeneration and mergeSessionPage).
THEOREM RowsAreHonest == ListSpec => []RowsHonest
<1>1. ListIInv => RowsHonest
  BY DEF ListIInv
<1> QED BY <1>1, ListInitOK, ListStepOK, PTL DEF ListSpec

-----------------------------------------------------------------------------
(* The settings of a project (ProjectSettings).  A chat whose model was      *)
(* picked, or is being picked, is marked as picked before a default could    *)
(* be queued behind it.                                                      *)

SentKinds == {"default", "manual"}

SettingIInv ==
  /\ pickedBy \in [SettingChats -> {"plain", "default", "manual"}]
  /\ sentChanges \in [SettingChats -> Seq(SentKinds)]
  /\ byHand \subseteq SettingChats /\ current \in SettingChats \cup {NoSettingChat}
  /\ \A c \in SettingChats \ byHand :
       pickedBy[c] # "manual" /\ \A i \in DOMAIN sentChanges[c] : sentChanges[c][i] # "manual"
  /\ DefaultsYield

\* Nothing is queued at first.
LEMMA SettingInitOK == SettingInit => SettingIInv
<1> SUFFICES ASSUME SettingInit PROVE SettingIInv
  OBVIOUS
<1>1. <<>> \in Seq(SentKinds) /\ DOMAIN <<>> = {}
  OBVIOUS
<1>2. \A c \in SettingChats : sentChanges[c] = <<>> /\ pickedBy[c] = "plain"
  BY DEF SettingInit
<1>3. sentChanges \in [SettingChats -> Seq(SentKinds)]
  BY <1>1 DEF SettingInit
<1>4. DefaultsYield
  BY <1>1, <1>2 DEF SettingInit, DefaultsYield
<1> QED BY <1>1, <1>2, <1>3, <1>4 DEF SettingInit, SettingIInv

\* One change joins the queue of a chat.
LEMMA ChangeQueued ==
  ASSUME SettingIInv, NEW c \in SettingChats, NEW kind \in SentKinds,
         sentChanges' = [sentChanges EXCEPT ![c] = Append(@, kind)]
  PROVE  /\ sentChanges' \in [SettingChats -> Seq(SentKinds)]
         /\ \A d \in SettingChats : d # c => sentChanges'[d] = sentChanges[d]
         /\ Len(sentChanges[c]) \in Nat /\ DOMAIN sentChanges[c] = 1 .. Len(sentChanges[c])
         /\ DOMAIN sentChanges'[c] = 1 .. Len(sentChanges[c]) + 1
         /\ \A i \in DOMAIN sentChanges[c] : sentChanges'[c][i] = sentChanges[c][i]
         /\ sentChanges'[c][Len(sentChanges[c]) + 1] = kind
<1>1. sentChanges[c] \in Seq(SentKinds) /\ sentChanges'[c] = Append(sentChanges[c], kind)
  BY DEF SettingIInv
<1> HIDE DEF SentKinds
<1>2. sentChanges' \in [SettingChats -> Seq(SentKinds)]
  BY <1>1, AppendProperties DEF SettingIInv
<1> QED BY <1>1, <1>2, AppendProperties, LenProperties DEF SettingIInv

\* A default is queued for a chat that nobody picked a model for.
LEMMA DefaultsReadOK == SettingIInv /\ DefaultsRead => SettingIInv'
<1> SUFFICES ASSUME SettingIInv, DefaultsRead PROVE SettingIInv'
  OBVIOUS
<1>1. UNCHANGED <<current, pickedBy, byHand, settings, dialog>>
  BY DEF DefaultsRead, dialogVars
<1>2. CASE UNCHANGED sentChanges
  BY <1>1, <1>2 DEF SettingIInv, DefaultsYield
<1>3. CASE /\ current \notin byHand /\ current \in SettingChats
           /\ sentChanges' = [sentChanges EXCEPT ![current] = Append(@, "default")]
  <2>0. PICK c \in SettingChats : c = current
    BY <1>3
  <2>1. /\ sentChanges' \in [SettingChats -> Seq(SentKinds)]
        /\ \A d \in SettingChats : d # c => sentChanges'[d] = sentChanges[d]
        /\ Len(sentChanges[c]) \in Nat /\ DOMAIN sentChanges[c] = 1 .. Len(sentChanges[c])
        /\ DOMAIN sentChanges'[c] = 1 .. Len(sentChanges[c]) + 1
        /\ \A i \in DOMAIN sentChanges[c] : sentChanges'[c][i] = sentChanges[c][i]
        /\ sentChanges'[c][Len(sentChanges[c]) + 1] = "default"
    BY <1>3, <2>0, ChangeQueued DEF SentKinds
  <2>2. \A i \in DOMAIN sentChanges'[c] : sentChanges'[c][i] # "manual"
    BY <1>3, <2>0, <2>1 DEF SettingIInv
  <2>3. pickedBy'[c] # "manual"
    BY <1>1, <1>3, <2>0 DEF SettingIInv
  <2>4. \A d \in SettingChats : \A i \in DOMAIN sentChanges'[d] :
          sentChanges'[d][i] = "default" =>
            pickedBy'[d] # "manual" /\ \A j \in 1..i : sentChanges'[d][j] # "manual"
    <3> SUFFICES ASSUME NEW d \in SettingChats, NEW i \in DOMAIN sentChanges'[d],
                        sentChanges'[d][i] = "default"
                 PROVE  pickedBy'[d] # "manual" /\ \A j \in 1..i : sentChanges'[d][j] # "manual"
      OBVIOUS
    <3>1. CASE d = c
      <4>1. 1 .. i \subseteq DOMAIN sentChanges'[c]
        BY <2>1, <3>1
      <4> QED BY <2>2, <2>3, <3>1, <4>1
    <3>2. CASE d # c
      BY <1>1, <2>1, <3>2 DEF SettingIInv, DefaultsYield
    <3> QED BY <3>1, <3>2
  <2>5. \A d \in SettingChats \ byHand' :
          pickedBy'[d] # "manual" /\ \A i \in DOMAIN sentChanges'[d] : sentChanges'[d][i] # "manual"
    <3> SUFFICES ASSUME NEW d \in SettingChats \ byHand'
                 PROVE  /\ pickedBy'[d] # "manual"
                        /\ \A i \in DOMAIN sentChanges'[d] : sentChanges'[d][i] # "manual"
      OBVIOUS
    <3>1. CASE d = c
      BY <2>2, <2>3, <3>1
    <3>2. CASE d # c
      BY <1>1, <2>1, <3>2 DEF SettingIInv
    <3> QED BY <3>1, <3>2
  <2> QED BY <1>1, <2>1, <2>4, <2>5 DEF SettingIInv, DefaultsYield
<1>4. \/ UNCHANGED sentChanges
      \/ /\ current \notin byHand
         /\ sentChanges' = [sentChanges EXCEPT ![current] = Append(@, "default")]
  BY DEF DefaultsRead, Picked
<1>5. CASE current \notin SettingChats /\ sentChanges' = [sentChanges EXCEPT ![current] = Append(@, "default")]
  <2>1. sentChanges' = sentChanges
    BY <1>5 DEF SettingIInv
  <2> QED BY <1>2, <2>1
<1> QED BY <1>2, <1>3, <1>4, <1>5

\* The user's pick is marked and goes to the end of the queue.
LEMMA PickModelOK == SettingIInv /\ PickModel => SettingIInv'
<1> SUFFICES ASSUME SettingIInv, PickModel PROVE SettingIInv'
  OBVIOUS
<1>0. PICK c \in SettingChats : c = current
  BY DEF PickModel, SettingIInv
<1>1. UNCHANGED <<current, pickedBy, settings, dialog>> /\ byHand' = byHand \cup {c}
  BY <1>0 DEF PickModel, dialogVars
<1>2. /\ sentChanges' \in [SettingChats -> Seq(SentKinds)]
      /\ \A d \in SettingChats : d # c => sentChanges'[d] = sentChanges[d]
      /\ Len(sentChanges[c]) \in Nat /\ DOMAIN sentChanges[c] = 1 .. Len(sentChanges[c])
      /\ DOMAIN sentChanges'[c] = 1 .. Len(sentChanges[c]) + 1
      /\ \A i \in DOMAIN sentChanges[c] : sentChanges'[c][i] = sentChanges[c][i]
      /\ sentChanges'[c][Len(sentChanges[c]) + 1] = "manual"
  BY <1>0, ChangeQueued DEF PickModel, SentKinds
<1>3. ASSUME NEW d \in SettingChats, NEW i \in DOMAIN sentChanges'[d],
             sentChanges'[d][i] = "default"
      PROVE  pickedBy'[d] # "manual" /\ \A j \in 1..i : sentChanges'[d][j] # "manual"
  <2>1. CASE d = c
    <3>1. i \in DOMAIN sentChanges[c] /\ sentChanges[c][i] = "default"
      BY <1>2, <1>3, <2>1
    <3>2. pickedBy[c] # "manual" /\ \A j \in 1..i : sentChanges[c][j] # "manual"
      BY <3>1 DEF SettingIInv, DefaultsYield
    <3>3. 1 .. i \subseteq DOMAIN sentChanges[c]
      BY <1>2, <3>1
    <3> QED BY <1>1, <1>2, <2>1, <3>2, <3>3
  <2>2. CASE d # c
    BY <1>1, <1>2, <1>3, <2>2 DEF SettingIInv, DefaultsYield
  <2> QED BY <2>1, <2>2
<1>4. \A d \in SettingChats \ byHand' :
        pickedBy'[d] # "manual" /\ \A i \in DOMAIN sentChanges'[d] : sentChanges'[d][i] # "manual"
  BY <1>1, <1>2 DEF SettingIInv
<1> QED BY <1>1, <1>2, <1>3, <1>4 DEF SettingIInv, DefaultsYield

\* The oldest change of a chat is answered.
LEMMA SwitchAnswersOK ==
  ASSUME SettingIInv, NEW c \in SettingChats, NEW ok \in BOOLEAN, SwitchAnswers(c, ok)
  PROVE  SettingIInv'
<1> DEFINE q == sentChanges[c]
<1>1. /\ q \in Seq(SentKinds) /\ q # <<>>
      /\ sentChanges' = [sentChanges EXCEPT ![c] = Tail(q)]
  BY DEF SwitchAnswers, SettingIInv
<1>2. /\ Tail(q) \in Seq(SentKinds) /\ Head(q) = q[1] /\ Head(q) \in SentKinds
      /\ Len(q) \in Nat /\ DOMAIN q = 1 .. Len(q) /\ DOMAIN Tail(q) = 1 .. Len(q) - 1
      /\ \A i \in DOMAIN Tail(q) : Tail(q)[i] = q[i + 1]
      /\ 1 \in DOMAIN q
  <2> HIDE DEF SentKinds, q
  <2> QED BY <1>1, HeadTailProperties, LenProperties, ElementOfSeq, EmptySeq
<1>3. /\ sentChanges' \in [SettingChats -> Seq(SentKinds)] /\ sentChanges'[c] = Tail(q)
      /\ \A d \in SettingChats : d # c => sentChanges'[d] = sentChanges[d]
  BY <1>1, <1>2 DEF SettingIInv
<1>4. UNCHANGED <<current, byHand, settings, dialog>>
  BY DEF SwitchAnswers, dialogVars
<1>5. /\ pickedBy' \in [SettingChats -> {"plain", "default", "manual"}]
      /\ \A d \in SettingChats : d # c => pickedBy'[d] = pickedBy[d]
      /\ pickedBy'[c] \in {pickedBy[c], q[1]}
  <2>1. pickedBy \in [SettingChats -> {"plain", "default", "manual"}]
    BY DEF SettingIInv
  <2>2. pickedBy' = IF ok THEN [pickedBy EXCEPT ![c] = q[1]] ELSE pickedBy
    BY <1>2 DEF SwitchAnswers
  <2>3. q[1] \in {"plain", "default", "manual"}
    BY <1>2 DEF SentKinds
  <2> HIDE DEF q
  <2> QED BY <2>1, <2>2, <2>3
<1> HIDE DEF q
<1>6. ASSUME NEW d \in SettingChats \ byHand'
      PROVE  pickedBy'[d] # "manual" /\ \A i \in DOMAIN sentChanges'[d] : sentChanges'[d][i] # "manual"
  <2>1. pickedBy[d] # "manual" /\ \A i \in DOMAIN sentChanges[d] : sentChanges[d][i] # "manual"
    BY <1>4, <1>6 DEF SettingIInv
  <2>2. CASE d = c
    <3>1. \A i \in DOMAIN q : q[i] # "manual"
      BY <2>1, <2>2 DEF q
    <3>2. \A i \in DOMAIN Tail(q) : i + 1 \in DOMAIN q
      BY <1>2
    <3>3. \A i \in DOMAIN Tail(q) : Tail(q)[i] # "manual"
      BY <1>2, <3>1, <3>2
    <3>4. pickedBy'[c] # "manual"
      BY <1>2, <1>5, <2>1, <2>2, <3>1
    <3> QED BY <1>3, <2>2, <3>3, <3>4
  <2>3. CASE d # c
    BY <1>3, <1>5, <2>1, <2>3
  <2> QED BY <2>2, <2>3
<1>7. ASSUME NEW d \in SettingChats, NEW i \in DOMAIN sentChanges'[d],
             sentChanges'[d][i] = "default"
      PROVE  pickedBy'[d] # "manual" /\ \A j \in 1..i : sentChanges'[d][j] # "manual"
  <2>1. CASE d = c
    <3>1. i + 1 \in DOMAIN q /\ q[i + 1] = "default" /\ i \in Nat
      BY <1>2, <1>3, <1>7, <2>1
    <3>2. pickedBy[c] # "manual" /\ \A j \in 1 .. i + 1 : q[j] # "manual"
      BY <3>1 DEF SettingIInv, DefaultsYield, q
    <3>3. \A j \in 1 .. i : j \in DOMAIN Tail(q) /\ j + 1 \in 1 .. i + 1
      BY <1>2, <1>3, <1>7, <2>1
    <3>4. 1 \in 1 .. i + 1
      BY <3>1
    <3>5. \A j \in 1 .. i : Tail(q)[j] # "manual"
      BY <1>2, <3>2, <3>3
    <3>6. pickedBy'[c] # "manual"
      BY <1>5, <3>2, <3>4
    <3> QED BY <1>3, <2>1, <3>5, <3>6
  <2>2. CASE d # c
    BY <1>3, <1>5, <1>7, <2>2 DEF SettingIInv, DefaultsYield
  <2> QED BY <2>1, <2>2
<1> QED BY <1>3, <1>4, <1>5, <1>6, <1>7 DEF SettingIInv, DefaultsYield

\* The invariant is inductive.
LEMMA SettingStepOK == SettingIInv /\ [SettingNext]_settingVars => SettingIInv'
<1> SUFFICES ASSUME SettingIInv, [SettingNext]_settingVars PROVE SettingIInv'
  OBVIOUS
<1> USE DEF SettingIInv, DefaultsYield
<1>1. ASSUME UNCHANGED settingVars PROVE SettingIInv'
  BY <1>1 DEF settingVars
<1>2. ASSUME NEW c \in SettingChats \cup {NoSettingChat}, OpenSettingChat(c) PROVE SettingIInv'
  BY <1>2 DEF OpenSettingChat, defaultVars
<1>3. ASSUME NEW kind \in {"load", "open", "save"}, AskSettings(kind) PROVE SettingIInv'
  BY <1>3 DEF AskSettings, defaultVars
<1>4. ASSUME NEW x \in requests, NEW ok \in BOOLEAN, SettingsAnswer(x, ok) PROVE SettingIInv'
  BY <1>4 DEF SettingsAnswer, SettingsFor, defaultVars
<1>5. ASSUME DefaultsBegin PROVE SettingIInv'
  BY <1>5 DEF DefaultsBegin, dialogVars
<1>6. ASSUME NEW c \in SettingChats, FirstPrompt(c) PROVE SettingIInv'
  BY <1>6 DEF FirstPrompt, dialogVars
<1> QED BY <1>1, <1>2, <1>3, <1>4, <1>5, <1>6, DefaultsReadOK, PickModelOK, SwitchAnswersOK
        DEF SettingNext

\* The dialog is of the open chat and a default never follows the user's pick,
\* for every number of chats, requests and changes (applyProjectDefaultsOnce, chooseConcreteModel,
\* app/advanced-features.js).
THEOREM DefaultsAlwaysYield == SettingSpec => []DefaultsYield
<1>1. SettingIInv => DefaultsYield
  BY DEF SettingIInv
<1> QED BY <1>1, SettingInitOK, SettingStepOK, PTL DEF SettingSpec

-----------------------------------------------------------------------------
(* The enhancements (UiEnhancements).  The picker is watched whenever no    *)
(* decoration is under way.                                                 *)

PickerIInv ==
  /\ GroupedAsRendered
  /\ modelList \in [shape : {"empty", "flat", "grouped"}, version : Nat, by : PickerChats \cup {NoKeys}]
  /\ decorating \in [on : BOOLEAN, waits : Nat, version : Nat]
  /\ observing \in BOOLEAN /\ decorationQueued \in BOOLEAN /\ decorationFailed \in BOOLEAN
  /\ modelsRendered \in Nat /\ pickerChat \in PickerChats
  /\ freeKeys.pending \in Nat /\ readsMade \in Nat /\ freeKeys.of \in PickerChats \cup {NoKeys}
  /\ freeKeys = [session |-> freeKeys.session, of |-> freeKeys.of, age |-> freeKeys.age,
                 pending |-> freeKeys.pending]
  /\ \A r \in freeReads : r.chat \in PickerChats
  /\ observing \/ decorating.on

LEMMA PickerInitOK == PickerInit => PickerIInv
<1> SUFFICES ASSUME PickerInit PROVE PickerIInv
  OBVIOUS
<1>1. /\ freeKeys = [session |-> NoKeys, of |-> NoKeys, age |-> "none", pending |-> 0]
      /\ modelList = [shape |-> "empty", version |-> 0, by |-> NoKeys]
      /\ decorating = [on |-> FALSE, waits |-> 0, version |-> 0]
  BY DEF PickerInit, NoDecoration
<1>2. /\ freeKeys.session = NoKeys /\ freeKeys.of = NoKeys /\ freeKeys.age = "none"
      /\ freeKeys.pending = 0
  BY <1>1
<1>3. /\ modelList \in [shape : {"empty", "flat", "grouped"}, version : Nat, by : PickerChats \cup {NoKeys}]
      /\ modelList.version = 0 /\ modelList.shape = "empty"
  BY <1>1
<1>4. decorating \in [on : BOOLEAN, waits : Nat, version : Nat]
  BY <1>1
<1> QED BY <1>1, <1>2, <1>3, <1>4 DEF PickerInit, PickerIInv, GroupedAsRendered

\* A read of the keys that starts, or is joined.
LEMMA KeysReadStarts ==
  ASSUME PickerIInv, StartKeysRead \/ UNCHANGED <<freeKeys, freeReads, readsMade>>
  PROVE  /\ freeKeys'.pending \in Nat /\ readsMade' \in Nat
         /\ freeKeys'.of \in PickerChats \cup {NoKeys}
         /\ freeKeys' = [session |-> freeKeys'.session, of |-> freeKeys'.of, age |-> freeKeys'.age,
                         pending |-> freeKeys'.pending]
         /\ \A r \in freeReads' : r.chat \in PickerChats
<1>1. CASE UNCHANGED <<freeKeys, freeReads, readsMade>>
  BY <1>1 DEF PickerIInv
<1>2. CASE StartKeysRead /\ ~JoinsKeys
  <2>1. freeKeys' = [session |-> pickerChat, of |-> freeKeys.of, age |-> freeKeys.age,
                     pending |-> readsMade + 1]
    BY <1>2 DEF StartKeysRead, PickerIInv
  <2> QED BY <1>2, <2>1 DEF StartKeysRead, PickerIInv
<1> QED BY <1>1, <1>2 DEF StartKeysRead

\* A decoration groups the list, waits for its read, or has nothing to do.
LEMMA DecorateOK ==
  ASSUME PickerIInv, Decorate, UNCHANGED <<pickerChat, modelsRendered>>,
         decorationQueued' \in BOOLEAN
  PROVE  PickerIInv'
<1>1. ASSUME DecorateAtOnce PROVE PickerIInv'
  <2>1. StartKeysRead \/ UNCHANGED <<freeKeys, freeReads, readsMade>>
    BY <1>1 DEF DecorateAtOnce
  <2>2. modelList' = [shape |-> "grouped", version |-> modelList.version, by |-> freeKeys.of]
        /\ observing' = TRUE /\ decorationFailed' = FALSE /\ decorating' = decorating
    BY <1>1 DEF DecorateAtOnce, ObservedList
  <2> QED BY <2>1, <2>2, KeysReadStarts DEF PickerIInv, GroupedAsRendered
<1>2. ASSUME DecorateAfterRead PROVE PickerIInv'
  <2>1. StartKeysRead
    BY <1>2 DEF DecorateAfterRead
  <2>2. freeKeys'.pending \in Nat
    BY <2>1, KeysReadStarts
  <2>3. /\ decorating' \in [on : BOOLEAN, waits : Nat, version : Nat] /\ decorating'.on
        /\ observing' = FALSE /\ decorationFailed' = FALSE /\ modelList' = modelList
    BY <1>2, <2>2 DEF DecorateAfterRead, PickerIInv
  <2> QED BY <2>1, <2>3, KeysReadStarts DEF PickerIInv, GroupedAsRendered
<1>3. ASSUME decorating.on \/ modelList.shape # "flat",
             UNCHANGED <<modelList, decorating, observing, freeKeys, freeReads, readsMade,
                         decorationFailed>>
      PROVE  PickerIInv'
  BY <1>3 DEF PickerIInv, GroupedAsRendered
<1> QED BY <1>1, <1>2, <1>3 DEF Decorate

\* The read a decoration waits for is over.
LEMMA FreeReadOK ==
  ASSUME PickerIInv, NEW r \in freeReads, FreeReadAnswers(r) \/ FreeReadFails(r)
  PROVE  PickerIInv'
<1>1. /\ freeReads' \subseteq freeReads /\ r.chat \in PickerChats
      /\ UNCHANGED <<pickerChat, modelsRendered, decorationQueued, readsMade>>
  BY DEF FreeReadAnswers, FreeReadFails, PickerIInv
<1>2. /\ freeKeys'.pending \in Nat /\ freeKeys'.of \in PickerChats \cup {NoKeys}
      /\ freeKeys' = [session |-> freeKeys'.session, of |-> freeKeys'.of, age |-> freeKeys'.age,
                      pending |-> freeKeys'.pending]
  <2>1. \/ freeKeys' = freeKeys
        \/ freeKeys' = [session |-> r.chat, of |-> r.chat, age |-> "fresh", pending |-> 0]
        \/ freeKeys' = [freeKeys EXCEPT !.pending = 0]
    BY DEF FreeReadAnswers, FreeReadFails
  <2>2. [freeKeys EXCEPT !.pending = 0]
          = [session |-> freeKeys.session, of |-> freeKeys.of, age |-> freeKeys.age, pending |-> 0]
    BY DEF PickerIInv
  <2>3. \/ freeKeys' = freeKeys
        \/ freeKeys' = [session |-> r.chat, of |-> r.chat, age |-> "fresh", pending |-> 0]
        \/ freeKeys' = [session |-> freeKeys.session, of |-> freeKeys.of, age |-> freeKeys.age,
                        pending |-> 0]
    BY <2>1, <2>2
  <2> QED BY <1>1, <2>3 DEF PickerIInv
<1>3. CASE Group(r.chat) /\ FreeReadAnswers(r)
  <2>1. /\ modelList' \in [shape : {"empty", "grouped"}, version : Nat, by : PickerChats \cup {NoKeys}]
        /\ modelList'.version = modelList.version
        /\ decorating' \in [on : BOOLEAN, waits : Nat, version : Nat] /\ observing' = TRUE
        /\ decorationFailed' = decorationFailed
    BY <1>1, <1>3 DEF Group, ChoicesNow, NoDecoration, ObservedList, PickerIInv, FreeReadAnswers
  <2> QED BY <1>1, <1>2, <2>1 DEF PickerIInv, GroupedAsRendered
<1>4. CASE UNCHANGED <<modelList, decorating, observing>> /\ FreeReadAnswers(r)
  BY <1>1, <1>2, <1>4 DEF FreeReadAnswers, PickerIInv, GroupedAsRendered
<1>5. CASE FreeReadFails(r)
  <2>1. \/ UNCHANGED <<modelList, decorating, observing, decorationFailed>>
        \/ /\ decorating' = NoDecoration /\ observing' = TRUE /\ decorationFailed' = TRUE
           /\ modelList' = modelList
    BY <1>5 DEF FreeReadFails, ObservedList
  <2>2. NoDecoration \in [on : BOOLEAN, waits : Nat, version : Nat]
    BY DEF NoDecoration
  <2>3. CASE UNCHANGED <<modelList, decorating, observing, decorationFailed>>
    BY <1>1, <1>2, <2>3 DEF PickerIInv, GroupedAsRendered
  <2>4. CASE /\ decorating' = NoDecoration /\ observing' = TRUE /\ decorationFailed' = TRUE
             /\ modelList' = modelList
    BY <1>1, <1>2, <2>2, <2>4 DEF PickerIInv, GroupedAsRendered
  <2> QED BY <2>1, <2>3, <2>4
<1> QED BY <1>3, <1>4, <1>5 DEF FreeReadAnswers

LEMMA PickerStepOK == PickerIInv /\ [PickerNext]_pickerVars => PickerIInv'
<1> SUFFICES ASSUME PickerIInv, [PickerNext]_pickerVars PROVE PickerIInv'
  OBVIOUS
<1>1. ASSUME UNCHANGED pickerVars PROVE PickerIInv'
  BY <1>1 DEF pickerVars, PickerIInv, GroupedAsRendered
<1>2. ASSUME KeysExpire PROVE PickerIInv'
  <2>1. freeKeys' = [session |-> freeKeys.session, of |-> freeKeys.of, age |-> "old",
                     pending |-> freeKeys.pending]
    BY <1>2 DEF KeysExpire, PickerIInv
  <2> QED BY <1>2, <2>1 DEF KeysExpire, PickerIInv, GroupedAsRendered
<1>3. ASSUME QueuedDecoration \/ ClickDecorates PROVE PickerIInv'
  BY <1>3, DecorateOK DEF QueuedDecoration, ClickDecorates, PickerIInv
<1>4. ASSUME NEW shape \in {"flat", "empty"}, RenderModels(shape) PROVE PickerIInv'
  <2>1. /\ modelsRendered' = modelsRendered + 1
        /\ modelList' = [shape |-> shape, version |-> modelsRendered + 1, by |-> NoKeys]
        /\ decorationQueued' = (decorationQueued \/ observing)
        /\ UNCHANGED <<pickerChat, decorating, observing, freeKeys, freeReads, readsMade,
                       decorationFailed>>
    BY <1>4 DEF RenderModels
  <2>2. decorationQueued' \in BOOLEAN /\ (observing => decorationQueued')
    BY <2>1, Zenon
  <2> QED BY <2>1, <2>2 DEF PickerIInv, GroupedAsRendered
<1>5. ASSUME NEW c \in PickerChats, PickerChat(c) PROVE PickerIInv'
  BY <1>5 DEF PickerChat, PickerIInv, GroupedAsRendered
<1> QED BY <1>1, <1>2, <1>3, <1>4, <1>5, FreeReadOK DEF PickerNext

\* The grouped list is that of the newest render, and no render stays flat
\* (decorateModelChoices, app/ui-enhancements.js).
THEOREM ListIsGrouped == PickerSpec => []GroupedAsRendered
<1>1. PickerIInv => GroupedAsRendered
  BY DEF PickerIInv
<1> QED BY <1>1, PickerInitOK, PickerStepOK, PTL DEF PickerSpec

-----------------------------------------------------------------------------
(* The folder browser.  The newest answer under way is for the folder asked *)
(* for last.                                                                *)

FolderIInv ==
  /\ folderSeq \in Nat /\ FolderIsAsked
  /\ \A r \in folderReads : r.seq \in 1 .. folderSeq /\ (r.seq = folderSeq => r.path = lastAsked)

LEMMA FolderInitOK == FolderInit => FolderIInv
BY DEF FolderInit, FolderIInv, FolderIsAsked

LEMMA FolderStepOK == FolderIInv /\ [FolderNext]_folderVars => FolderIInv'
<1> SUFFICES ASSUME FolderIInv, [FolderNext]_folderVars PROVE FolderIInv'
  OBVIOUS
<1> USE DEF FolderIInv, FolderIsAsked
<1>1. ASSUME UNCHANGED folderVars PROVE FolderIInv'
  BY <1>1 DEF folderVars
<1>2. ASSUME NEW p \in Paths \cup {Top}, Browse(p) PROVE FolderIInv'
  BY <1>2 DEF Browse, Asks
<1>3. ASSUME NEW r \in folderReads, FolderAnswers(r) PROVE FolderIInv'
  <2>1. CASE NewestFolder(r) /\ r.path = Top /\ OnlyRoot # Top /\ folderSeq < MaxBrowses
    BY <1>3, <2>1 DEF FolderAnswers, Asks
  <2>2. CASE ~(NewestFolder(r) /\ r.path = Top /\ OnlyRoot # Top /\ folderSeq < MaxBrowses)
    BY <1>3, <2>2 DEF FolderAnswers, NewestFolder
  <2> QED BY <2>1, <2>2
<1>4. ASSUME NEW r \in folderReads, FolderFails(r) PROVE FolderIInv'
  BY <1>4 DEF FolderFails
<1>5. ASSUME UNCHANGED <<folderSeq, folderReads, pane, lastAsked>> PROVE FolderIInv'
  BY <1>5
<1>6. ASSUME NEW p \in Paths, NEW form \in {"path", "child"}, PostFolder(form, p) PROVE FolderIInv'
  BY <1>6 DEF PostFolder
<1>7. ASSUME OpenShown PROVE FolderIInv'
  BY <1>7 DEF OpenShown
<1>8. ASSUME NEW x \in folderPosts, FolderPosted(x) \/ ProjectOpened(x) \/ FolderRefused(x)
      PROVE  FolderIInv'
  BY <1>8 DEF FolderPosted, ProjectOpened, FolderRefused
<1> QED BY <1>1, <1>2, <1>3, <1>4, <1>6, <1>7, <1>8 DEF FolderNext

\* The folder on screen is the one asked for last (browseDirectory, app/ui-enhancements.js).
THEOREM ShownFolderIsAsked == FolderSpec => []FolderIsAsked
<1>1. FolderIInv => FolderIsAsked
  BY DEF FolderIInv
<1> QED BY <1>1, FolderInitOK, FolderStepOK, PTL DEF FolderSpec

-----------------------------------------------------------------------------
(* The slash commands.  While a command is under way it is the last of the  *)
(* submitted ones, and those that ran were submitted before it.             *)

RanAmong(k) ==
  \E f \in [DOMAIN ran -> 1 .. k] :
    /\ \A n \in DOMAIN ran : ran[n] = submitted[f[n]]
    /\ \A m, n \in DOMAIN ran : m < n => f[m] < f[n]
\* A command that is to be posted has not run.
ToBePosted == slash.stage \in {"making", "posting"}
RunUpTo == IF ToBePosted THEN Len(submitted) - 1 ELSE Len(submitted)

SlashStages == {"none", "making", "posting", "posted"}
SlashRecs == [stage : SlashStages, command : Slashes \cup {Plain},
              chat : CommandChats \cup {NoCommandChat, QuickChat}]
SlashPairs == Slashes \X (CommandChats \cup {NoCommandChat, QuickChat})

SlashIInv ==
  /\ slashChat \in CommandChats \cup {NoCommandChat, QuickChat}
  /\ submitted \in Seq(SlashPairs) /\ ran \in Seq(SlashPairs)
  /\ slash \in SlashRecs /\ (slash.stage # "none" => slash.command \in Slashes)
  /\ ToBePosted =>
       /\ Len(submitted) > 0
       /\ submitted[Len(submitted)]
            = <<slash.command, IF slash.stage = "making" THEN QuickChat ELSE slash.chat>>
  /\ RanAmong(RunUpTo)
PaletteIInv ==
  /\ paletteSeq \in Nat /\ PaletteIsNewest
  /\ \A l \in slashLookups : l.seq \in 1 .. paletteSeq
  /\ \A l, other \in slashLookups : l.seq = other.seq => l = other
  /\ palette.shows = "commands" =>
       \A l \in slashLookups : l.seq = paletteSeq => typed = l.query

LEMMA SlashInitOK == SlashInit => SlashIInv /\ PaletteIInv
<1> SUFFICES ASSUME SlashInit PROVE SlashIInv /\ PaletteIInv
  OBVIOUS
<1>1. /\ <<>> \in Seq(SlashPairs) /\ Len(<<>>) = 0 /\ DOMAIN <<>> = {}
      /\ submitted = <<>> /\ ran = <<>>
  BY DEF SlashInit
<1>2. slash \in SlashRecs /\ slash.stage = "none"
  BY DEF SlashInit, NoSlash, SlashRecs, SlashStages
<1>3. RanAmong(RunUpTo)
  <2>1. DOMAIN ran = {} /\ RunUpTo = 0
    BY <1>1, <1>2 DEF RunUpTo, ToBePosted
  <2> DEFINE f == [n \in {} |-> 0]
  <2>2. f \in [DOMAIN ran -> 1 .. RunUpTo]
    BY <2>1
  <2> QED BY <2>1, <2>2 DEF RanAmong
<1>4. SlashIInv
  BY <1>1, <1>2, <1>3 DEF SlashInit, SlashIInv, ToBePosted
<1>5. palette.shows # "commands" /\ slashLookups = {} /\ paletteSeq = 0
  BY DEF SlashInit, ClosedPalette
<1> QED BY <1>4, <1>5 DEF PaletteIInv, PaletteIsNewest

\* What ran stays where it is when more is submitted, or when one of those that
\* were submitted is given up.
LEMMA RanAmongMore ==
  ASSUME SlashIInv, NEW k \in Int, NEW more \in Int, RanAmong(k), k <= more, k <= Len(submitted),
         ran' = ran, \A i \in 1 .. k : submitted'[i] = submitted[i]
  PROVE  RanAmong(more)'
<1>1. PICK f \in [DOMAIN ran -> 1 .. k] :
        /\ \A n \in DOMAIN ran : ran[n] = submitted[f[n]]
        /\ \A m, n \in DOMAIN ran : m < n => f[m] < f[n]
  BY DEF RanAmong
<1>2. f \in [DOMAIN ran' -> 1 .. more]
  BY <1>1
<1>3. \A n \in DOMAIN ran' : ran'[n] = submitted'[f[n]]
  BY <1>1
<1> QED BY <1>1, <1>2, <1>3 DEF RanAmong

\* A command is submitted, posted, or over.
LEMMA SlashStepOK == SlashIInv /\ [SlashNext]_slashVars => SlashIInv'
<1> SUFFICES ASSUME SlashIInv, [SlashNext]_slashVars PROVE SlashIInv'
  OBVIOUS
<1>0. /\ Len(submitted) \in Nat /\ DOMAIN submitted = 1 .. Len(submitted)
      /\ Len(ran) \in Nat /\ DOMAIN ran = 1 .. Len(ran)
      /\ RunUpTo \in Int /\ RunUpTo <= Len(submitted)
  <2>1. /\ Len(submitted) \in Nat /\ DOMAIN submitted = 1 .. Len(submitted)
        /\ Len(ran) \in Nat /\ DOMAIN ran = 1 .. Len(ran)
    <3> HIDE DEF SlashPairs
    <3> QED BY LenProperties DEF SlashIInv
  <2> QED BY <2>1 DEF RunUpTo
<1>1. ASSUME UNCHANGED <<slash, submitted, ran>>,
             slashChat' \in CommandChats \cup {NoCommandChat, QuickChat}
      PROVE  SlashIInv'
  BY <1>1 DEF SlashIInv, ToBePosted, RunUpTo, RanAmong
<1>2. ASSUME SubmitSlash PROVE SlashIInv'
  <2> DEFINE to == IF slashChat = NoCommandChat THEN QuickChat ELSE slashChat
  <2>1. /\ typed \in Slashes /\ slash.stage = "none" /\ ran' = ran /\ slashChat' = slashChat
        /\ submitted' = Append(submitted, <<typed, to>>)
        /\ slash' = [stage |-> IF slashChat = NoCommandChat THEN "making" ELSE "posting",
                     command |-> typed, chat |-> slashChat]
    BY <1>2 DEF SubmitSlash
  <2>2. <<typed, to>> \in SlashPairs
    BY <2>1 DEF SlashIInv, SlashPairs
  <2> HIDE DEF to
  <2>3. /\ submitted' \in Seq(SlashPairs) /\ Len(submitted') = Len(submitted) + 1
        /\ \A i \in 1 .. Len(submitted) : submitted'[i] = submitted[i]
        /\ submitted'[Len(submitted) + 1] = <<typed, to>>
    <3> HIDE DEF SlashPairs
    <3> QED BY <2>1, <2>2, <1>0, AppendProperties DEF SlashIInv
  <2>4. slash' \in SlashRecs /\ slash'.command = typed /\ ToBePosted'
        /\ to = IF slash'.stage = "making" THEN QuickChat ELSE slash'.chat
    BY <2>1 DEF SlashRecs, SlashStages, SlashIInv, ToBePosted, to
  <2>5. RunUpTo = Len(submitted) /\ RunUpTo' = Len(submitted)
    BY <2>1, <2>3, <2>4, <1>0 DEF RunUpTo, ToBePosted
  <2>6. RanAmong(RunUpTo)'
    <3>1. RanAmong(Len(submitted))
      BY <2>5 DEF SlashIInv
    <3>2. RanAmong(RunUpTo)
      BY DEF SlashIInv
    <3>0. Len(submitted) \in Int
      BY <1>0
    <3>3. PICK k \in Int : k = Len(submitted)
      BY <3>0, Zenon
    <3>4. RanAmong(k)
      BY <3>1, <3>3
    <3>5. RanAmong(k)'
      BY <3>4, <3>3, <1>0, <2>1, <2>3, RanAmongMore
    <3>6. RunUpTo' = k
      BY <2>5, <3>3
    <3> QED BY <3>5, <3>6 DEF RanAmong
  <2>7. /\ Len(submitted') > 0
        /\ submitted'[Len(submitted')]
             = <<slash'.command, IF slash'.stage = "making" THEN QuickChat ELSE slash'.chat>>
    BY <1>0, <2>3, <2>4
  <2> QED BY <2>1, <2>3, <2>4, <2>6, <2>7 DEF SlashIInv
<1>3. ASSUME QuickSessionMade PROVE SlashIInv'
  <2>1. /\ slash.stage = "making" /\ slash' = [slash EXCEPT !.stage = "posting", !.chat = QuickChat]
        /\ UNCHANGED <<submitted, ran>> /\ slashChat' = QuickChat
    BY <1>3 DEF QuickSessionMade, Made
  <2>2. slash' \in SlashRecs /\ slash'.command = slash.command /\ slash'.stage = "posting"
        /\ slash'.chat = QuickChat
    BY <2>1 DEF SlashIInv, SlashRecs, SlashStages
  <2>3. RunUpTo' = RunUpTo /\ ToBePosted /\ ToBePosted'
    BY <2>1, <2>2 DEF RunUpTo, ToBePosted
  <2>4. RanAmong(RunUpTo)'
    BY <2>1, <2>3 DEF RanAmong, SlashIInv
  <2> QED BY <2>1, <2>2, <2>3, <2>4 DEF SlashIInv
<1>4. ASSUME CommandPosted PROVE SlashIInv'
  <2> DEFINE pair == <<slash.command, slash.chat>>
  <2>1. /\ slash.stage = "posting" /\ slash' = [slash EXCEPT !.stage = "posted"]
        /\ ran' = Append(ran, pair) /\ UNCHANGED <<submitted, slashChat>>
    BY <1>4 DEF CommandPosted
  <2>2. slash' \in SlashRecs /\ slash'.command = slash.command /\ slash'.stage = "posted"
    BY <2>1 DEF SlashIInv, SlashRecs, SlashStages
  <2>3. /\ pair \in SlashPairs /\ Len(submitted) > 0 /\ submitted[Len(submitted)] = pair
        /\ RunUpTo = Len(submitted) - 1 /\ RunUpTo' = Len(submitted) /\ ~ToBePosted'
    BY <2>1, <2>2, <1>0 DEF SlashIInv, SlashRecs, SlashPairs, ToBePosted, RunUpTo
  <2> HIDE DEF pair
  <2>4. /\ ran' \in Seq(SlashPairs) /\ DOMAIN ran' = 1 .. Len(ran) + 1
        /\ \A i \in 1 .. Len(ran) : ran'[i] = ran[i]
        /\ ran'[Len(ran) + 1] = pair
    <3> HIDE DEF SlashPairs
    <3>1. Len(ran') = Len(ran) + 1 /\ ran' \in Seq(SlashPairs)
          /\ \A i \in 1 .. Len(ran) : ran'[i] = ran[i] /\ ran'[Len(ran) + 1] = pair
      BY <1>0, <2>1, <2>3, AppendProperties DEF SlashIInv
    <3>2. ran'[Len(ran) + 1] = pair
      BY <1>0, <2>1, <2>3, AppendProperties DEF SlashIInv
    <3>3. DOMAIN ran' = 1 .. Len(ran')
      BY <3>1, LenProperties
    <3> QED BY <3>1, <3>2, <3>3
  <2>5. PICK f \in [DOMAIN ran -> 1 .. Len(submitted) - 1] :
          /\ \A n \in DOMAIN ran : ran[n] = submitted[f[n]]
          /\ \A m, n \in DOMAIN ran : m < n => f[m] < f[n]
    BY <2>3 DEF SlashIInv, RanAmong
  <2> DEFINE g == [n \in DOMAIN ran' |-> IF n = Len(ran) + 1 THEN Len(submitted) ELSE f[n]]
  <2>6. /\ g[Len(ran) + 1] = Len(submitted)
        /\ \A n \in DOMAIN ran : g[n] = f[n] /\ g[n] \in 1 .. Len(submitted) - 1
    BY <1>0, <2>4, <2>5
  <2>7. g \in [DOMAIN ran' -> 1 .. Len(submitted)]
    BY <1>0, <2>3, <2>4, <2>5
  <2> HIDE DEF g
  <2>8. \A n \in DOMAIN ran' : ran'[n] = submitted'[g[n]]
    BY <1>0, <2>1, <2>3, <2>4, <2>5, <2>6
  <2>9. \A m, n \in DOMAIN ran' : m < n => g[m] < g[n]
    BY <1>0, <2>3, <2>4, <2>5, <2>6
  <2>10. RanAmong(RunUpTo)'
    BY <2>3, <2>7, <2>8, <2>9 DEF RanAmong
  <2> QED BY <2>1, <2>2, <2>3, <2>4, <2>10 DEF SlashIInv
<1>5. ASSUME CommandAnswers \/ CommandFails PROVE SlashIInv'
  <2>1. slash' = NoSlash /\ UNCHANGED <<submitted, ran, slashChat>>
    BY <1>5 DEF CommandAnswers, CommandFails
  <2>2. slash' \in SlashRecs /\ slash'.stage = "none"
    BY <2>1 DEF NoSlash, SlashRecs, SlashStages
  <2>3. PICK k \in Int : k = RunUpTo
    BY <1>0
  <2>4. RanAmong(k)
    BY <2>3 DEF SlashIInv
  <2>0. Len(submitted) \in Int
    BY <1>0
  <2>5. PICK more \in Int : more = Len(submitted)
    BY <2>0, Zenon
  <2>6. RanAmong(more)'
    BY <2>1, <2>3, <2>4, <2>5, <1>0, RanAmongMore
  <2>7. RunUpTo' = more /\ ~ToBePosted'
    BY <2>1, <2>2, <2>5 DEF RunUpTo, ToBePosted
  <2>8. RanAmong(RunUpTo)'
    BY <2>6, <2>7 DEF RanAmong
  <2> QED BY <2>1, <2>2, <2>7, <2>8 DEF SlashIInv
<1>6. ASSUME NEW t \in Slashes \cup {Plain}, Type(t) \/ InsertCommand(t) PROVE SlashIInv'
  BY <1>1, <1>6 DEF Type, InsertCommand, SlashIInv
<1>7. ASSUME NEW l \in slashLookups, LookupAnswers(l) \/ LookupFails(l) PROVE SlashIInv'
  BY <1>1, <1>7 DEF LookupAnswers, LookupFails, SlashIInv
<1>8. ASSUME NEW c \in CommandChats \cup {NoCommandChat}, NEW t \in {typed, Plain}, ShowChat(c, t)
      PROVE  SlashIInv'
  BY <1>1, <1>8 DEF ShowChat
<1>9. ASSUME ClosePalette \/ UNCHANGED slashVars PROVE SlashIInv'
  BY <1>1, <1>9 DEF ClosePalette, slashVars, SlashIInv
<1> QED BY <1>2, <1>3, <1>4, <1>5, <1>6, <1>7, <1>8, <1>9 DEF SlashNext

\* The input changes: a newer lookup starts, or none is needed.
LEMMA InputOK ==
  ASSUME PaletteIInv, NEW t, Input(t)
  PROVE  /\ paletteSeq' \in Nat /\ paletteSeq' = paletteSeq + 1 /\ typed' = t
         /\ \A l \in slashLookups' : l.seq \in 1 .. paletteSeq'
         /\ \A l, other \in slashLookups' : l.seq = other.seq => l = other
         /\ \A l \in slashLookups' : l.seq = paletteSeq' => l.query = t
         /\ t # Plain => \E l \in slashLookups' : l.seq = paletteSeq'
<1>1. CASE t = Plain
  BY <1>1 DEF Input, PaletteIInv
<1>2. CASE t # Plain
  <2> DEFINE new == [seq |-> paletteSeq + 1, query |-> t, chat |-> slashChat]
  <2>1. slashLookups' = slashLookups \cup {new} /\ paletteSeq' = paletteSeq + 1 /\ typed' = t
    BY <1>2 DEF Input
  <2>2. new.seq = paletteSeq + 1 /\ new.query = t
    OBVIOUS
  <2> HIDE DEF new
  <2> QED BY <2>1, <2>2 DEF PaletteIInv
<1> QED BY <1>1, <1>2

LEMMA PaletteStepOK == SlashIInv /\ PaletteIInv /\ [SlashNext]_slashVars => PaletteIInv'
<1> SUFFICES ASSUME SlashIInv, PaletteIInv, [SlashNext]_slashVars PROVE PaletteIInv'
  OBVIOUS
<1>1. ASSUME UNCHANGED <<typed, paletteSeq, slashLookups, palette>> PROVE PaletteIInv'
  BY <1>1 DEF PaletteIInv, PaletteIsNewest
<1>2. ASSUME NEW t, Input(t), palette' = ClosedPalette PROVE PaletteIInv'
  BY <1>2, InputOK DEF PaletteIInv, PaletteIsNewest, ClosedPalette
<1>3. ASSUME NEW t, t # Plain, Input(t), palette' = palette PROVE PaletteIInv'
  BY <1>3, InputOK DEF PaletteIInv, PaletteIsNewest
<1>4. ASSUME NEW t, UNCHANGED <<paletteSeq, slashLookups>>, palette' = ClosedPalette, typed' = t
      PROVE  PaletteIInv'
  BY <1>4 DEF PaletteIInv, PaletteIsNewest, ClosedPalette
<1>5. ASSUME NEW t \in Slashes \cup {Plain}, Type(t) \/ InsertCommand(t) PROVE PaletteIInv'
  BY <1>2, <1>3, <1>5 DEF Type, InsertCommand
<1>6. ASSUME NEW l \in slashLookups, LookupAnswers(l) PROVE PaletteIInv'
  <2>1. CASE NewestLookup(l)
    BY <1>6, <2>1 DEF LookupAnswers, NewestLookup, PaletteIInv, PaletteIsNewest
  <2>2. CASE ~NewestLookup(l)
    <3>1. palette.shows = "commands" => l.seq # paletteSeq
      BY <2>2 DEF NewestLookup, PaletteIInv
    <3> QED BY <1>6, <2>2, <3>1 DEF LookupAnswers, PaletteIInv, PaletteIsNewest
  <2> QED BY <2>1, <2>2
<1>7. ASSUME NEW l \in slashLookups, LookupFails(l) PROVE PaletteIInv'
  BY <1>7 DEF LookupFails, PaletteIInv, PaletteIsNewest
<1>8. ASSUME NEW c \in CommandChats \cup {NoCommandChat}, NEW t \in {typed, Plain}, ShowChat(c, t)
      PROVE  PaletteIInv'
  BY <1>4, <1>8 DEF ShowChat
<1>9. ASSUME ClosePalette \/ QuickSessionMade PROVE PaletteIInv'
  BY <1>4, <1>9 DEF ClosePalette, QuickSessionMade
<1>10. ASSUME SubmitSlash PROVE PaletteIInv'
  BY <1>2, <1>10 DEF SubmitSlash
<1>11. ASSUME CommandPosted \/ CommandAnswers PROVE PaletteIInv'
  BY <1>1, <1>11 DEF CommandPosted, CommandAnswers
<1>12. ASSUME CommandFails PROVE PaletteIInv'
  <2>1. slash.command # Plain
    BY <1>12, SlashAssumption DEF CommandFails, SlashIInv
  <2> QED BY <1>1, <1>3, <1>12, <2>1 DEF CommandFails
<1>13. ASSUME UNCHANGED slashVars PROVE PaletteIInv'
  BY <1>1, <1>13 DEF slashVars
<1> QED BY <1>5, <1>6, <1>7, <1>8, <1>9, <1>10, <1>11, <1>12, <1>13 DEF SlashNext

LEMMA SlashIsSound == SlashIInv /\ PaletteIInv => SlashSound
<1> SUFFICES ASSUME SlashIInv, PaletteIInv PROVE RanAsSubmitted
  BY DEF SlashSound, PaletteIInv
<1>1. /\ Len(submitted) \in Nat /\ DOMAIN submitted = 1 .. Len(submitted)
  <2> HIDE DEF SlashPairs
  <2> QED BY LenProperties DEF SlashIInv
<1>2. PICK f \in [DOMAIN ran -> 1 .. RunUpTo] :
        /\ \A n \in DOMAIN ran : ran[n] = submitted[f[n]]
        /\ \A m, n \in DOMAIN ran : m < n => f[m] < f[n]
  BY DEF RanAmong, SlashIInv
<1>3. 1 .. RunUpTo \subseteq DOMAIN submitted
  BY <1>1 DEF RunUpTo
<1>4. f \in [DOMAIN ran -> DOMAIN submitted]
  BY <1>2, <1>3
<1> QED BY <1>2, <1>4 DEF RanAsSubmitted

\* What runs is what was submitted, in that order and in its chat, and what is
\* shown is what is typed, for every number of commands, chats and lookups
\* (executeSlash, updatePalette in app/enhancements.js).
THEOREM SlashAlwaysSound == SlashSpec => []SlashSound
BY SlashInitOK, SlashStepOK, PaletteStepOK, SlashIsSound, PTL DEF SlashSpec

-----------------------------------------------------------------------------
(* The views of the page (PageViews).  The list leaves a user alone who     *)
(* went up, because from then on it is detached and settles for no chat.    *)

FollowIInv ==
  /\ FollowsUser
  /\ yanked \in BOOLEAN /\ userUp \in BOOLEAN /\ detached \in BOOLEAN
  /\ scrollEvent \in BOOLEAN /\ wheel \in BOOLEAN /\ frame \in BOOLEAN
  /\ userUp => detached /\ followChat # NoPageChat /\ settlingFor # followChat

\* The list goes to its end while nobody reads above it, or at the user's wish.
LEMMA GoesToEnd ==
  ASSUME NEW may \in BOOLEAN, ToEnd(may), ~yanked, may \/ ~userUp
  PROVE  ~yanked' /\ yanked' \in BOOLEAN /\ wheel' \in BOOLEAN /\ scrollEvent' \in BOOLEAN
<1>1. yanked' = (yanked \/ (userUp /\ ~may)) /\ wheel' = FALSE
      /\ scrollEvent' = (scrollEvent \/ place # "end")
  BY DEF ToEnd
<1>2. yanked' = FALSE
  BY <1>1, Zenon
<1>3. scrollEvent' \in BOOLEAN
  BY <1>1, Zenon
<1> QED BY <1>1, <1>2, <1>3

\* The list stays with the user.
LEMMA FollowStepOK == FollowIInv /\ [FollowNext]_followVars => FollowIInv'
<1> SUFFICES ASSUME FollowIInv, [FollowNext]_followVars PROVE FollowIInv'
  OBVIOUS
<1> USE DEF FollowIInv, FollowsUser
<1>1. ASSUME UNCHANGED followVars PROVE FollowIInv'
  BY <1>1 DEF followVars
<1>2. ASSUME FollowFrame \/ Streams PROVE FollowIInv'
  <2>1. ASSUME FollowFrame PROVE FollowIInv'
    <3>1. CASE Sticks /\ ToEnd(FALSE)
      BY <2>1, <3>1, GoesToEnd DEF FollowFrame, Sticks
    <3>2. CASE UNCHANGED <<wheel, scrollEvent, yanked>>
      BY <2>1, <3>2 DEF FollowFrame
    <3> QED BY <2>1, <3>1, <3>2 DEF FollowFrame
  <2>2. ASSUME Streams PROVE FollowIInv'
    BY <2>2 DEF Streams
  <2> QED BY <1>2, <2>1, <2>2
<1>3. ASSUME UserGoesUp \/ ListMovesUp \/ UserGoesDown \/ ScrollEvent PROVE FollowIInv'
  <2>1. ASSUME UserGoesUp PROVE FollowIInv'
    BY <2>1 DEF UserGoesUp
  <2>2. ASSUME ListMovesUp PROVE FollowIInv'
    BY <2>2 DEF ListMovesUp
  <2>3. ASSUME UserGoesDown PROVE FollowIInv'
    BY <2>3 DEF UserGoesDown
  <2>4. ASSUME ScrollEvent PROVE FollowIInv'
    BY <2>4 DEF ScrollEvent
  <2> QED BY <1>3, <2>1, <2>2, <2>3, <2>4
<1>4. ASSUME ToEndButton \/ OpensMissing \/ OrchestrationFrame PROVE FollowIInv'
  <2>1. ASSUME ToEndButton PROVE FollowIInv'
    BY <2>1, GoesToEnd DEF ToEndButton
  <2>2. ASSUME OpensMissing PROVE FollowIInv'
    BY <2>2 DEF OpensMissing
  <2>3. ASSUME OrchestrationFrame PROVE FollowIInv'
    BY <2>3, GoesToEnd DEF OrchestrationFrame
  <2> QED BY <1>4, <2>1, <2>2, <2>3
<1>5. ASSUME NEW first \in BOOLEAN, PageLoads(first) \/ OrchestrationRenders(first) PROVE FollowIInv'
  <2>1. ASSUME PageLoads(first) PROVE FollowIInv'
    BY <2>1, GoesToEnd DEF PageLoads
  <2>2. ASSUME OrchestrationRenders(first) PROVE FollowIInv'
    BY <2>2 DEF OrchestrationRenders
  <2> QED BY <1>5, <2>1, <2>2
<1>6. ASSUME NEW c \in PageChats \cup {NoPageChat}, FollowOpen(c) PROVE FollowIInv'
  BY <1>6 DEF FollowOpen
<1>7. ASSUME NEW k \in settlers, StaysAtEnd(k) \/ StopsSettling(k) PROVE FollowIInv'
  <2>1. ASSUME StaysAtEnd(k) PROVE FollowIInv'
    BY <2>1, GoesToEnd DEF StaysAtEnd, MaySettle
  <2>2. ASSUME StopsSettling(k) PROVE FollowIInv'
    BY <2>2 DEF StopsSettling
  <2> QED BY <1>7, <2>1, <2>2
<1> QED BY <1>1, <1>2, <1>3, <1>4, <1>5, <1>6, <1>7 DEF FollowNext

LEMMA FollowInitOK == FollowInit => FollowIInv
BY DEF FollowInit, FollowIInv, FollowsUser

\* The list is never brought to its end against the user, and shows every change
\* of the conversation or has its frame (renderMessages, scheduleMessageRender).
THEOREM ListFollowsUser == FollowSpec => []FollowsUser
<1>1. FollowIInv => FollowsUser
  BY DEF FollowIInv
<1> QED BY <1>1, FollowInitOK, FollowStepOK, PTL DEF FollowSpec

-----------------------------------------------------------------------------
(* The pull. *)

PullIInv ==
  /\ gesture \in [on : BOOLEAN, chat : PageChats \cup {NoPageChat}, held : BOOLEAN]
  /\ pullChat \in PageChats \cup {NoPageChat}
  /\ PullEnds

LEMMA PullInitOK == PullInit => PullIInv
BY DEF PullInit, PullIInv, PullEnds, NoGesture

\* A gesture that is given up leaves the pill to a refresh, or hides it.
LEMMA CancelsOK ==
  ASSUME PullIInv, CancelsGesture,
         UNCHANGED <<pullChat, refreshing, pullReads>>
  PROVE  PullIInv'
BY DEF PullIInv, PullEnds, CancelsGesture, NoGesture

LEMMA PullStepOK == PullIInv /\ [PullNext]_pullVars => PullIInv'
<1> SUFFICES ASSUME PullIInv, [PullNext]_pullVars PROVE PullIInv'
  OBVIOUS
<1>1. ASSUME UNCHANGED pullVars PROVE PullIInv'
  BY <1>1 DEF pullVars, PullIInv, PullEnds
<1>2. ASSUME TouchStart PROVE PullIInv'
  <2>1. gesture' \in [on : BOOLEAN, chat : PageChats \cup {NoPageChat}, held : BOOLEAN]
        /\ (gesture.on => gesture'.on)
    BY <1>2 DEF TouchStart, NoGesture, PullIInv
  <2> QED BY <1>2, <2>1 DEF TouchStart, TimerKept, PullIInv, PullEnds
<1>3. ASSUME SecondFinger PROVE PullIInv'
  BY <1>3, CancelsOK DEF SecondFinger
<1>4. ASSUME NEW far \in {"back", "short", "some", "beyond"}, TouchMove(far) PROVE PullIInv'
  <2>1. CASE pullChat # gesture.chat \/ far = "back"
    BY <1>4, <2>1, CancelsOK DEF TouchMove
  <2>2. CASE ~(pullChat # gesture.chat \/ far = "back")
    <3>1. \A d \in BOOLEAN :
            LET g == [gesture EXCEPT !.held = d]
            IN  g \in [on : BOOLEAN, chat : PageChats \cup {NoPageChat}, held : BOOLEAN]
                /\ g.on = gesture.on
      BY DEF PullIInv
    <3>2. /\ gesture' \in [on : BOOLEAN, chat : PageChats \cup {NoPageChat}, held : BOOLEAN]
          /\ gesture'.on = gesture.on
      <4> DEFINE d == (far = "beyond")
      <4>1. d \in BOOLEAN
        OBVIOUS
      <4>2. gesture' = [gesture EXCEPT !.held = d]
        BY <1>4, <2>2 DEF TouchMove
      <4> QED BY <3>1, <4>1, <4>2, Zenon
    <3>3. /\ UNCHANGED <<pullChat, touching, refreshing, pullReads>>
          /\ touching /\ gesture.on /\ ~refreshing
          /\ pill' \in {"hidden", "pulling", "holding"} /\ (hideDue' => hideDue)
      BY <1>4, <2>2 DEF TouchMove
    <3> QED BY <3>2, <3>3 DEF PullIInv, PullEnds
  <2> QED BY <2>1, <2>2
<1>5. ASSUME TouchEnd PROVE PullIInv'
  <2>1. CASE gesture.on
    BY <1>5, <2>1, CancelsOK DEF TouchEnd
  <2>2. CASE ~gesture.on
    BY <1>5, <2>2 DEF TouchEnd, PullIInv, PullEnds
  <2> QED BY <2>1, <2>2
<1>6. ASSUME HoldFrame PROVE PullIInv'
  <2>1. CASE pullChat # gesture.chat
    BY <1>6, <2>1, CancelsOK DEF HoldFrame
  <2>2. CASE pullChat = gesture.chat
    <3>1. /\ ~refreshing /\ refreshing' = TRUE /\ pullReads' # {} /\ UNCHANGED <<pullChat, hideDue>>
          /\ gesture' = NoGesture /\ pill' = "refreshing"
      BY <1>6, <2>2 DEF HoldFrame
    <3>2. ~hideDue
      BY <3>1 DEF PullIInv, PullEnds
    <3> QED BY <3>1, <3>2 DEF PullIInv, PullEnds, NoGesture
  <2> QED BY <2>1, <2>2
<1>7. ASSUME PullSettles \/ HideFires PROVE PullIInv'
  BY <1>7 DEF PullSettles, HideFires, PullIInv, PullEnds
<1>8. ASSUME NEW c \in PageChats \cup {NoPageChat}, PullOpen(c) PROVE PullIInv'
  BY <1>8 DEF PullOpen, PullIInv, PullEnds
<1> QED BY <1>1, <1>2, <1>3, <1>4, <1>5, <1>6, <1>7, <1>8 DEF PullNext

\* A pull can always be made again, for every number of touches and chats
\* (setupPullRefresh).
THEOREM PullsEnd == PullSpec => []PullEnds
<1>1. PullIInv => PullEnds
  BY DEF PullIInv
<1> QED BY <1>1, PullInitOK, PullStepOK, PTL DEF PullSpec

-----------------------------------------------------------------------------
(* The dialog that creates a chat. *)

TargetIInv == creating \in Nat /\ OneCreation

LEMMA TargetInitOK == TargetInit => TargetIInv
BY DEF TargetInit, TargetIInv, OneCreation

LEMMA TargetStepOK == TargetIInv /\ [TargetNext]_targetVars => TargetIInv'
BY DEF TargetIInv, OneCreation, TargetNext, targetVars, TargetCloses, TargetOpens, Targets,
       TargetEnds, MayTarget

\* One creation at a time, and its dialog takes no other choice until it ends
\* (selectProjectTarget).
THEOREM CreatesOnce == TargetSpec => []OneCreation
<1>1. TargetIInv => OneCreation
  BY DEF TargetIInv
<1> QED BY <1>1, TargetInitOK, TargetStepOK, PTL DEF TargetSpec

-----------------------------------------------------------------------------
(* The models added by hand.  A tab has one row of a key. *)

ModelRows == [key : ModelKeys, custom : BOOLEAN]
OneRowEach(set) == \A one \in set, other \in set : one.key = other.key => one = other

CustomIInv ==
  /\ offered \subseteq ModelKeys /\ storedModels \subseteq ModelKeys
  /\ storedModels \cap hiddenKeys = {}
  /\ rowsOf \in [Tabs -> SUBSET ModelRows]
  /\ \A t \in Tabs : OneRowEach(rowsOf[t])

LEMMA CustomInitOK == CustomInit => CustomIInv
BY DEF CustomInit, CustomIInv, OneRowEach

\* Rows that differ in their key only.
LEMMA RowOfKey ==
  ASSUME NEW K, NEW f, NEW one \in [key : K, custom : {f}]
  PROVE  one = [key |-> one.key, custom |-> f]
OBVIOUS

\* Rows of custom models are added for keys that have none.
LEMMA RowsMerged ==
  ASSUME NEW rest \in SUBSET ModelRows, OneRowEach(rest), NEW more \in SUBSET ModelKeys
  PROVE  LET all == rest \cup [key : more \ Keys(rest), custom : {TRUE}]
         IN  all \in SUBSET ModelRows /\ OneRowEach(all)
<1> DEFINE new == [key : more \ Keys(rest), custom : {TRUE}]
<1>1. \A one \in new : one.key \in more /\ one.key \notin Keys(rest) /\ one \in ModelRows
  BY DEF ModelRows
<1>2. \A one \in rest : one.key \in Keys(rest)
  BY DEF Keys
<1>3. \A one \in new, other \in new : one.key = other.key => one = other
  <2>1. \A one \in new : one = [key |-> one.key, custom |-> TRUE]
    BY RowOfKey
  <2> HIDE DEF new
  <2> QED BY <2>1, Zenon
<1> HIDE DEF new
<1>4. (rest \cup new) \in SUBSET ModelRows
  BY <1>1
<1>5. OneRowEach(rest \cup new)
  BY <1>1, <1>2, <1>3 DEF OneRowEach
<1> QED BY <1>4, <1>5 DEF new

LEMMA CustomStepOK == CustomIInv /\ [CustomNext]_customVars => CustomIInv'
<1> SUFFICES ASSUME CustomIInv, [CustomNext]_customVars PROVE CustomIInv'
  OBVIOUS
<1>1. ASSUME UNCHANGED customVars PROVE CustomIInv'
  BY <1>1 DEF customVars, CustomIInv
<1>2. ASSUME NEW t \in Tabs, NEW k \in ModelKeys, AddsModel(t, k) PROVE CustomIInv'
  <2>1. CASE [key |-> k, custom |-> FALSE] \in rowsOf[t]
    BY <1>2, <2>1 DEF AddsModel, Unhidden, CustomIInv
  <2>2. CASE [key |-> k, custom |-> FALSE] \notin rowsOf[t]
    <3> DEFINE rest == rowsOf[t] \ {[key |-> k, custom |-> TRUE]}
               all  == rest \cup [key : storedModels' \ Keys(rest), custom : {TRUE}]
    <3>1. rest \in SUBSET ModelRows /\ OneRowEach(rest)
      BY DEF CustomIInv, OneRowEach
    <3>2. storedModels' = storedModels \cup {k} /\ hiddenKeys' = hiddenKeys \ {k}
          /\ offered' = offered
      BY <1>2, <2>2 DEF AddsModel, Unhidden
    <3>3. storedModels' \in SUBSET ModelKeys
      BY <3>2 DEF CustomIInv
    <3>4. all \in SUBSET ModelRows /\ OneRowEach(all)
      <4> HIDE DEF rest
      <4> QED BY <3>1, <3>3, RowsMerged
    <3>5. rowsOf' = [rowsOf EXCEPT ![t] = all]
      BY <1>2, <2>2 DEF AddsModel
    <3> HIDE DEF all
    <3> QED BY <3>2, <3>4, <3>5 DEF CustomIInv
  <2> QED BY <2>1, <2>2
<1>3. ASSUME NEW t \in Tabs, NEW k \in ModelKeys, RemovesModel(t, k) PROVE CustomIInv'
  BY <1>3 DEF RemovesModel, Unhidden, CustomIInv, OneRowEach
<1>4. ASSUME NEW t \in Tabs, NEW k \in ModelKeys, StarsModel(t, k) \/ ChoosesModel(t, k)
      PROVE  CustomIInv'
  BY <1>4 DEF StarsModel, ChoosesModel, CustomIInv
<1>5. ASSUME NEW t \in Tabs, LoadsModels(t) PROVE CustomIInv'
  <2> DEFINE all == WithCustom(FromServer)
  <2>1. FromServer \in SUBSET ModelRows /\ OneRowEach(FromServer)
    <3>1. \A one \in FromServer : one = [key |-> one.key, custom |-> FALSE]
      BY RowOfKey DEF FromServer
    <3>2. OneRowEach(FromServer)
      BY <3>1, Zenon DEF OneRowEach
    <3>3. FromServer \in SUBSET ModelRows
      BY DEF FromServer, ModelRows, CustomIInv
    <3> QED BY <3>2, <3>3
  <2>2. all \in SUBSET ModelRows /\ OneRowEach(all)
    BY <2>1, RowsMerged DEF WithCustom, CustomIInv
  <2>3. rowsOf' = [rowsOf EXCEPT ![t] = all] /\ UNCHANGED <<offered, storedModels, hiddenKeys>>
    BY <1>5 DEF LoadsModels
  <2> HIDE DEF all
  <2> QED BY <2>2, <2>3 DEF CustomIInv
<1>6. ASSUME NEW t \in Tabs, TabLoads(t) PROVE CustomIInv'
  BY <1>6 DEF TabLoads, CustomIInv, OneRowEach
<1>7. ASSUME NEW k \in ModelKeys, ServerOffers(k) PROVE CustomIInv'
  BY <1>7 DEF ServerOffers, CustomIInv
<1> QED BY <1>1, <1>2, <1>3, <1>4, <1>5, <1>6, <1>7 DEF CustomNext

LEMMA OneRowIsShown == CustomIInv => CustomIsShown
<1> SUFFICES ASSUME CustomIInv, NEW t \in Tabs, NEW k \in ModelKeys
             PROVE  Cardinality({row \in rowsOf[t] : row.key = k}) <= 1
  BY DEF CustomIInv, CustomIsShown
<1> DEFINE S == {row \in rowsOf[t] : row.key = k}
<1> SUFFICES Cardinality(S) <= 1
  OBVIOUS
<1>1. CASE S = {}
  <2>1. Cardinality({}) = 0
    BY FS_EmptySet
  <2> HIDE DEF S
  <2> QED BY <1>1, <2>1
<1>2. CASE S # {}
  <2>1. PICK one \in S : TRUE
    BY <1>2
  <2>2. S = {one}
    BY <2>1 DEF CustomIInv, OneRowEach
  <2>3. Cardinality(S) = 1
    BY <2>2, FS_Singleton
  <2> HIDE DEF S
  <2> QED BY <2>3
<1> QED BY <1>1, <1>2

\* A model added by hand is not hidden, and no tab shows a model twice, for every
\* number of tabs and models (addCustomModel, removeModelFromPicker).
THEOREM CustomAreShown == CustomSpec => []CustomIsShown
BY CustomInitOK, CustomStepOK, OneRowIsShown, PTL DEF CustomSpec

-----------------------------------------------------------------------------
(* The reads of the shortcuts.  Names tell them apart, and a read that      *)
(* belongs to a chat as it is now has not seen it without words.            *)

ProbeRecs == [chat : PageChats, name : Nat, value : {"unknown", "yes", "no"}]
EntryRecs == [updated : Nat, name : Nat, value : {"unknown", "yes", "no"}]
Unanswered == reading \cup waiting

ProbeIInv ==
  /\ probeKnown \subseteq PageChats /\ probes \in Nat /\ probeFailed \subseteq Nat
  /\ told \in [PageChats -> Nat] /\ talks \in [PageChats -> BOOLEAN]
  /\ probed \in [PageChats -> EntryRecs]
  /\ reading \subseteq ProbeRecs /\ waiting \subseteq ProbeRecs
  /\ IsFiniteSet(reading) /\ IsFiniteSet(waiting)
  /\ Cardinality(reading) <= ProbeLimit
  /\ waiting # {} => Cardinality(reading) = ProbeLimit
ProbeNames ==
  /\ reading \cap waiting = {}
  /\ \A r \in Unanswered : r.name \in 1 .. probes
  /\ \A r \in Unanswered, other \in Unanswered : r.name = other.name => r = other
  /\ \A r \in waiting : r.value = "unknown"
ProbeValues ==
  /\ \A c \in PageChats : probed[c].updated <= told[c] /\ probed[c].name <= probes
  /\ \A c \in PageChats \ probeKnown : probed[c] = NoProbe
  /\ \A r \in Unanswered :
       r.value = "no" /\ r.name = probed[r.chat].name /\ talks[r.chat] =>
         probed[r.chat].updated # told[r.chat]
ProbeShown ==
  \A c \in probeKnown :
    probed[c].value = "no" /\ talks[c]
      => \/ probed[c].updated # told[c] \/ probed[c].name \in probeFailed
         \/ \E r \in Unanswered : r.chat = c /\ r.name = probed[c].name
ProbeAll == ProbeIInv /\ ProbeNames /\ ProbeValues /\ ProbeShown

LEMMA ProbeInitOK == ProbeInit => ProbeAll
<1> SUFFICES ASSUME ProbeInit PROVE ProbeAll
  OBVIOUS
<1>1. NoProbe \in EntryRecs /\ NoProbe.updated = 0 /\ NoProbe.name = 0 /\ NoProbe.value = "unknown"
  BY DEF NoProbe, EntryRecs
<1>2. IsFiniteSet({}) /\ Cardinality({}) = 0
  BY FS_EmptySet
<1>3. \A c \in PageChats : probed[c] = NoProbe /\ told[c] = 1
  BY DEF ProbeInit
<1>4. waiting = {} /\ reading = {} /\ probes = 0 /\ probeFailed = {} /\ probeKnown = PageChats
  BY DEF ProbeInit
<1>5. ProbeIInv
  BY <1>1, <1>2, <1>4, PageAssumption DEF ProbeInit, ProbeIInv
<1> QED BY <1>1, <1>3, <1>4, <1>5 DEF ProbeAll, ProbeNames, ProbeValues, ProbeShown, Unanswered

\* The oldest of the reads that wait.
LEMMA OldestWaits ==
  ASSUME ProbeIInv, ProbeNames, waiting # {}
  PROVE  \E first \in waiting :
           {r \in waiting : Cardinality({q \in waiting : q.name < r.name}) < 1} = {first}
<1> DEFINE names == {r.name : r \in waiting}
<1>1. names \in SUBSET Nat /\ names # {}
  BY DEF ProbeIInv, ProbeRecs
<1>2. PICK n \in names : \A m \in names : n <= m
  <2> HIDE DEF names
  <2>1. PICK n \in names : \A m \in names : ~ (<<m, n>> \in OpToRel(<, Nat))
    BY <1>1, NatLessThanWellFounded, WFMin
  <2>2. \A m \in names : m \in Nat /\ n \in Nat /\ ~(m < n)
    BY <1>1, <2>1 DEF OpToRel
  <2> QED BY <2>2
<1>3. PICK first \in waiting : first.name = n
  BY <1>2
<1>4. \A r \in waiting : first.name <= r.name /\ first.name \in Nat /\ r.name \in Nat
  BY <1>1, <1>2, <1>3
<1>5. \A r \in waiting : IsFiniteSet({q \in waiting : q.name < r.name})
  BY FS_Subset DEF ProbeIInv
<1>6. {q \in waiting : q.name < first.name} = {} /\ Cardinality({}) = 0
  BY <1>4, FS_EmptySet
<1>7. ASSUME NEW r \in waiting, r # first
      PROVE  ~(Cardinality({q \in waiting : q.name < r.name}) < 1)
  <2> DEFINE lower == {q \in waiting : q.name < r.name}
  <2>1. first.name # r.name
    BY <1>3, <1>7 DEF ProbeNames, Unanswered
  <2>2. first \in lower
    BY <1>4, <2>1
  <2>3. IsFiniteSet(lower)
    BY <1>5
  <2> HIDE DEF lower
  <2>4. Cardinality(lower) \in Nat /\ Cardinality(lower) # 0
    BY <2>2, <2>3, FS_CardinalityType, FS_EmptySet
  <2>5. ~(Cardinality(lower) < 1)
    BY <2>4
  <2> QED BY <2>5 DEF lower
<1>8. Cardinality({q \in waiting : q.name < first.name}) < 1
  BY <1>6
<1> QED BY <1>7, <1>8

\* A new entry has its read: it waits only when there is no room.
LEMMA RenderPumps ==
  ASSUME ProbeIInv, ProbeNames, NEW new \in ProbeRecs, new.name = probes + 1,
         Pumped(waiting \cup {new}, reading)
  PROVE  /\ reading' \cup waiting' = Unanswered \cup {new} /\ reading' \cap waiting' = {}
         /\ IsFiniteSet(reading') /\ IsFiniteSet(waiting')
         /\ Cardinality(reading') <= ProbeLimit
         /\ waiting' # {} => Cardinality(reading') = ProbeLimit
         /\ waiting' \subseteq waiting \cup {new}
<1> DEFINE queue == waiting \cup {new}
           room == ProbeLimit - Cardinality(reading)
           first == {r \in queue : Cardinality({q \in queue : q.name < r.name}) < room}
<1>1. waiting' = queue \ first /\ reading' = reading \cup first
  BY DEF Pumped
<1>2. Cardinality(reading) \in Nat /\ ProbeLimit \in Nat /\ new \notin Unanswered /\ probes \in Nat
  BY FS_CardinalityType, PageAssumption DEF ProbeIInv, ProbeNames
<1>3. IsFiniteSet(queue)
  BY FS_AddElement DEF ProbeIInv
<1>4. CASE waiting # {} \/ room = 0
  <2>1. room = 0
    BY <1>2, <1>4 DEF ProbeIInv
  <2>2. ASSUME NEW r \in queue PROVE ~(Cardinality({q \in queue : q.name < r.name}) < room)
    <3> DEFINE lower == {q \in queue : q.name < r.name}
    <3>1. IsFiniteSet(lower)
      BY <1>3, FS_Subset
    <3> HIDE DEF lower
    <3>2. Cardinality(lower) \in Nat
      BY <3>1, FS_CardinalityType
    <3>3. ~(Cardinality(lower) < room)
      BY <2>1, <3>2
    <3> QED BY <3>3 DEF lower
  <2>3. first = {}
    BY <2>2
  <2> HIDE DEF first
  <2> QED BY <1>1, <1>2, <1>3, <2>1, <2>3 DEF Unanswered, ProbeIInv, ProbeNames
<1>5. CASE waiting = {} /\ room # 0
  <2>1. room > 0
    BY <1>2, <1>5 DEF ProbeIInv
  <2>2. queue = {new} /\ {q \in queue : q.name < new.name} = {}
    BY <1>2, <1>5
  <2>3. first = {new}
    BY <2>1, <2>2, FS_EmptySet
  <2>4. IsFiniteSet(reading \cup {new}) /\ Cardinality(reading \cup {new}) = Cardinality(reading) + 1
    BY <1>2, FS_AddElement DEF ProbeIInv, Unanswered
  <2> HIDE DEF first
  <2> QED BY <1>1, <1>2, <1>5, <2>1, <2>2, <2>3, <2>4, FS_EmptySet DEF Unanswered, ProbeIInv
<1> QED BY <1>4, <1>5

\* A read that is over makes room for the oldest one that waits.
LEMMA EndPumps ==
  ASSUME ProbeIInv, ProbeNames, NEW r \in reading, Pumped(waiting, reading \ {r})
  PROVE  /\ reading' \cup waiting' = Unanswered \ {r} /\ reading' \cap waiting' = {}
         /\ IsFiniteSet(reading') /\ IsFiniteSet(waiting')
         /\ Cardinality(reading') <= ProbeLimit
         /\ waiting' # {} => Cardinality(reading') = ProbeLimit
         /\ waiting' \subseteq waiting
<1> DEFINE under == reading \ {r}
           room == ProbeLimit - Cardinality(under)
           first == {x \in waiting : Cardinality({q \in waiting : q.name < x.name}) < room}
<1>1. waiting' = waiting \ first /\ reading' = under \cup first
  BY DEF Pumped
<1>2. Cardinality(reading) \in Nat /\ ProbeLimit \in Nat /\ r \notin waiting
  BY FS_CardinalityType, PageAssumption DEF ProbeIInv, ProbeNames
<1>3. IsFiniteSet(under) /\ Cardinality(under) = Cardinality(reading) - 1
  BY FS_RemoveElement DEF ProbeIInv
<1> HIDE DEF under
<1>4. CASE waiting = {}
  <2>1. first = {}
    BY <1>4
  <2> HIDE DEF first
  <2> QED BY <1>1, <1>2, <1>3, <1>4, <2>1, FS_EmptySet DEF Unanswered, ProbeIInv, under
<1>5. CASE waiting # {}
  <2>1. room = 1
    BY <1>2, <1>3, <1>5 DEF ProbeIInv
  <2>2. PICK x \in waiting :
          {y \in waiting : Cardinality({q \in waiting : q.name < y.name}) < 1} = {x}
    BY <1>5, OldestWaits
  <2>3. first = {x}
    BY <2>1, <2>2
  <2> HIDE DEF first
  <2>4. x \notin under
    BY <2>2 DEF ProbeNames, under
  <2>5. IsFiniteSet(under \cup {x}) /\ Cardinality(under \cup {x}) = Cardinality(under) + 1
    BY <1>3, <2>4, FS_AddElement
  <2>6. IsFiniteSet(waiting \ {x})
    BY FS_RemoveElement DEF ProbeIInv
  <2> QED BY <1>1, <1>2, <1>3, <1>5, <2>3, <2>2, <2>4, <2>5, <2>6
          DEF Unanswered, ProbeIInv, ProbeNames, under
<1> QED BY <1>4, <1>5

LEMMA RendersOK == ASSUME ProbeAll, NEW c \in PageChats, Renders(c) PROVE ProbeAll'
<1> USE DEF ProbeAll
<1> DEFINE new == Read(c, probes + 1)
<1>1. /\ c \in probeKnown /\ probed[c].updated # told[c] /\ probes' = probes + 1
      /\ probed' = [probed EXCEPT ![c] = [updated |-> told[c], name |-> probes + 1, value |-> @.value]]
      /\ UNCHANGED <<probeKnown, told, talks, probeFailed>>
  BY DEF Renders
<1>2. new \in ProbeRecs /\ new.name = probes + 1 /\ new.value = "unknown" /\ new.chat = c
  BY DEF ProbeRecs, Read, ProbeIInv
<1>3. Pumped(waiting \cup {new}, reading)
  BY DEF Renders
<1> HIDE DEF new
<1>4. /\ reading' \cup waiting' = Unanswered \cup {new} /\ reading' \cap waiting' = {}
      /\ IsFiniteSet(reading') /\ IsFiniteSet(waiting')
      /\ Cardinality(reading') <= ProbeLimit
      /\ waiting' # {} => Cardinality(reading') = ProbeLimit
      /\ waiting' \subseteq waiting \cup {new}
  BY <1>2, <1>3, RenderPumps
<1>5. /\ probed' \in [PageChats -> EntryRecs]
      /\ probed'[c].updated = told[c] /\ probed'[c].name = probes + 1
      /\ \A d \in PageChats : d # c => probed'[d] = probed[d]
  BY <1>1 DEF ProbeIInv, EntryRecs
<1>6. Unanswered' = Unanswered \cup {new}
  BY <1>4 DEF Unanswered
<1>7. ProbeIInv'
  BY <1>1, <1>2, <1>4, <1>5, <1>6 DEF ProbeIInv, Unanswered
<1>8. ProbeNames'
  <2>1. \A r \in Unanswered : r.name \in 1 .. probes
    BY DEF ProbeNames
  <2>2. probes \in Nat
    BY DEF ProbeIInv
  <2>3. \A r \in Unanswered' : r.name \in 1 .. probes'
    BY <1>1, <1>2, <1>6, <2>1, <2>2
  <2>4. \A r \in Unanswered', other \in Unanswered' : r.name = other.name => r = other
    BY <1>2, <1>6, <2>1, <2>2 DEF ProbeNames
  <2> QED BY <1>2, <1>4, <2>3, <2>4 DEF ProbeNames
<1>9. ProbeValues'
  <2>1. \A d \in PageChats : probed'[d].updated <= told'[d] /\ probed'[d].name <= probes'
    BY <1>1, <1>5 DEF ProbeValues, ProbeIInv, EntryRecs
  <2>2. ASSUME NEW r \in Unanswered', r.value = "no", r.name = probed'[r.chat].name, talks'[r.chat]
        PROVE  probed'[r.chat].updated # told'[r.chat]
    <3>1. r \in Unanswered /\ r.chat \in PageChats /\ r.name \in 1 .. probes
      BY <1>2, <1>6, <2>2 DEF ProbeNames, ProbeIInv, ProbeRecs, Unanswered
    <3>2. r.chat # c
      BY <1>5, <2>2, <3>1 DEF ProbeIInv
    <3> QED BY <1>1, <1>5, <2>2, <3>1, <3>2 DEF ProbeValues
  <2> QED BY <1>1, <1>5, <2>1, <2>2 DEF ProbeValues
<1>10. ProbeShown'
  <2> SUFFICES ASSUME NEW d \in probeKnown', probed'[d].value = "no", talks'[d]
               PROVE  \/ probed'[d].updated # told'[d] \/ probed'[d].name \in probeFailed'
                      \/ \E r \in Unanswered' : r.chat = d /\ r.name = probed'[d].name
    BY DEF ProbeShown
  <2>1. CASE d = c
    BY <1>2, <1>5, <1>6, <2>1
  <2>2. CASE d # c
    BY <1>1, <1>5, <1>6, <2>2 DEF ProbeShown, ProbeIInv
  <2> QED BY <2>1, <2>2
<1> QED BY <1>7, <1>8, <1>9, <1>10

LEMMA ProbeReadsOK == ASSUME ProbeAll, NEW r \in reading, ProbeReads(r) PROVE ProbeAll'
<1> USE DEF ProbeAll
<1> DEFINE new == [r EXCEPT !.value = IF talks[r.chat] THEN "yes" ELSE "no"]
<1>1. /\ reading' = (reading \ {r}) \cup {new} /\ r.value = "unknown"
      /\ UNCHANGED <<probeKnown, told, talks, probed, waiting, probeFailed, probes>>
  BY DEF ProbeReads
<1>2. /\ new \in ProbeRecs /\ new.name = r.name /\ new.chat = r.chat
      /\ new.value = "no" => ~talks[r.chat]
  BY DEF ProbeIInv, ProbeRecs
<1>3. new.value # "unknown"
  BY DEF ProbeIInv, ProbeRecs
<1> HIDE DEF new
<1>4. new \notin reading \cup waiting
  BY <1>1, <1>2, <1>3 DEF ProbeNames, Unanswered
<1>5. IsFiniteSet(reading') /\ Cardinality(reading') = Cardinality(reading)
  <2>1. IsFiniteSet(reading \ {r}) /\ Cardinality(reading \ {r}) = Cardinality(reading) - 1
    BY FS_RemoveElement DEF ProbeIInv
  <2>2. Cardinality(reading') = Cardinality(reading \ {r}) + 1 /\ IsFiniteSet(reading')
    BY <1>1, <1>4, <2>1, FS_AddElement
  <2>3. Cardinality(reading) \in Nat
    BY FS_CardinalityType DEF ProbeIInv
  <2> QED BY <2>1, <2>2, <2>3
<1>6. Unanswered' = (Unanswered \ {r}) \cup {new}
  BY <1>1 DEF Unanswered, ProbeNames
<1>7. ProbeIInv'
  BY <1>1, <1>2, <1>5 DEF ProbeIInv
<1>8. ProbeNames'
  BY <1>1, <1>2, <1>4, <1>6 DEF ProbeNames, Unanswered
<1>9. ProbeValues'
  BY <1>1, <1>2, <1>6 DEF ProbeValues
<1>10. ProbeShown'
  BY <1>1, <1>2, <1>6 DEF ProbeShown
<1> QED BY <1>7, <1>8, <1>9, <1>10

LEMMA ProbeEndsOK ==
  ASSUME ProbeAll, NEW r \in reading, ProbeAnswers(r) \/ ProbeFails(r) PROVE ProbeAll'
<1> USE DEF ProbeAll
<1>1. /\ Pumped(waiting, reading \ {r}) /\ UNCHANGED <<probeKnown, told, talks, probes>>
      /\ r \in ProbeRecs /\ r \in Unanswered
  BY DEF ProbeAnswers, ProbeFails, ProbeIInv, Unanswered
<1>2. /\ reading' \cup waiting' = Unanswered \ {r} /\ reading' \cap waiting' = {}
      /\ IsFiniteSet(reading') /\ IsFiniteSet(waiting')
      /\ Cardinality(reading') <= ProbeLimit
      /\ waiting' # {} => Cardinality(reading') = ProbeLimit
      /\ waiting' \subseteq waiting
  BY <1>1, EndPumps
<1>3. Unanswered' = Unanswered \ {r}
  BY <1>2 DEF Unanswered
<1>4. /\ probeFailed' \subseteq Nat /\ probeFailed \subseteq probeFailed'
      /\ probed' \in [PageChats -> EntryRecs]
      /\ \A d \in PageChats : /\ probed'[d].name = probed[d].name
                              /\ probed'[d].updated = probed[d].updated
                              /\ probed'[d] # probed[d] => d \in probeKnown
  <2>1. CASE ProbeFails(r)
    BY <1>1, <2>1 DEF ProbeFails, ProbeIInv, ProbeRecs
  <2>2. CASE ProbeAnswers(r)
    <3>1. r.value \in {"unknown", "yes", "no"} /\ r.chat \in PageChats
      BY <1>1 DEF ProbeRecs
    <3>2. probeFailed' = probeFailed
          /\ probed' = IF EntryOf(r) THEN [probed EXCEPT ![r.chat].value = r.value] ELSE probed
      BY <2>2 DEF ProbeAnswers
    <3>3. CASE EntryOf(r)
      BY <3>1, <3>2, <3>3 DEF ProbeIInv, EntryRecs, EntryOf
    <3>4. CASE ~EntryOf(r)
      BY <3>2, <3>4 DEF ProbeIInv
    <3> QED BY <3>3, <3>4
  <2> QED BY <2>1, <2>2
<1>5. ProbeIInv'
  BY <1>1, <1>2, <1>3, <1>4 DEF ProbeIInv, Unanswered
<1>6. ProbeNames'
  BY <1>1, <1>2, <1>3 DEF ProbeNames
<1>7. ProbeValues'
  <2>1. \A d \in PageChats \ probeKnown' : probed'[d] = NoProbe
    BY <1>1, <1>4 DEF ProbeValues
  <2>2. ASSUME NEW x \in Unanswered', x.value = "no", x.name = probed'[x.chat].name, talks'[x.chat]
        PROVE  probed'[x.chat].updated # told'[x.chat]
    <3>1. x \in Unanswered /\ x.chat \in PageChats
      BY <1>3 DEF ProbeIInv, ProbeRecs, Unanswered
    <3> QED BY <1>1, <1>4, <2>2, <3>1 DEF ProbeValues
  <2> QED BY <1>1, <1>4, <2>1, <2>2 DEF ProbeValues
<1>8. ProbeShown'
  <2> SUFFICES ASSUME NEW d \in probeKnown, probed'[d].value = "no", talks[d],
                      probed[d].updated = told[d], probed[d].name \notin probeFailed'
               PROVE  \E x \in Unanswered' : x.chat = d /\ x.name = probed[d].name
    BY <1>1, <1>4 DEF ProbeShown, ProbeIInv
  <2>1. CASE probed[d].value = "no"
    <3>1. PICK x \in Unanswered : x.chat = d /\ x.name = probed[d].name
      BY <1>4, <2>1 DEF ProbeShown
    <3>2. CASE x # r
      BY <1>3, <3>1, <3>2
    <3>3. CASE x = r
      <4>1. CASE ProbeFails(r)
        BY <3>1, <3>3, <4>1 DEF ProbeFails
      <4>2. CASE ProbeAnswers(r)
        <5>1. EntryOf(r)
          BY <3>1, <3>3 DEF EntryOf
        <5>2. probed'[d].value = r.value
          BY <4>2, <5>1, <3>1, <3>3 DEF ProbeAnswers, ProbeIInv, EntryRecs
        <5> QED BY <1>1, <3>1, <3>3, <5>2 DEF ProbeValues
      <4> QED BY <4>1, <4>2
    <3> QED BY <3>2, <3>3
  <2>2. CASE probed[d].value # "no"
    <3>1. ProbeAnswers(r) /\ EntryOf(r) /\ r.chat = d /\ r.value = "no"
      <4>1. CASE ProbeFails(r)
        BY <2>2, <4>1 DEF ProbeFails
      <4>2. CASE ProbeAnswers(r)
        BY <2>2, <4>2, <1>1 DEF ProbeAnswers, ProbeIInv, EntryRecs, ProbeRecs
      <4> QED BY <4>1, <4>2
    <3> QED BY <1>1, <3>1 DEF ProbeValues, EntryOf
  <2> QED BY <2>1, <2>2
<1> QED BY <1>5, <1>6, <1>7, <1>8

LEMMA ChatChangesOK ==
  ASSUME ProbeAll, NEW c \in PageChats, FirstWords(c) \/ Forgets(c) \/ ListedAgain(c)
  PROVE  ProbeAll'
<1> USE DEF ProbeAll
<1>1. CASE FirstWords(c)
  <2>1. /\ ~talks[c] /\ talks' = [talks EXCEPT ![c] = TRUE] /\ told' = [told EXCEPT ![c] = @ + 1]
        /\ UNCHANGED <<probeKnown, probed, waiting, reading, probeFailed, probes>>
    BY <1>1 DEF FirstWords
  <2>2. /\ talks' \in [PageChats -> BOOLEAN] /\ told' \in [PageChats -> Nat]
        /\ told'[c] = told[c] + 1
        /\ \A d \in PageChats : d # c => talks'[d] = talks[d] /\ told'[d] = told[d]
    BY <2>1 DEF ProbeIInv
  <2>3. probed[c].updated # told'[c] /\ probed[c].updated \in Nat /\ told[c] \in Nat
    BY <2>2 DEF ProbeValues, ProbeIInv, EntryRecs
  <2>4. Unanswered' = Unanswered /\ \A r \in Unanswered : r.chat \in PageChats
    BY <2>1 DEF Unanswered, ProbeIInv, ProbeRecs
  <2>5. ProbeIInv' /\ ProbeNames'
    BY <2>1, <2>2, <2>4 DEF ProbeIInv, ProbeNames
  <2>6. ProbeValues'
    BY <2>1, <2>2, <2>3, <2>4 DEF ProbeValues
  <2>7. ProbeShown'
    BY <2>1, <2>2, <2>3, <2>4 DEF ProbeShown, ProbeIInv
  <2> QED BY <2>5, <2>6, <2>7
<1>2. CASE Forgets(c)
  <2>1. /\ c \in probeKnown /\ probeKnown' = probeKnown \ {c}
        /\ probed' = [probed EXCEPT ![c] = NoProbe] /\ waiting' = {r \in waiting : r.chat # c}
        /\ UNCHANGED <<told, talks, reading, probeFailed, probes>>
    BY <1>2 DEF Forgets
  <2>2. NoProbe \in EntryRecs /\ NoProbe.updated = 0 /\ NoProbe.name = 0
    BY DEF NoProbe, EntryRecs
  <2>3. /\ probed' \in [PageChats -> EntryRecs] /\ probed'[c] = NoProbe
        /\ \A d \in PageChats : d # c => probed'[d] = probed[d]
    BY <2>1, <2>2 DEF ProbeIInv
  <2>4. IsFiniteSet(waiting')
    BY <2>1, FS_Subset DEF ProbeIInv
  <2>5. Unanswered' \subseteq Unanswered
        /\ \A r \in Unanswered : r.chat \in PageChats /\ (r.chat # c => r \in Unanswered')
    BY <2>1 DEF Unanswered, ProbeIInv, ProbeRecs
  <2>6. ProbeIInv'
    BY <2>1, <2>3, <2>4 DEF ProbeIInv
  <2>7. ProbeNames'
    BY <2>1, <2>5 DEF ProbeNames
  <2>8. ProbeValues'
    <3>1. told[c] \in Nat /\ probes \in Nat
      BY DEF ProbeIInv
    <3>2. \A r \in Unanswered' : r.name # 0 /\ r.chat \in PageChats
      BY <2>5 DEF ProbeNames
    <3> QED BY <2>1, <2>2, <2>3, <2>5, <3>1, <3>2 DEF ProbeValues
  <2>9. ProbeShown'
    BY <2>1, <2>3, <2>5 DEF ProbeShown, ProbeIInv
  <2> QED BY <2>6, <2>7, <2>8, <2>9
<1>3. CASE ListedAgain(c)
  <2>1. /\ c \notin probeKnown /\ probeKnown' = probeKnown \cup {c}
        /\ UNCHANGED <<told, talks, probed, waiting, reading, probeFailed, probes>>
    BY <1>3 DEF ListedAgain
  <2>2. Unanswered' = Unanswered /\ probed[c].value # "no"
    BY <2>1 DEF Unanswered, ProbeValues, NoProbe
  <2> QED BY <2>1, <2>2 DEF ProbeIInv, ProbeNames, ProbeValues, ProbeShown
<1> QED BY <1>1, <1>2, <1>3

LEMMA ProbeStepOK == ProbeAll /\ [ProbeNext]_probeVars => ProbeAll'
<1>1. ProbeAll /\ UNCHANGED probeVars => ProbeAll'
  BY DEF ProbeAll, probeVars, ProbeIInv, ProbeNames, ProbeValues, ProbeShown, Unanswered
<1> QED BY <1>1, RendersOK, ProbeReadsOK, ProbeEndsOK, ChatChangesOK DEF ProbeNext

\* At most so many chats are read at once, and no read that began before the
\* first words of a chat hides it, for every number of chats and reads
\* (queueHistoryProbe, mirrorHasConversation).
THEOREM ProbesAreSound == ProbeSpec => []ProbesSound
<1>1. ProbeAll => ProbesSound
  BY DEF ProbeAll, ProbeIInv, ProbeShown, ProbesSound, Unanswered
<1> QED BY <1>1, ProbeInitOK, ProbeStepOK, PTL DEF ProbeSpec

-----------------------------------------------------------------------------
(* The activities under the list.  Each has a place of its own, and all are *)
(* of the chat that is open.                                                *)

ItemRecs == [kind : {"tool", "text", "run"}, chat : WriteChats, kid : BOOLEAN]
ActivityRecs == [item : ItemRecs, status : {"running", "completed"}]
\* What an event may make of the list of the chat c, with the item the current one.
ListSound(acts, c, inHand) ==
  /\ acts \in Seq(ActivityRecs)
  /\ \A i \in 1 .. Len(acts) : acts[i].item.chat = c
  /\ \A i, j \in 1 .. Len(acts) : acts[i].item = acts[j].item => i = j
  /\ acts # <<>> => \E i \in 1 .. Len(acts) : acts[i].item = inHand

TraceIInv ==
  /\ ListSound(items, traceChat, currentItem)
  /\ traceChat \in WriteChats \cup {NoPageChat}
  /\ \A r \in hydrating : r.chat \in WriteChats
  /\ drawn \in BOOLEAN /\ drawFrame \in BOOLEAN /\ drawLater \in BOOLEAN
  /\ drawn \/ drawFrame \/ drawLater

LEMMA TraceInitOK == TraceInit => TraceIInv
<1> SUFFICES ASSUME TraceInit PROVE TraceIInv
  OBVIOUS
<1>1. items = <<>> /\ hydrating = {} /\ traceChat = NoPageChat
  BY DEF TraceInit
<1>2. items \in Seq(ActivityRecs) /\ Len(items) = 0
  BY <1>1, EmptySeq
<1>3. ListSound(items, traceChat, currentItem)
  BY <1>1, <1>2 DEF ListSound
<1>4. drawn = TRUE /\ drawFrame = FALSE /\ drawLater = FALSE
  BY DEF TraceInit
<1> QED BY <1>1, <1>3, <1>4 DEF TraceIInv

LEMMA ItemIsOne ==
  ASSUME NEW kind \in {"tool", "text", "run"}, NEW c \in WriteChats, NEW kid \in BOOLEAN
  PROVE  ItemOf(kind, c, kid) \in ItemRecs /\ ItemOf(kind, c, kid).chat = c
<1>1. \A d \in BOOLEAN : LET l == [kind |-> kind, chat |-> c, kid |-> d]
                         IN  l \in ItemRecs /\ l.chat = c
  BY DEF ItemRecs
<1> DEFINE d == kid /\ kind # "run"
<1>2. d \in BOOLEAN
  OBVIOUS
<1>3. ItemOf(kind, c, kid) = [kind |-> kind, chat |-> c, kid |-> d]
  BY Zenon DEF ItemOf
<1> HIDE DEF d
<1> QED BY <1>1, <1>2, <1>3, Zenon

LEMMA StatusIsOne ==
  ASSUME TraceIInv, NEW kind, NEW step, NEW item
  PROVE  StatusAfter(kind, step, item) \in {"running", "completed"}
<1> DEFINE acts == {items[i] : i \in DOMAIN items}
           one  == CHOOSE a \in acts : a.item = item
<1>1. items \in Seq(ActivityRecs)
  BY DEF TraceIInv, ListSound
<1>2. \A a \in acts : a \in ActivityRecs
  BY <1>1, LenProperties, ElementOfSeq
<1>3. ASSUME item \in Items(items) PROVE one.status \in {"running", "completed"}
  <2>1. \E a \in acts : a.item = item
    BY <1>3 DEF Items
  <2>2. one \in acts
    BY <2>1
  <2> QED BY <1>2, <2>2 DEF ActivityRecs
<1> QED BY <1>3 DEF StatusAfter

\* A later activity takes the place of the one of its item.
LEMMA ReplaceSound ==
  ASSUME NEW acts, NEW c, NEW inHand, ListSound(acts, c, inHand),
         NEW next \in ActivityRecs, next.item \in Items(acts)
  PROVE  ListSound([i \in DOMAIN acts |-> IF acts[i].item = next.item THEN next ELSE acts[i]],
                   c, next.item)
<1> DEFINE put == [i \in 1 .. Len(acts) |-> IF acts[i].item = next.item THEN next ELSE acts[i]]
<1>1. acts \in Seq(ActivityRecs) /\ Len(acts) \in Nat /\ DOMAIN acts = 1 .. Len(acts)
  BY LenProperties DEF ListSound
<1>2. \A i \in 1 .. Len(acts) : acts[i] \in ActivityRecs
  BY <1>1, ElementOfSeq
<1>3. \A i \in 1 .. Len(acts) : put[i] \in ActivityRecs /\ put[i].item = acts[i].item
  BY <1>2
<1>4. put \in [1 .. Len(acts) -> ActivityRecs]
  BY <1>3
<1>5. put \in Seq(ActivityRecs)
  BY <1>1, <1>4, SeqDef
<1>6. Len(put) = Len(acts)
  BY <1>1, <1>4, <1>5, LenProperties
<1>7. PICK k \in 1 .. Len(acts) : acts[k].item = next.item
  BY <1>1 DEF Items
<1>8. put[k].item = next.item
  BY <1>3, <1>7
<1> HIDE DEF put
<1>9. ListSound(put, c, next.item)
  BY <1>3, <1>5, <1>6, <1>7, <1>8 DEF ListSound
<1> QED BY <1>1, <1>9 DEF put

\* An activity of a new item comes last; the oldest may go.
LEMMA AppendSound ==
  ASSUME NEW acts, NEW c, NEW inHand, ListSound(acts, c, inHand),
         NEW next \in ActivityRecs, next.item \notin Items(acts), next.item.chat = c
  PROVE  ListSound(LastOf(Append(acts, next)), c, next.item)
<1> DEFINE more == Append(acts, next)
<1>1. acts \in Seq(ActivityRecs) /\ Len(acts) \in Nat /\ DOMAIN acts = 1 .. Len(acts)
  BY LenProperties DEF ListSound
<1>2. /\ more \in Seq(ActivityRecs) /\ more # <<>> /\ Len(more) = Len(acts) + 1
      /\ \A i \in 1 .. Len(acts) : more[i] = acts[i]
      /\ more[Len(acts) + 1] = next
  <2> HIDE DEF ActivityRecs
  <2> QED BY <1>1, AppendProperties
<1>3. \A i \in 1 .. Len(acts) : acts[i].item # next.item
  BY <1>1 DEF Items
<1> HIDE DEF more
<1>4. \A i \in 1 .. Len(more) : i \in 1 .. Len(acts) \/ i = Len(acts) + 1
  BY <1>1, <1>2
<1>5. \A i \in 1 .. Len(more) : more[i].item.chat = c
  BY <1>2, <1>4 DEF ListSound
<1>6. \A i, j \in 1 .. Len(more) : more[i].item = more[j].item => i = j
  BY <1>2, <1>3, <1>4 DEF ListSound
<1>7. ListSound(more, c, next.item)
  BY <1>1, <1>2, <1>5, <1>6 DEF ListSound
<1>8. /\ Tail(more) \in Seq(ActivityRecs) /\ Len(Tail(more)) = Len(acts)
      /\ \A i \in 1 .. Len(acts) : Tail(more)[i] = more[i + 1]
  <2> HIDE DEF ActivityRecs
  <2> QED BY <1>1, <1>2, HeadTailProperties
<1>9. \A i \in 1 .. Len(acts) : i + 1 \in 1 .. Len(more)
  BY <1>1, <1>2
<1>10. \A i, j \in 1 .. Len(acts) : i + 1 = j + 1 => i = j
  BY <1>1
<1>11. ASSUME Tail(more) # <<>>
       PROVE  \E i \in 1 .. Len(acts) : Tail(more)[i].item = next.item
  <2>1. Len(acts) \in 1 .. Len(acts)
    <3>1. Len(acts) # 0
      <4> HIDE DEF ActivityRecs
      <4> QED BY <1>8, <1>11, EmptySeq
    <3> QED BY <1>1, <3>1
  <2> QED BY <1>2, <1>8, <2>1
<1>12. ListSound(Tail(more), c, next.item)
  BY <1>5, <1>6, <1>8, <1>9, <1>10, <1>11 DEF ListSound
<1> QED BY <1>7, <1>12 DEF LastOf, more

LEMMA OneIsSound ==
  ASSUME NEW next \in ActivityRecs
  PROVE  ListSound(<<next>>, next.item.chat, next.item)
<1>1. <<next>> \in Seq(ActivityRecs) /\ Len(<<next>>) = 1 /\ <<next>>[1] = next
  OBVIOUS
<1> QED BY <1>1 DEF ListSound

LEMMA NoneIsSound == ASSUME NEW c, NEW inHand PROVE ListSound(<<>>, c, inHand)
<1>1. <<>> \in Seq(ActivityRecs) /\ Len(<<>>) = 0
  BY EmptySeq
<1> QED BY <1>1 DEF ListSound

LEMMA TraceEventOK ==
  ASSUME TraceIInv, NEW e \in TraceEvents, NEW from, NEW c \in WriteChats,
         TraceEvent(e[1], e[2], from, c)
  PROVE  TraceIInv'
<1> DEFINE kid  == from # "chat"
           item == ItemOf(e[1], c, kid)
           next == Activity(item, StatusAfter(e[1], e[2], item))
<1>1. e[1] \in {"tool", "text", "run"} /\ kid \in BOOLEAN
  <2>1. e[1] \in {"tool", "text", "run"}
    <3>1. \A a \in TraceEvents :
            \/ a = <<"tool", "begins">> \/ a = <<"tool", "goes on">> \/ a = <<"tool", "ends">>
            \/ a = <<"text", "goes on">> \/ a = <<"text", "ends">>
            \/ a = <<"run", "begins">> \/ a = <<"run", "ends">>
      BY Zenon DEF TraceEvents
    <3>2. <<"tool", "begins">>[1] = "tool" /\ <<"tool", "goes on">>[1] = "tool"
          /\ <<"tool", "ends">>[1] = "tool" /\ <<"text", "goes on">>[1] = "text"
          /\ <<"text", "ends">>[1] = "text" /\ <<"run", "begins">>[1] = "run"
          /\ <<"run", "ends">>[1] = "run"
      OBVIOUS
    <3> QED BY <3>1, <3>2, Zenon
  <2>2. kid \in BOOLEAN
    OBVIOUS
  <2> QED BY <2>1, <2>2
<1>2. item \in ItemRecs /\ item.chat = c
  <2> HIDE DEF kid
  <2> QED BY <1>1, ItemIsOne
<1>3. StatusAfter(e[1], e[2], item) \in {"running", "completed"}
  <2> HIDE DEF item
  <2> QED BY StatusIsOne
<1>4. traceChat = c
  BY DEF TraceEvent, Belongs
<1>5. items' = (IF item \in Items(items)
                THEN [i \in DOMAIN items |-> IF items[i].item = item THEN next ELSE items[i]]
                ELSE LastOf(Append(items, next)))
      /\ currentItem' = item
  BY Zenon DEF TraceEvent
<1>6. next \in ActivityRecs /\ next.item = item
  <2> HIDE DEF item
  <2> QED BY <1>2, <1>3 DEF Activity, ActivityRecs
<1>7. ListSound(items', c, currentItem')
  <2> HIDE DEF item, next
  <2>1. ListSound(items, c, currentItem)
    BY <1>4 DEF TraceIInv
  <2>2. CASE item \in Items(items)
    BY <1>5, <1>6, <2>1, <2>2, ReplaceSound
  <2>3. CASE item \notin Items(items)
    BY <1>2, <1>5, <1>6, <2>1, <2>3, AppendSound
  <2> QED BY <2>2, <2>3
<1>8. traceChat' = traceChat /\ hydrating' = hydrating /\ drawn' = FALSE
  BY DEF TraceEvent
<1>9. (drawLater' = TRUE /\ drawFrame' = drawFrame) \/ (drawFrame' = TRUE /\ drawLater' = drawLater)
  BY DEF TraceEvent
<1> HIDE DEF item, next, kid
<1> QED BY <1>4, <1>7, <1>8, <1>9 DEF TraceIInv

LEMMA TraceStepOK == ASSUME TraceIInv, [TraceNext]_traceVars PROVE TraceIInv'
<1>1. CASE UNCHANGED traceVars
  BY <1>1 DEF traceVars, TraceIInv
<1>2. CASE DrawLater
  BY <1>2 DEF TraceIInv, DrawLater
<1>3. CASE DrawFrame
  BY <1>3 DEF TraceIInv, DrawFrame
<1>4. CASE TraceRefreshes
  <2>1. traceChat \in WriteChats
    BY <1>4 DEF TraceIInv, TraceRefreshes
  <2>2. \A r \in hydrating' : r \in hydrating \/ r = [chat |-> traceChat, visit |-> visit]
    BY <1>4 DEF TraceRefreshes
  <2> QED BY <1>4, <2>1, <2>2 DEF TraceIInv, TraceRefreshes
<1>5. ASSUME NEW e \in TraceEvents, NEW from, NEW c \in WriteChats,
             TraceEvent(e[1], e[2], from, c)
      PROVE  TraceIInv'
  BY <1>5, TraceEventOK
<1>6. ASSUME NEW c \in (WriteChats \cup {NoPageChat}) \ {traceChat}, TraceOpen(c)
      PROVE  TraceIInv'
  <2>1. items' = <<>> /\ hydrating' = hydrating /\ traceChat' = c /\ drawn' = TRUE
        /\ drawFrame' = drawFrame /\ drawLater' = drawLater
    BY <1>6 DEF TraceOpen
  <2> QED BY <2>1, NoneIsSound DEF TraceIInv
<1>7. ASSUME NEW r \in hydrating, HydrateFails(r) PROVE TraceIInv'
  BY <1>7 DEF TraceIInv, HydrateFails
<1>8. ASSUME NEW r \in hydrating, NEW status \in {"none", "running", "completed"},
             Hydrates(r, status)
      PROVE  TraceIInv'
  <2>1. /\ hydrating' \subseteq hydrating /\ traceChat' = traceChat
        /\ drawFrame' = drawFrame /\ drawLater' = drawLater
    BY <1>8 DEF Hydrates
  <2>2. CASE ForThisVisit(r) /\ items = <<>> /\ status # "none"
    <3> DEFINE latest == LatestCall(r.chat, status)
    <3>1. items' = <<latest>> /\ currentItem' = latest.item /\ drawn' = TRUE
      BY <1>8, <2>2 DEF Hydrates
    <3>2. r.chat = traceChat /\ r.chat \in WriteChats /\ status \in {"running", "completed"}
      BY <1>8, <2>2 DEF ForThisVisit, TraceIInv
    <3>3. ItemOf("tool", r.chat, FALSE) \in ItemRecs /\ ItemOf("tool", r.chat, FALSE).chat = r.chat
      BY <3>2, ItemIsOne
    <3>4. latest \in ActivityRecs /\ latest.item.chat = r.chat
      BY <3>2, <3>3 DEF LatestCall, Activity, ActivityRecs
    <3> HIDE DEF latest
    <3> QED BY <2>1, <3>1, <3>2, <3>4, OneIsSound DEF TraceIInv
  <2>3. CASE ~(ForThisVisit(r) /\ items = <<>> /\ status # "none")
    <3>1. items' = items /\ currentItem' = currentItem /\ drawn' = drawn
      BY <1>8, <2>3 DEF Hydrates
    <3> QED BY <2>1, <3>1 DEF TraceIInv
  <2> QED BY <2>2, <2>3
<1> QED BY <1>1, <1>2, <1>3, <1>4, <1>5, <1>6, <1>7, <1>8 DEF TraceNext

LEMMA TraceIsSound == TraceIInv => TraceIsOwn
<1> SUFFICES ASSUME TraceIInv PROVE TraceIsOwn
  OBVIOUS
<1>1. items \in Seq(ActivityRecs) /\ Len(items) \in Nat /\ DOMAIN items = 1 .. Len(items)
  BY LenProperties DEF TraceIInv, ListSound
<1> DEFINE f == [i \in 1 .. Len(items) |-> items[i].item]
<1>2. f \in Bijection(1 .. Len(items), Items(items))
  BY <1>1 DEF Items, TraceIInv, ListSound, Bijection, Injection, Surjection, IsInjective
<1>3. IsFiniteSet(1 .. Len(items)) /\ Cardinality(1 .. Len(items)) = Len(items)
  BY <1>1, FS_Interval
<1>4. Cardinality(Items(items)) = Len(items)
  <2> HIDE DEF f
  <2> QED BY <1>2, <1>3, FS_Bijection DEF ExistsBijection
<1>5. items # <<>> => currentItem \in Items(items)
  BY <1>1 DEF TraceIInv, ListSound, Items
<1>6. \A item \in Items(items) : item.chat = traceChat
  BY <1>1 DEF TraceIInv, ListSound, Items
<1> QED BY <1>4, <1>5, <1>6 DEF TraceIInv, TraceIsOwn

\* The activities on the page are the ones of the chat that is open, each once
\* (updateActivityFromEvent, refreshOrchestrationNow).
THEOREM TracesAreOwn == TraceSpec => []TraceIsOwn
<1>1. TraceInit => TraceIInv
  BY TraceInitOK
<1>2. TraceIInv /\ [TraceNext]_traceVars => TraceIInv'
  BY TraceStepOK
<1>3. TraceIInv => TraceIsOwn
  BY TraceIsSound
<1> QED BY <1>1, <1>2, <1>3, PTL DEF TraceSpec

-----------------------------------------------------------------------------
(* The draft of a chat is in the area, or behind the prompt the area shows, *)
(* or is kept while another chat is open.                                   *)

RecallChats == WriteChats \cup {NoPageChat}
RecallPrompts == DraftTexts \cup {Earlier, Older}
DraftValues == RecallPrompts \cup {NoDraft}
HistoryRecs == [chat : RecallChats, entries : Seq(RecallPrompts), cursor : Nat, draft : DraftValues,
                value : DraftValues]
\* The area shows a prompt of the history.
ShowsPrompt == recall.chat = recallChat /\ recallChat # NoPageChat /\ Recalling(recall)

RecallTypes ==
  /\ recallChat \in RecallChats /\ words \in [WriteChats -> Seq(RecallPrompts)]
  /\ recall \in HistoryRecs /\ recall.cursor <= Len(recall.entries) /\ input \in DraftValues
  /\ keptDrafts \in [RecallChats -> DraftValues] /\ unsent \in [RecallChats -> DraftValues]
  /\ awaited \in [RecallChats -> DraftValues]
RecallKept ==
  /\ \A c \in RecallChats \ {recallChat} : unsent[c] = NoDraft \/ keptDrafts[c] = unsent[c]
  /\ unsent[recallChat] # NoDraft =>
       \/ /\ ShowsPrompt /\ recall.draft = unsent[recallChat] /\ input = recall.value
          /\ input # NoDraft /\ recall.cursor < Len(words[recallChat])
       \/ ~ShowsPrompt /\ input = unsent[recallChat]
RecallIInv == RecallTypes /\ RecallKept

LEMMA NoDraftIsNone == NoDraft \notin RecallPrompts /\ NoPageChat \notin WriteChats
BY PageAssumption DEF RecallPrompts

LEMMA RecallInitOK == RecallInit => RecallIInv
<1> SUFFICES ASSUME RecallInit PROVE RecallIInv
  OBVIOUS
<1>1. <<Earlier>> \in Seq(RecallPrompts)
  BY DEF RecallPrompts
<1>2. words \in [WriteChats -> Seq(RecallPrompts)]
  BY <1>1 DEF RecallInit
<1>3. <<>> \in Seq(RecallPrompts) /\ Len(<<>>) = 0
  BY EmptySeq
<1>4. recall \in HistoryRecs /\ recall.cursor <= Len(recall.entries)
  BY <1>3 DEF RecallInit, HistoryRecs, RecallChats, DraftValues
<1>5. RecallTypes
  BY <1>2, <1>4 DEF RecallInit, RecallTypes, RecallChats, DraftValues
<1>6. \A c \in RecallChats : unsent[c] = NoDraft
  BY DEF RecallInit, RecallChats
<1>7. recallChat \in RecallChats
  BY <1>5 DEF RecallTypes
<1> QED BY <1>5, <1>6, <1>7 DEF RecallIInv, RecallKept

LEMMA HistoryOK ==
  ASSUME RecallTypes, NEW c \in RecallChats, NEW chat \in RecallChats
  PROVE  LET h == HistoryOf(c, chat)
         IN  /\ h \in HistoryRecs /\ h.chat = c /\ h.draft = NoDraft /\ h.cursor = Len(h.entries)
             /\ c = chat /\ chat # NoPageChat => h.entries = words[chat]
<1> DEFINE entries == IF c = NoPageChat THEN <<>> ELSE IF chat = NoPageChat THEN <<>> ELSE words[chat]
<1>1. entries \in Seq(RecallPrompts)
  <2>1. chat # NoPageChat => words[chat] \in Seq(RecallPrompts)
    BY DEF RecallTypes, RecallChats
  <2> QED BY <2>1, EmptySeq
<1>2. Len(<<>>) = 0 /\ Len(entries) \in Nat
  BY <1>1, EmptySeq, LenProperties
<1>3. HistoryOf(c, chat) = [chat |-> c, entries |-> entries, cursor |-> Len(entries),
                            draft |-> NoDraft, value |-> NoDraft]
  BY <1>2 DEF HistoryOf
<1>4. c = chat /\ chat # NoPageChat => entries = words[chat]
  OBVIOUS
<1> HIDE DEF entries
<1> QED BY <1>1, <1>2, <1>3, <1>4 DEF HistoryRecs, DraftValues

LEMMA SyncedOK ==
  ASSUME RecallTypes, recall.chat = recallChat, NEW now \in Seq(RecallPrompts)
  PROVE  LET s == SyncedTo(now)
         IN  /\ s \in HistoryRecs /\ s.chat = recallChat /\ s.entries = now
             /\ s.cursor <= Len(now) /\ s.draft = recall.draft
             /\ ~Recalling(recall) => s.cursor = Len(now)
             /\ Recalling(recall) /\ recall.cursor < Len(now)
                  => s.cursor = recall.cursor /\ s.value = recall.value
<1> DEFINE cursor == IF ~Recalling(recall) \/ recall.cursor > Len(now) THEN Len(now)
                     ELSE recall.cursor
           value  == IF cursor = Len(now) /\ input # NoDraft THEN input ELSE recall.value
<1>1. SyncedTo(now) = [recall EXCEPT !.entries = now, !.cursor = cursor, !.value = value]
  BY DEF SyncedTo
<1>2. recall \in HistoryRecs /\ Len(now) \in Nat /\ recall.cursor \in Nat
  BY LenProperties DEF RecallTypes, HistoryRecs
<1>3. cursor \in Nat /\ cursor <= Len(now)
  BY <1>2
<1>4. ~Recalling(recall) => cursor = Len(now)
  OBVIOUS
<1>5. Recalling(recall) /\ recall.cursor < Len(now) => cursor = recall.cursor
  BY <1>2
<1>6. recall.cursor < Len(now) /\ cursor = recall.cursor => value = recall.value
  BY <1>2
<1>7. value \in DraftValues
  BY <1>2 DEF RecallTypes, HistoryRecs
<1> HIDE DEF cursor, value
<1>8. LET s == [recall EXCEPT !.entries = now, !.cursor = cursor, !.value = value]
      IN  s \in HistoryRecs /\ s.chat = recall.chat /\ s.entries = now /\ s.cursor = cursor
          /\ s.value = value /\ s.draft = recall.draft
  BY <1>2, <1>3, <1>7 DEF HistoryRecs
<1> QED BY <1>1, <1>3, <1>4, <1>5, <1>6, <1>8

\* The history as the page has it for the chat that is open.
LEMMA RecallSyncedOK ==
  ASSUME RecallTypes
  PROVE  LET s == RecallSynced
         IN  /\ s \in HistoryRecs /\ s.chat = recallChat
             /\ s.cursor <= Len(s.entries)
             /\ recallChat # NoPageChat => s.entries = words[recallChat]
             /\ ~ShowsPrompt /\ recallChat # NoPageChat => s.cursor = Len(s.entries)
             /\ ShowsPrompt /\ recall.cursor < Len(words[recallChat])
                  => s.cursor = recall.cursor /\ s.value = recall.value /\ s.draft = recall.draft
<1>1. recallChat \in RecallChats /\ recall \in HistoryRecs
  BY DEF RecallTypes
<1> DEFINE h == HistoryOf(recallChat, recallChat)
<1>2. /\ h \in HistoryRecs /\ h.chat = recallChat /\ h.cursor = Len(h.entries)
      /\ recallChat # NoPageChat => h.entries = words[recallChat]
  BY <1>1, HistoryOK
<1>3. h.entries \in Seq(RecallPrompts) /\ Len(h.entries) \in Nat
  <2>1. h.entries \in Seq(RecallPrompts)
    <3> HIDE DEF h
    <3> QED BY <1>2 DEF HistoryRecs
  <2> QED BY <2>1, LenProperties
<1>4. CASE recall.chat = recallChat
  <2>1. RecallSynced = SyncedTo(h.entries)
    BY DEF RecallSynced
  <2> HIDE DEF h
  <2> QED BY <1>2, <1>3, <1>4, <2>1, SyncedOK DEF ShowsPrompt
<1>5. CASE recall.chat # recallChat
  <2>1. RecallSynced = h
    BY <1>5 DEF RecallSynced, SyncedTo
  <2> HIDE DEF h
  <2> QED BY <1>2, <1>3, <1>5, <2>1 DEF ShowsPrompt
<1> QED BY <1>4, <1>5

LEMMA SavedOK ==
  ASSUME RecallIInv
  PROVE  /\ Saved \in [RecallChats -> DraftValues]
         /\ \A c \in RecallChats \ {recallChat} : Saved[c] = keptDrafts[c]
         /\ \A c \in RecallChats : unsent[c] = NoDraft \/ Saved[c] = unsent[c]
<1>1. SavedDraft \in DraftValues
  BY DEF RecallIInv, RecallTypes, HistoryRecs, SavedDraft
<1>2. unsent[recallChat] # NoDraft => SavedDraft = unsent[recallChat]
  BY DEF RecallIInv, RecallKept, SavedDraft, ShowsPrompt
<1>3. keptDrafts \in [RecallChats -> DraftValues] /\ recallChat \in RecallChats
  BY DEF RecallIInv, RecallTypes
<1> QED BY <1>1, <1>2, <1>3 DEF Saved, RecallIInv, RecallKept

LEMMA TypesOK == ASSUME RecallIInv, NEW t \in DraftTexts, Types(t) PROVE RecallIInv'
<1> DEFINE s == RecallSynced
           l == [s EXCEPT !.cursor = Len(s.entries), !.draft = t, !.value = t]
<1>1. s \in HistoryRecs /\ s.chat = recallChat
  BY RecallSyncedOK DEF RecallIInv
<1>2. recall' = l /\ input' = t /\ unsent' = [unsent EXCEPT ![recallChat] = t]
      /\ UNCHANGED <<recallChat, words, keptDrafts, awaited>>
  BY DEF Types
<1> HIDE DEF s
<1>3. s.entries \in Seq(RecallPrompts)
  BY <1>1 DEF HistoryRecs
<1>4. Len(s.entries) \in Nat
  BY <1>3, LenProperties
<1>5. t \in DraftValues
  BY DEF DraftValues, RecallPrompts
<1>6. l \in HistoryRecs /\ l.cursor = Len(s.entries) /\ l.entries = s.entries /\ l.chat = s.chat
  BY <1>1, <1>4, <1>5 DEF HistoryRecs
<1> HIDE DEF l
<1>7. RecallTypes'
  BY <1>2, <1>4, <1>5, <1>6 DEF RecallIInv, RecallTypes
<1>8. ~Recalling(recall')
  BY <1>2, <1>4, <1>6 DEF Recalling
<1>9. ~ShowsPrompt'
  BY <1>8 DEF ShowsPrompt, Recalling
<1>10. unsent'[recallChat] = t /\ \A c \in RecallChats \ {recallChat} : unsent'[c] = unsent[c]
  BY <1>2 DEF RecallIInv, RecallTypes
<1> QED BY <1>2, <1>7, <1>9, <1>10 DEF RecallIInv, RecallKept

LEMMA ArrowOK == ASSUME RecallIInv, NEW up \in BOOLEAN, Arrow(up) PROVE RecallIInv'
<1> DEFINE sync  == RecallSynced
           back  == IF Recalling(sync) /\ input # sync.value
                    THEN [sync EXCEPT !.cursor = Len(sync.entries), !.draft = input]
                    ELSE sync
           from  == Drafted(back, up)
           next  == IF up THEN (IF from.cursor = 0 THEN 0 ELSE from.cursor - 1)
                    ELSE IF Recalling(from) THEN from.cursor + 1 ELSE from.cursor
           value == IF next = Len(from.entries) THEN from.draft ELSE from.entries[next + 1]
           moved == [from EXCEPT !.cursor = next, !.value = value]
<1>1. /\ sync \in HistoryRecs /\ sync.chat = recallChat /\ sync.cursor <= Len(sync.entries)
      /\ recallChat # NoPageChat /\ sync.entries = words[recallChat]
      /\ ~ShowsPrompt => sync.cursor = Len(sync.entries)
      /\ ShowsPrompt /\ recall.cursor < Len(words[recallChat])
           => sync.cursor = recall.cursor /\ sync.value = recall.value /\ sync.draft = recall.draft
  BY RecallSyncedOK DEF RecallIInv, Arrow
<1>2. UNCHANGED <<recallChat, words, keptDrafts, awaited, unsent>>
  BY DEF Arrow
<1>3. IF sync.entries = <<>> \/ next = from.cursor
      THEN recall' = (IF sync.entries = <<>> THEN sync ELSE from) /\ input' = input
      ELSE recall' = moved /\ input' = value
  BY DEF Arrow
<1> HIDE DEF sync
<1>4. sync.entries \in Seq(RecallPrompts) /\ sync.cursor \in Nat /\ sync.draft \in DraftValues /\ input \in DraftValues
  BY <1>1 DEF HistoryRecs, RecallIInv, RecallTypes
<1>5. Len(sync.entries) \in Nat
  BY <1>4, LenProperties
<1>6. /\ back \in HistoryRecs /\ back.chat = recallChat /\ back.entries = sync.entries
      /\ back.cursor \in Nat /\ back.cursor <= Len(sync.entries)
      /\ back = sync \/ (Recalling(sync) /\ input # sync.value)
  <2> DEFINE l == [sync EXCEPT !.cursor = Len(sync.entries), !.draft = input]
  <2>1. l \in HistoryRecs /\ l.chat = sync.chat /\ l.entries = sync.entries
        /\ l.cursor = Len(sync.entries)
    BY <1>1, <1>4, <1>5 DEF HistoryRecs
  <2>2. back = sync \/ (back = l /\ Recalling(sync) /\ input # sync.value)
    BY Zenon
  <2> HIDE DEF l, back
  <2> QED BY <1>1, <1>4, <1>5, <2>1, <2>2
<1> HIDE DEF back
<1>7. /\ from \in HistoryRecs /\ from.chat = recallChat /\ from.entries = sync.entries
      /\ from.cursor \in Nat /\ from.cursor <= Len(sync.entries)
      /\ from.cursor = back.cursor
      /\ Recalling(back) => from = back
      /\ ~Recalling(back) /\ up => from.draft = input
  <2>1. from = back \/ (from = [back EXCEPT !.draft = input] /\ up /\ ~Recalling(back))
    BY DEF Drafted
  <2>2. [back EXCEPT !.draft = input] \in HistoryRecs
    BY <1>4, <1>6 DEF HistoryRecs
  <2>3. LET l == [back EXCEPT !.draft = input]
        IN  l.chat = back.chat /\ l.entries = back.entries /\ l.cursor = back.cursor
            /\ l.draft = input
    BY <1>6 DEF HistoryRecs
  <2>4. ~Recalling(back) /\ up => from = [back EXCEPT !.draft = input]
    BY DEF Drafted
  <2> HIDE DEF from
  <2> QED BY <1>6, <2>1, <2>2, <2>3, <2>4
<1> HIDE DEF from
<1>8. next \in Nat /\ next <= Len(sync.entries)
  BY <1>5, <1>7 DEF Recalling
<1>9. next # Len(sync.entries) => from.entries[next + 1] \in RecallPrompts
  <2>1. next # Len(sync.entries) => next + 1 \in 1 .. Len(sync.entries)
    BY <1>5, <1>8
  <2> HIDE DEF next
  <2> QED BY <1>4, <1>7, <2>1, ElementOfSeq
<1>10. from.draft \in DraftValues
  BY <1>7 DEF HistoryRecs
<1>11. value \in DraftValues /\ (next # Len(sync.entries) => value \in RecallPrompts)
       /\ (next = Len(sync.entries) => value = from.draft)
  BY <1>7, <1>9, <1>10 DEF DraftValues
<1>12. from.cursor = Len(sync.entries) /\ next # from.cursor => up /\ next = from.cursor - 1
  BY <1>5, <1>7 DEF Recalling
<1>13. up => next <= from.cursor
  BY <1>7
<1> HIDE DEF next, value
<1>14. /\ moved \in HistoryRecs /\ moved.cursor = next /\ moved.entries = sync.entries
       /\ moved.chat = recallChat /\ moved.value = value /\ moved.draft = from.draft
  BY <1>7, <1>8, <1>11 DEF HistoryRecs
<1> HIDE DEF moved
<1>15. RecallTypes'
  <2>1. recall' \in HistoryRecs /\ recall'.cursor <= Len(recall'.entries) /\ input' \in DraftValues
    BY <1>1, <1>3, <1>4, <1>7, <1>8, <1>11, <1>14
  <2> QED BY <1>2, <2>1 DEF RecallIInv, RecallTypes
<1>16. ASSUME unsent[recallChat] # NoDraft
       PROVE  \/ /\ ShowsPrompt' /\ recall'.draft = unsent[recallChat] /\ input' = recall'.value
                 /\ input' # NoDraft /\ recall'.cursor < Len(words[recallChat])
              \/ ~ShowsPrompt' /\ input' = unsent[recallChat]
  <2>1. CASE ShowsPrompt
    <3>1. /\ recall.draft = unsent[recallChat] /\ input = recall.value
          /\ input # NoDraft /\ recall.cursor < Len(words[recallChat])
      BY <1>16, <2>1 DEF RecallIInv, RecallKept
    <3>2. sync.cursor = recall.cursor /\ sync.value = recall.value /\ sync.draft = recall.draft
      BY <1>1, <2>1, <3>1
    <3>3. back = sync
      BY <1>6, <3>1, <3>2
    <3>4. Recalling(sync) /\ from = sync
      BY <1>1, <1>7, <3>1, <3>2, <3>3 DEF Recalling
    <3>5. sync.entries # <<>>
      <4>1. sync.entries = <<>> => Len(sync.entries) = 0
        BY EmptySeq
      <4> QED BY <1>4, <1>5, <3>4, <4>1 DEF Recalling
    <3>6. CASE next = from.cursor
      <4>1. recall' = sync /\ input' = input
        BY <1>3, <3>4, <3>5, <3>6
      <4>2. ShowsPrompt'
        BY <1>1, <1>2, <3>4, <4>1 DEF ShowsPrompt, Recalling
      <4> QED BY <1>1, <3>1, <3>2, <4>1, <4>2
    <3>7. CASE next # from.cursor /\ next = Len(sync.entries)
      <4>1. recall' = moved /\ input' = value
        BY <1>3, <3>5, <3>7
      <4>2. ~ShowsPrompt'
        BY <1>5, <1>14, <3>7, <4>1 DEF ShowsPrompt, Recalling
      <4> QED BY <1>11, <3>1, <3>2, <3>4, <3>7, <4>1, <4>2
    <3>8. CASE next # from.cursor /\ next # Len(sync.entries)
      <4>1. recall' = moved /\ input' = value
        BY <1>3, <3>5, <3>8
      <4>2. next < Len(sync.entries) /\ value # NoDraft
        BY <1>5, <1>8, <1>11, <3>8, NoDraftIsNone
      <4>3. ShowsPrompt'
        BY <1>1, <1>2, <1>14, <4>1, <4>2 DEF ShowsPrompt, Recalling
      <4> QED BY <1>1, <1>14, <3>1, <3>2, <3>4, <4>1, <4>2, <4>3
    <3> QED BY <3>6, <3>7, <3>8
  <2>2. CASE ~ShowsPrompt
    <3>1. input = unsent[recallChat]
      BY <1>16, <2>2 DEF RecallIInv, RecallKept
    <3>2. sync.cursor = Len(sync.entries)
      BY <1>1, <2>2
    <3>3. ~Recalling(sync) /\ back = sync
      BY <1>5, <1>6, <3>2 DEF Recalling
    <3>4. CASE sync.entries = <<>> \/ next = from.cursor
      <4>1. recall'.cursor = Len(sync.entries) /\ recall'.entries = sync.entries /\ input' = input
        BY <1>3, <1>7, <3>2, <3>3, <3>4
      <4>2. ~ShowsPrompt'
        BY <1>5, <4>1 DEF ShowsPrompt, Recalling
      <4> QED BY <3>1, <4>1, <4>2
    <3>5. CASE ~(sync.entries = <<>> \/ next = from.cursor)
      <4>1. recall' = moved /\ input' = value
        BY <1>3, <3>5
      <4>2. up /\ next = from.cursor - 1 /\ from.draft = input
        BY <1>7, <1>12, <3>2, <3>3, <3>5
      <4>3. next < Len(sync.entries)
        BY <1>5, <1>7, <1>8, <3>2, <3>3, <4>2
      <4>4. value # NoDraft
        BY <1>5, <1>8, <1>11, <4>3, NoDraftIsNone
      <4>5. ShowsPrompt'
        BY <1>1, <1>2, <1>14, <4>1, <4>3 DEF ShowsPrompt, Recalling
      <4> QED BY <1>1, <1>14, <3>1, <4>1, <4>2, <4>3, <4>4, <4>5
    <3> QED BY <3>4, <3>5
  <2> QED BY <2>1, <2>2
<1>17. \A c \in RecallChats \ {recallChat} : unsent[c] = NoDraft \/ keptDrafts[c] = unsent[c]
  BY DEF RecallIInv, RecallKept
<1>18. RecallKept'
  BY <1>2, <1>16, <1>17 DEF RecallKept
<1> QED BY <1>15, <1>18 DEF RecallIInv

LEMMA RecallOpenOK ==
  ASSUME RecallIInv, NEW c \in RecallChats \ {recallChat}, RecallOpen(c)
  PROVE  RecallIInv'
<1>1. /\ keptDrafts' = Saved /\ recallChat' = c /\ recall' = HistoryOf(c, c)
      /\ input' = Saved[c] /\ UNCHANGED <<words, awaited, unsent>>
  BY DEF RecallOpen
<1>2. /\ recall' \in HistoryRecs /\ recall'.cursor = Len(recall'.entries)
  BY <1>1, HistoryOK DEF RecallIInv
<1>3. recall'.entries \in Seq(RecallPrompts) /\ Len(recall'.entries) \in Nat
  <2>1. recall'.entries \in Seq(RecallPrompts)
    BY <1>2 DEF HistoryRecs
  <2> QED BY <2>1, LenProperties
<1>4. /\ Saved \in [RecallChats -> DraftValues]
      /\ \A other \in RecallChats : unsent[other] = NoDraft \/ Saved[other] = unsent[other]
  BY SavedOK
<1>5. RecallTypes'
  BY <1>1, <1>2, <1>3, <1>4 DEF RecallIInv, RecallTypes
<1>6. ~ShowsPrompt'
  BY <1>2, <1>3 DEF ShowsPrompt, Recalling
<1> QED BY <1>1, <1>4, <1>5, <1>6 DEF RecallIInv, RecallKept

LEMMA ReloadOK == ASSUME RecallIInv, ReloadPage PROVE RecallIInv'
<1>1. /\ awaited' = [c \in DOMAIN awaited |-> NoDraft]
      /\ keptDrafts' = (IF recallChat = NoPageChat THEN Saved
                        ELSE [Saved EXCEPT ![NoPageChat] = NoDraft])
      /\ unsent' = (IF recallChat = NoPageChat THEN unsent
                    ELSE [unsent EXCEPT ![NoPageChat] = NoDraft])
      /\ recall' = HistoryOf(recallChat, recallChat) /\ input' = keptDrafts'[recallChat]
      /\ UNCHANGED <<recallChat, words>>
  BY DEF ReloadPage
<1>2. recallChat \in RecallChats /\ NoPageChat \in RecallChats /\ NoDraft \in DraftValues
  BY DEF RecallIInv, RecallTypes, RecallChats, DraftValues
<1>3. recall' \in HistoryRecs /\ recall'.cursor = Len(recall'.entries)
  BY <1>1, <1>2, HistoryOK DEF RecallIInv
<1>4. recall'.entries \in Seq(RecallPrompts) /\ Len(recall'.entries) \in Nat
  <2>1. recall'.entries \in Seq(RecallPrompts)
    BY <1>3 DEF HistoryRecs
  <2> QED BY <2>1, LenProperties
<1>5. /\ Saved \in [RecallChats -> DraftValues] /\ unsent \in [RecallChats -> DraftValues]
      /\ \A other \in RecallChats : unsent[other] = NoDraft \/ Saved[other] = unsent[other]
  BY SavedOK DEF RecallIInv, RecallTypes
<1>6. /\ keptDrafts' \in [RecallChats -> DraftValues] /\ unsent' \in [RecallChats -> DraftValues]
      /\ \A c \in RecallChats : unsent'[c] = NoDraft \/ keptDrafts'[c] = unsent'[c]
  BY <1>1, <1>2, <1>5
<1>7. awaited' \in [RecallChats -> DraftValues]
  BY <1>1, <1>2 DEF RecallIInv, RecallTypes
<1>8. RecallTypes'
  BY <1>1, <1>2, <1>3, <1>4, <1>6, <1>7 DEF RecallIInv, RecallTypes
<1>9. ~ShowsPrompt'
  BY <1>3, <1>4 DEF ShowsPrompt, Recalling
<1> QED BY <1>1, <1>2, <1>6, <1>8, <1>9 DEF RecallIInv, RecallKept

LEMMA SendsTextOK == ASSUME RecallIInv, SendsText PROVE RecallIInv'
<1>1. /\ input' = NoDraft /\ keptDrafts' = [keptDrafts EXCEPT ![recallChat] = NoDraft]
      /\ awaited' = [awaited EXCEPT ![recallChat] = input]
      /\ unsent' = [unsent EXCEPT ![recallChat] = NoDraft]
      /\ UNCHANGED <<recallChat, words, recall>>
  BY DEF SendsText
<1>2. recallChat \in RecallChats /\ NoDraft \in DraftValues
  BY DEF RecallIInv, RecallTypes, DraftValues
<1>3. RecallTypes'
  BY <1>1, <1>2 DEF RecallIInv, RecallTypes
<1>4. unsent'[recallChat] = NoDraft
      /\ \A c \in RecallChats \ {recallChat} : unsent'[c] = unsent[c] /\ keptDrafts'[c] = keptDrafts[c]
  BY <1>1, <1>2 DEF RecallIInv, RecallTypes
<1> QED BY <1>1, <1>3, <1>4 DEF RecallIInv, RecallKept

LEMMA SendAnsweredOK ==
  ASSUME RecallIInv, NEW c \in WriteChats, SendAnswered(c)
  PROVE  RecallIInv'
<1> DEFINE base == IF recall.chat # c THEN HistoryOf(c, recallChat) ELSE recall
           last == base.entries # <<>> /\ base.entries[Len(base.entries)] = awaited[c]
           now  == IF last THEN base.entries ELSE Append(base.entries, awaited[c])
           new  == [base EXCEPT !.entries = now, !.cursor = Len(now), !.draft = NoDraft,
                                !.value = NoDraft]
<1>1. /\ awaited[c] # NoDraft /\ awaited' = [awaited EXCEPT ![c] = NoDraft]
      /\ recall' = new
      /\ unsent' = (IF Recalling(recall) THEN [unsent EXCEPT ![recallChat] = NoDraft] ELSE unsent)
      /\ UNCHANGED <<recallChat, words, input, keptDrafts>>
  BY DEF SendAnswered
<1>2. recallChat \in RecallChats /\ c \in RecallChats /\ NoDraft \in DraftValues
      /\ recall \in HistoryRecs /\ awaited \in [RecallChats -> DraftValues]
      /\ unsent \in [RecallChats -> DraftValues]
  BY DEF RecallIInv, RecallTypes, RecallChats, DraftValues
<1>3. awaited[c] \in RecallPrompts
  BY <1>1, <1>2 DEF DraftValues
<1>4. base \in HistoryRecs
  BY <1>2, HistoryOK DEF RecallIInv
<1> HIDE DEF base
<1>5. base.entries \in Seq(RecallPrompts)
  BY <1>4 DEF HistoryRecs
<1>6. now \in Seq(RecallPrompts)
  <2> HIDE DEF last
  <2> QED BY <1>3, <1>5, AppendProperties
<1> HIDE DEF now
<1>7. Len(now) \in Nat
  BY <1>6, LenProperties
<1>8. new \in HistoryRecs /\ new.cursor = Len(now) /\ new.entries = now
  BY <1>2, <1>4, <1>6, <1>7 DEF HistoryRecs
<1> HIDE DEF new
<1>9. RecallTypes'
  BY <1>1, <1>2, <1>7, <1>8 DEF RecallIInv, RecallTypes
<1>10. ~ShowsPrompt'
  BY <1>1, <1>7, <1>8 DEF ShowsPrompt, Recalling
<1>11. CASE Recalling(recall)
  <2>1. unsent'[recallChat] = NoDraft
        /\ \A other \in RecallChats \ {recallChat} : unsent'[other] = unsent[other]
    BY <1>1, <1>2, <1>11
  <2> QED BY <1>1, <1>9, <2>1 DEF RecallIInv, RecallKept
<1>12. CASE ~Recalling(recall)
  BY <1>1, <1>9, <1>10, <1>12 DEF RecallIInv, RecallKept, ShowsPrompt
<1> QED BY <1>11, <1>12

LEMMA SendFailedOK ==
  ASSUME RecallIInv, NEW c \in WriteChats, SendFailed(c)
  PROVE  RecallIInv'
<1>1. /\ awaited[c] # NoDraft /\ awaited' = [awaited EXCEPT ![c] = NoDraft]
      /\ UNCHANGED <<recallChat, words, recall>>
  BY DEF SendFailed
<1>2. c \in RecallChats /\ NoDraft \in DraftValues /\ awaited \in [RecallChats -> DraftValues]
      /\ unsent \in [RecallChats -> DraftValues] /\ keptDrafts \in [RecallChats -> DraftValues]
      /\ input \in DraftValues
  BY DEF RecallIInv, RecallTypes, RecallChats, DraftValues
<1>3. CASE c # recallChat
  <2>1. UNCHANGED <<input, keptDrafts, unsent>>
    BY <1>3 DEF SendFailed
  <2>2. RecallTypes'
    BY <1>1, <1>2, <2>1 DEF RecallIInv, RecallTypes
  <2> QED BY <1>1, <2>1, <2>2 DEF RecallIInv, RecallKept, ShowsPrompt
<1>4. CASE c = recallChat
  <2>1. /\ input' = (IF input = NoDraft THEN awaited[c] ELSE input)
        /\ keptDrafts' = [keptDrafts EXCEPT ![c] = input']
        /\ unsent' = (IF input = NoDraft /\ ~Recalling(recall)
                      THEN [unsent EXCEPT ![c] = awaited[c]] ELSE unsent)
    BY <1>4 DEF SendFailed
  <2>2. RecallTypes'
    BY <1>1, <1>2, <2>1 DEF RecallIInv, RecallTypes
  <2>3. \A other \in RecallChats \ {recallChat} :
          unsent'[other] = unsent[other] /\ keptDrafts'[other] = keptDrafts[other]
    BY <1>2, <1>4, <2>1
  <2>4. ShowsPrompt' <=> ShowsPrompt
    BY <1>1 DEF ShowsPrompt
  <2>5. CASE input = NoDraft /\ ~Recalling(recall)
    <3>1. ~ShowsPrompt' /\ input' = unsent'[recallChat]
      BY <1>2, <1>4, <2>1, <2>4, <2>5 DEF ShowsPrompt
    <3> QED BY <1>1, <2>2, <2>3, <3>1 DEF RecallIInv, RecallKept
  <2>6. CASE input = NoDraft /\ Recalling(recall)
    <3>1. unsent[recallChat] = NoDraft /\ unsent' = unsent
      BY <2>1, <2>6 DEF RecallIInv, RecallKept
    <3> QED BY <1>1, <2>2, <2>3, <3>1 DEF RecallIInv, RecallKept
  <2>7. CASE input # NoDraft
    <3>1. input' = input /\ unsent' = unsent
      BY <2>1, <2>7
    <3> QED BY <1>1, <2>2, <2>3, <2>4, <3>1 DEF RecallIInv, RecallKept
  <2> QED BY <2>5, <2>6, <2>7
<1> QED BY <1>3, <1>4

LEMMA WordsChangeOK ==
  ASSUME RecallIInv, NEW c \in WriteChats, NEW now \in Seq(RecallPrompts),
         Len(now) = Len(words[c]) + 1, WordsChange(c, now)
  PROVE  RecallIInv'
<1>1. /\ words' = [words EXCEPT ![c] = now]
      /\ recall' = (IF c = recallChat /\ recall.chat = c THEN SyncedTo(now) ELSE recall)
      /\ UNCHANGED <<recallChat, input, keptDrafts, awaited, unsent>>
  BY DEF WordsChange
<1>2. words \in [WriteChats -> Seq(RecallPrompts)] /\ Len(now) \in Nat /\ c # NoPageChat
  BY LenProperties, NoDraftIsNone DEF RecallIInv, RecallTypes
<1>3. words[c] \in Seq(RecallPrompts) /\ words'[c] = now
      /\ \A other \in WriteChats \ {c} : words'[other] = words[other]
  BY <1>1, <1>2
<1>4. Len(words[c]) \in Nat /\ Len(words[c]) < Len(now)
  BY <1>2, <1>3, LenProperties
<1>5. words' \in [WriteChats -> Seq(RecallPrompts)]
  BY <1>1, <1>2
<1>6. CASE c = recallChat /\ recall.chat = c
  <2>1. recall' = SyncedTo(now) /\ RecallTypes
    BY <1>1, <1>6 DEF RecallIInv
  <2>2. /\ recall' \in HistoryRecs /\ recall'.chat = recallChat /\ recall'.entries = now
        /\ recall'.cursor <= Len(now) /\ recall'.draft = recall.draft
        /\ ~Recalling(recall) => recall'.cursor = Len(now)
        /\ Recalling(recall) /\ recall.cursor < Len(now)
             => recall'.cursor = recall.cursor /\ recall'.value = recall.value
    BY <1>6, <2>1, SyncedOK
  <2>3. RecallTypes'
    BY <1>1, <1>5, <2>1, <2>2 DEF RecallTypes
  <2>4. recall.cursor \in Nat
    BY <2>1 DEF RecallTypes, HistoryRecs
  <2>5. CASE ~ShowsPrompt
    <3>1. ~Recalling(recall) /\ ~ShowsPrompt'
      BY <1>1, <1>2, <1>6, <2>2, <2>5 DEF ShowsPrompt, Recalling
    <3> QED BY <1>1, <2>3, <2>5, <3>1 DEF RecallIInv, RecallKept
  <2>6. CASE ShowsPrompt /\ unsent[recallChat] # NoDraft
    <3>1. recall.cursor < Len(words[c]) /\ Recalling(recall)
      BY <1>6, <2>6 DEF RecallIInv, RecallKept, ShowsPrompt
    <3>2. recall.cursor < Len(now)
      BY <1>4, <2>4, <3>1
    <3>3. recall'.cursor = recall.cursor /\ recall'.value = recall.value
      BY <2>2, <3>1, <3>2
    <3>4. ShowsPrompt'
      BY <1>1, <1>2, <1>6, <2>2, <3>2, <3>3 DEF ShowsPrompt, Recalling
    <3>5. words'[recallChat] = now
      BY <1>3, <1>6
    <3> QED BY <1>1, <2>2, <2>3, <2>6, <3>2, <3>3, <3>4, <3>5 DEF RecallIInv, RecallKept
  <2>7. CASE unsent[recallChat] = NoDraft
    BY <1>1, <2>3, <2>7 DEF RecallIInv, RecallKept
  <2> QED BY <2>5, <2>6, <2>7
<1>7. CASE ~(c = recallChat /\ recall.chat = c)
  <2>1. recall' = recall
    BY <1>1, <1>7
  <2>2. RecallTypes'
    BY <1>1, <1>5, <2>1 DEF RecallIInv, RecallTypes
  <2>3. ShowsPrompt' <=> ShowsPrompt
    BY <1>1, <2>1 DEF ShowsPrompt
  <2>4. ShowsPrompt => recallChat \in WriteChats \ {c}
    BY <1>7 DEF ShowsPrompt, RecallIInv, RecallTypes, RecallChats
  <2>5. ShowsPrompt => words'[recallChat] = words[recallChat]
    BY <1>3, <2>4
  <2> QED BY <1>1, <2>1, <2>2, <2>3, <2>5 DEF RecallIInv, RecallKept
<1> QED BY <1>6, <1>7

LEMMA RecallStepOK == ASSUME RecallIInv, [RecallNext]_recallVars PROVE RecallIInv'
<1>1. CASE UNCHANGED recallVars
  BY <1>1 DEF recallVars, RecallIInv, RecallTypes, RecallKept, ShowsPrompt
<1>2. CASE SavesDraft
  <2>1. UNCHANGED <<recallChat, words, recall, input, awaited, unsent>> /\ keptDrafts' = Saved
    BY <1>2 DEF SavesDraft
  <2> QED BY <2>1, SavedOK DEF RecallIInv, RecallTypes, RecallKept, ShowsPrompt
<1>3. CASE SendsText
  BY <1>3, SendsTextOK
<1>4. CASE ReloadPage
  BY <1>4, ReloadOK
<1>5. ASSUME NEW up \in BOOLEAN, Arrow(up) PROVE RecallIInv'
  BY <1>5, ArrowOK
<1>6. ASSUME NEW t \in DraftTexts, Types(t) PROVE RecallIInv'
  BY <1>6, TypesOK
<1>7. ASSUME NEW c \in (WriteChats \cup {NoPageChat}) \ {recallChat}, RecallOpen(c)
      PROVE  RecallIInv'
  BY <1>7, RecallOpenOK DEF RecallChats
<1>8. ASSUME NEW c \in WriteChats, SendAnswered(c) PROVE RecallIInv'
  BY <1>8, SendAnsweredOK
<1>9. ASSUME NEW c \in WriteChats, SendFailed(c) PROVE RecallIInv'
  BY <1>9, SendFailedOK
<1>10. ASSUME NEW c \in WriteChats PROVE words[c] \in Seq(RecallPrompts)
  BY <1>10 DEF RecallIInv, RecallTypes
<1>11. ASSUME NEW c \in WriteChats, OlderWords(c) PROVE RecallIInv'
  <2>1. <<Older>> \in Seq(RecallPrompts) /\ Len(<<Older>>) = 1
    BY DEF RecallPrompts
  <2>2. <<Older>> \o words[c] \in Seq(RecallPrompts)
        /\ Len(<<Older>> \o words[c]) = Len(<<Older>>) + Len(words[c])
    BY <1>10, <2>1, ConcatProperties
  <2>3. Len(words[c]) \in Nat
    BY <1>10, LenProperties
  <2>4. Len(<<Older>> \o words[c]) = Len(words[c]) + 1
    BY <2>1, <2>2, <2>3
  <2> QED BY <1>11, <2>2, <2>4, WordsChangeOK DEF OlderWords
<1>12. ASSUME NEW c \in WriteChats, NEW t \in DraftTexts, NewWords(c, t) PROVE RecallIInv'
  <2>1. t \in RecallPrompts
    BY DEF RecallPrompts
  <2>2. Append(words[c], t) \in Seq(RecallPrompts) /\ Len(Append(words[c], t)) = Len(words[c]) + 1
    BY <1>10, <2>1, AppendProperties
  <2> QED BY <1>12, <2>2, WordsChangeOK DEF NewWords
<1> QED BY <1>1, <1>2, <1>3, <1>4, <1>5, <1>6, <1>7, <1>8, <1>9, <1>11, <1>12 DEF RecallNext

\* A draft is never lost, whatever the user and the server do (saveDraftNow,
\* navigatePromptHistory, notePromptInput).
THEOREM DraftsAreKept == RecallSpec => []DraftKept
<1>1. RecallInit => RecallIInv
  BY RecallInitOK
<1>2. RecallIInv /\ [RecallNext]_recallVars => RecallIInv'
  BY RecallStepOK
<1>3. RecallIInv => DraftKept
  BY DEF RecallIInv, RecallKept, DraftKept, ShowsPrompt, RecallChats
<1> QED BY <1>1, <1>2, <1>3, PTL DEF RecallSpec

-----------------------------------------------------------------------------
(* The model of a chat.  Unless an event was dropped, the page has what the *)
(* server has as soon as no event is on its way, and the reads of the       *)
(* version it shows say the same.                                           *)

SwitchRecs == [model : Models, stage : {"queued", "sent", "taken"}]
ReadRecs == [at : Nat, model : Models \cup {NoModel}]

SwitchTypes ==
  /\ serverModel \in Models /\ shownModel \in Models /\ version \in Nat
  /\ override \in [model : Models \cup {NoModel}, fresh : BOOLEAN]
  /\ switches \in Seq(SwitchRecs) /\ modelReads \in Seq(ReadRecs) /\ modelNews \in Seq(Models)
  /\ listed \in BOOLEAN /\ missed \in BOOLEAN
\* Only the switch in front is with the server, and the last event is the news.
SwitchOrder ==
  /\ \A i \in 2 .. Len(switches) : switches[i].stage = "queued"
  /\ modelNews # <<>> => modelNews[Len(modelNews)] = serverModel
  /\ listed => \A i \in 1 .. Len(modelReads) : modelReads[i].at <= version
  /\ override.fresh => override.model = shownModel
SwitchTold ==
  listed /\ ~missed =>
    /\ modelNews = <<>> => shownModel = serverModel
    /\ modelNews = <<>> =>
         \A i \in 1 .. Len(modelReads) :
           modelReads[i].model # NoModel /\ modelReads[i].at = version
             => modelReads[i].model = serverModel
    /\ switches # <<>> /\ switches[1].stage = "taken" => modelNews # <<>>
SwitchIInv == SwitchTypes /\ SwitchOrder /\ SwitchTold

LEMMA SwitchInitOK == SwitchInit => SwitchIInv
<1> SUFFICES ASSUME SwitchInit PROVE SwitchIInv
  OBVIOUS
<1>1. /\ <<>> \in Seq(SwitchRecs) /\ <<>> \in Seq(ReadRecs) /\ <<>> \in Seq(Models)
      /\ Len(<<>>) = 0
  BY EmptySeq
<1>2. override \in [model : Models \cup {NoModel}, fresh : BOOLEAN] /\ ~override.fresh
  BY DEF SwitchInit, NoOverride
<1>3. SwitchTypes
  BY <1>1, <1>2 DEF SwitchInit, SwitchTypes
<1>4. switches = <<>> /\ modelReads = <<>> /\ modelNews = <<>> /\ shownModel = serverModel
  BY DEF SwitchInit
<1>5. Len(switches) = 0 /\ Len(modelReads) = 0
  BY <1>1, <1>4
<1> QED BY <1>2, <1>3, <1>4, <1>5 DEF SwitchIInv, SwitchOrder, SwitchTold

LEMMA SwitchSeqs ==
  ASSUME SwitchTypes
  PROVE  /\ Len(switches) \in Nat /\ Len(modelReads) \in Nat /\ Len(modelNews) \in Nat
         /\ DOMAIN modelReads = 1 .. Len(modelReads)
         /\ \A i \in 1 .. Len(switches) : switches[i] \in SwitchRecs
         /\ \A i \in 1 .. Len(modelReads) : modelReads[i] \in ReadRecs
         /\ \A i \in 1 .. Len(modelNews) : modelNews[i] \in Models
         /\ switches # <<>> => 1 \in 1 .. Len(switches) /\ Head(switches) = switches[1]
         /\ switches = <<>> <=> Len(switches) = 0
         /\ modelNews = <<>> <=> Len(modelNews) = 0
<1> HIDE DEF SwitchRecs, ReadRecs
<1>1. switches \in Seq(SwitchRecs) /\ modelReads \in Seq(ReadRecs) /\ modelNews \in Seq(Models)
  BY DEF SwitchTypes
<1>2. /\ Len(switches) \in Nat /\ Len(modelReads) \in Nat /\ Len(modelNews) \in Nat
      /\ DOMAIN modelReads = 1 .. Len(modelReads)
  BY <1>1, LenProperties
<1>3. (switches # <<>> => Len(switches) \in Nat \ {0}) /\ (modelNews # <<>> => Len(modelNews) \in Nat \ {0})
      /\ Len(<<>>) = 0
  BY <1>1, EmptySeq
<1>4. switches # <<>> => Head(switches) = switches[1]
  BY <1>1
<1> QED BY <1>1, <1>2, <1>3, <1>4, ElementOfSeq

\* More news: what the page shows is not asked about until it has come.
LEMMA NewsComes ==
  ASSUME SwitchTypes, NEW m \in Models
  PROVE  LET more == Append(modelNews, m)
         IN more \in Seq(Models) /\ more # <<>> /\ more[Len(more)] = m
<1>1. modelNews \in Seq(Models)
  BY DEF SwitchTypes
<1> QED BY <1>1, AppendProperties

LEMMA SwitchDropOK ==
  ASSUME SwitchTypes, NEW i \in 1 .. Len(modelReads)
  PROVE  /\ DropRead(i) \in Seq(ReadRecs)
         /\ \A j \in 1 .. Len(DropRead(i)) :
              \E k \in 1 .. Len(modelReads) : DropRead(i)[j] = modelReads[k]
<1> HIDE DEF ReadRecs
<1> DEFINE before == SubSeq(modelReads, 1, i - 1)
           after  == SubSeq(modelReads, i + 1, Len(modelReads))
<1>1. modelReads \in Seq(ReadRecs) /\ Len(modelReads) \in Nat
  BY LenProperties DEF SwitchTypes
<1>2. \A j \in 1 .. i - 1 : j \in 1 .. Len(modelReads) /\ 1 + j - 1 = j
  BY <1>1
<1>3. \A j \in i + 1 .. Len(modelReads) : j \in 1 .. Len(modelReads)
  BY <1>1
<1>4. /\ before \in Seq(ReadRecs)
      /\ \A j \in 1 .. (i - 1) - 1 + 1 : before[j] = modelReads[1 + j - 1]
      /\ Len(before) = IF 1 <= i - 1 THEN (i - 1) - 1 + 1 ELSE 0
  <2>1. \A j \in 1 .. i - 1 : modelReads[j] \in ReadRecs
    BY <1>1, <1>2, ElementOfSeq
  <2>2. 1 \in Int /\ i - 1 \in Int
    BY <1>1
  <2> QED BY <2>1, <2>2, SubSeqProperties
<1>5. /\ after \in Seq(ReadRecs)
      /\ \A j \in 1 .. Len(modelReads) - (i + 1) + 1 : after[j] = modelReads[(i + 1) + j - 1]
      /\ Len(after) = IF i + 1 <= Len(modelReads) THEN Len(modelReads) - (i + 1) + 1 ELSE 0
  <2>1. \A j \in i + 1 .. Len(modelReads) : modelReads[j] \in ReadRecs
    BY <1>1, <1>3, ElementOfSeq
  <2>2. i + 1 \in Int /\ Len(modelReads) \in Int
    BY <1>1
  <2> QED BY <2>1, <2>2, SubSeqProperties
<1>6. \A j \in 1 .. Len(before) : \E k \in 1 .. Len(modelReads) : before[j] = modelReads[k]
  BY <1>1, <1>2, <1>4
<1>7. \A j \in 1 .. Len(after) : \E k \in 1 .. Len(modelReads) : after[j] = modelReads[k]
  <2>1. \A j \in 1 .. Len(after) : (i + 1) + j - 1 \in 1 .. Len(modelReads)
                                   /\ j \in 1 .. Len(modelReads) - (i + 1) + 1
    BY <1>1, <1>5
  <2> QED BY <1>5, <2>1
<1> HIDE DEF before, after
<1>8. /\ before \o after \in Seq(ReadRecs) /\ Len(before \o after) = Len(before) + Len(after)
      /\ \A j \in 1 .. Len(before) + Len(after) :
           (before \o after)[j] = IF j <= Len(before) THEN before[j] ELSE after[j - Len(before)]
  BY <1>4, <1>5, ConcatProperties
<1>9. Len(before) \in Nat /\ Len(after) \in Nat
  BY <1>4, <1>5, LenProperties
<1>10. ASSUME NEW j \in 1 .. Len(before \o after)
       PROVE  \E k \in 1 .. Len(modelReads) : (before \o after)[j] = modelReads[k]
  <2>1. CASE j <= Len(before)
    <3>1. j \in 1 .. Len(before)
      BY <1>8, <1>9, <2>1
    <3> QED BY <1>6, <1>8, <2>1, <3>1
  <2>2. CASE ~(j <= Len(before))
    <3>1. j - Len(before) \in 1 .. Len(after)
      BY <1>8, <1>9, <2>2
    <3> QED BY <1>7, <1>8, <2>2, <3>1
  <2> QED BY <2>1, <2>2
<1>11. DropRead(i) = before \o after
  BY DEF DropRead, before, after
<1> QED BY <1>8, <1>10, <1>11

\* A queue that loses its first switch keeps only ones that are not sent yet.
LEMMA SwitchesEnd ==
  ASSUME SwitchIInv, switches # <<>>
  PROVE  /\ Tail(switches) \in Seq(SwitchRecs)
         /\ \A j \in 1 .. Len(Tail(switches)) : Tail(switches)[j].stage = "queued"
<1>1. switches \in Seq(SwitchRecs) /\ Len(switches) \in Nat
  BY SwitchSeqs DEF SwitchIInv, SwitchTypes
<1>2. /\ Tail(switches) \in Seq(SwitchRecs) /\ Len(Tail(switches)) = Len(switches) - 1
      /\ \A j \in 1 .. Len(Tail(switches)) : Tail(switches)[j] = switches[j + 1]
  <2> HIDE DEF SwitchRecs
  <2> QED BY <1>1, HeadTailProperties
<1>3. \A j \in 1 .. Len(Tail(switches)) : j + 1 \in 2 .. Len(switches)
  BY <1>1, <1>2
<1> QED BY <1>2, <1>3 DEF SwitchIInv, SwitchOrder

LEMMA SwitchesMove ==
  ASSUME SwitchIInv, switches # <<>>, NEW to \in {"sent", "taken"}
  PROVE  LET moved == [switches EXCEPT ![1].stage = to]
         IN  /\ moved \in Seq(SwitchRecs) /\ moved # <<>> /\ moved[1].stage = to
             /\ \A j \in 2 .. Len(moved) : moved[j].stage = "queued"
<1> DEFINE first == [switches[1] EXCEPT !.stage = to]
           moved == [switches EXCEPT ![1] = first]
<1>1. switches \in Seq(SwitchRecs) /\ Len(switches) \in Nat /\ 1 \in 1 .. Len(switches)
      /\ switches[1] \in SwitchRecs
  BY SwitchSeqs DEF SwitchIInv, SwitchTypes
<1>2. first \in SwitchRecs /\ first.stage = to
  BY <1>1 DEF SwitchRecs
<1>3. /\ moved \in Seq(SwitchRecs) /\ Len(moved) = Len(switches)
      /\ \A j \in 1 .. Len(switches) : moved[j] = IF j = 1 THEN first ELSE switches[j]
  <2> HIDE DEF first, SwitchRecs
  <2> QED BY <1>1, <1>2, ExceptSeq
<1>4. [switches EXCEPT ![1].stage = to] = moved
  OBVIOUS
<1> HIDE DEF first, moved
<1>5. moved # <<>>
  <2>1. Len(<<>>) = 0 /\ Len(moved) # 0
    BY <1>1, <1>3, EmptySeq
  <2> QED BY <2>1
<1>6. \A j \in 2 .. Len(moved) : j \in 1 .. Len(switches) /\ j # 1
  BY <1>1, <1>3
<1>7. \A j \in 2 .. Len(moved) : moved[j].stage = "queued"
  BY <1>3, <1>6 DEF SwitchIInv, SwitchOrder
<1> QED BY <1>1, <1>2, <1>3, <1>4, <1>5, <1>7

-----------------------------------------------------------------------------
LEMMA ElsewhereOK ==
  ASSUME SwitchIInv, NEW m \in Models, SwitchedElsewhere(m) PROVE SwitchIInv'
<1>1. /\ serverModel' = m /\ modelNews' = Append(modelNews, m)
      /\ UNCHANGED <<shownModel, version, override, switches, modelReads, listed, missed>>
  BY DEF SwitchedElsewhere
<1>2. modelNews' \in Seq(Models) /\ modelNews' # <<>> /\ modelNews'[Len(modelNews')] = m
  BY <1>1, NewsComes DEF SwitchIInv
<1> QED BY <1>1, <1>2 DEF SwitchIInv, SwitchTypes, SwitchOrder, SwitchTold

LEMMA SwitchTakenOK == ASSUME SwitchIInv, SwitchTaken PROVE SwitchIInv'
<1> DEFINE m == Head(switches).model
<1>1. /\ switches # <<>> /\ serverModel' = m /\ modelNews' = Append(modelNews, m)
      /\ switches' = [switches EXCEPT ![1].stage = "taken"]
      /\ UNCHANGED <<shownModel, version, override, modelReads, listed, missed>>
  BY DEF SwitchTaken
<1>2. m \in Models
  BY <1>1, SwitchSeqs DEF SwitchIInv, SwitchRecs
<1> HIDE DEF m
<1>3. modelNews' \in Seq(Models) /\ modelNews' # <<>> /\ modelNews'[Len(modelNews')] = m
  BY <1>1, <1>2, NewsComes DEF SwitchIInv
<1>4. /\ switches' \in Seq(SwitchRecs)
      /\ \A j \in 2 .. Len(switches') : switches'[j].stage = "queued"
  BY <1>1, SwitchesMove
<1> QED BY <1>1, <1>2, <1>3, <1>4 DEF SwitchIInv, SwitchTypes, SwitchOrder, SwitchTold

LEMMA ChangeModelOK == ASSUME SwitchIInv, NEW m \in Models, ChangeModel(m) PROVE SwitchIInv'
<1> DEFINE s == [model |-> m, stage |-> "queued"]
<1>1. /\ switches' = Append(switches, s)
      /\ UNCHANGED <<serverModel, shownModel, version, override, modelReads, modelNews, listed, missed>>
  BY DEF ChangeModel
<1>2. s \in SwitchRecs /\ s.stage = "queued"
  BY DEF SwitchRecs
<1>3. switches \in Seq(SwitchRecs) /\ Len(switches) \in Nat
      /\ (switches = <<>> <=> Len(switches) = 0)
  BY SwitchSeqs DEF SwitchIInv, SwitchTypes
<1>4. /\ switches' \in Seq(SwitchRecs) /\ Len(switches') = Len(switches) + 1
      /\ \A i \in 1 .. Len(switches) : switches'[i] = switches[i]
      /\ switches'[Len(switches) + 1] = s
  <2> HIDE DEF s, SwitchRecs
  <2> QED BY <1>1, <1>2, <1>3, AppendProperties
<1> HIDE DEF s
<1>5. \A j \in 2 .. Len(switches') :
        (j \in 1 .. Len(switches) /\ j \in 2 .. Len(switches)) \/ j = Len(switches) + 1
  BY <1>3, <1>4
<1>6. \A j \in 2 .. Len(switches') : switches'[j].stage = "queued"
  BY <1>2, <1>4, <1>5 DEF SwitchIInv, SwitchOrder
<1>7. switches'[1].stage = "taken" => switches # <<>> /\ switches[1].stage = "taken"
  <2>1. Len(switches) = 0 => switches'[1] = s
    BY <1>4
  <2>2. Len(switches) # 0 => 1 \in 1 .. Len(switches)
    BY <1>3
  <2> QED BY <1>2, <1>3, <1>4, <2>1, <2>2
<1> QED BY <1>1, <1>4, <1>6, <1>7 DEF SwitchIInv, SwitchTypes, SwitchOrder, SwitchTold

LEMMA SendSwitchOK == ASSUME SwitchIInv, SendSwitch PROVE SwitchIInv'
<1>1. /\ switches # <<>>
      /\ switches' = (IF listed THEN [switches EXCEPT ![1].stage = "sent"] ELSE Tail(switches))
      /\ UNCHANGED <<serverModel, shownModel, version, override, modelReads, modelNews, listed, missed>>
  BY DEF SendSwitch
<1>2. /\ switches' \in Seq(SwitchRecs)
      /\ \A j \in 2 .. Len(switches') : switches'[j].stage = "queued"
      /\ listed => switches'[1].stage = "sent"
  <2>1. CASE listed
    BY <1>1, <2>1, SwitchesMove
  <2>2. CASE ~listed
    <3>1. switches' = Tail(switches)
      BY <1>1, <2>2
    <3>2. switches' \in Seq(SwitchRecs) /\ \A j \in 1 .. Len(switches') : switches'[j].stage = "queued"
      BY <1>1, <3>1, SwitchesEnd
    <3>3. Len(switches') \in Nat
      BY <3>2, LenProperties
    <3> QED BY <2>2, <3>2, <3>3
  <2> QED BY <2>1, <2>2
<1> QED BY <1>1, <1>2 DEF SwitchIInv, SwitchTypes, SwitchOrder, SwitchTold

\* The switch in front ends, the next one has not been sent.
LEMMA NextIsQueued ==
  ASSUME SwitchIInv, switches # <<>>, switches' = Tail(switches)
  PROVE  /\ switches' \in Seq(SwitchRecs)
         /\ \A j \in 2 .. Len(switches') : switches'[j].stage = "queued"
         /\ switches' # <<>> => switches'[1].stage = "queued"
<1>1. switches' \in Seq(SwitchRecs) /\ \A j \in 1 .. Len(switches') : switches'[j].stage = "queued"
  BY SwitchesEnd
<1>2. Len(switches') \in Nat /\ (switches' # <<>> => Len(switches') # 0)
  BY <1>1, LenProperties, EmptySeq
<1> QED BY SMTT(30), <1>1, <1>2

LEMMA SwitchConfirmedOK == ASSUME SwitchIInv, SwitchConfirmed PROVE SwitchIInv'
<1> DEFINE m == Head(switches).model
<1>1. /\ switches # <<>> /\ Head(switches).stage = "taken" /\ switches' = Tail(switches)
      /\ UNCHANGED <<serverModel, modelReads, modelNews, listed>>
      /\ listed => /\ version' = version + 1 /\ override' = [model |-> m, fresh |-> TRUE]
                   /\ shownModel' = m /\ missed' = StillMissed(m)
      /\ ~listed => UNCHANGED <<version, override, shownModel, missed>>
  BY DEF SwitchConfirmed
<1>2. m \in Models
  BY <1>1, SwitchSeqs DEF SwitchIInv, SwitchRecs
<1>3. Head(switches) = switches[1]
  BY <1>1, SwitchSeqs DEF SwitchIInv
<1> HIDE DEF m
<1>4. /\ switches' \in Seq(SwitchRecs)
      /\ \A j \in 2 .. Len(switches') : switches'[j].stage = "queued"
      /\ switches' # <<>> => switches'[1].stage = "queued"
  BY <1>1, NextIsQueued
<1>5. CASE ~listed
  BY <1>1, <1>4, <1>5 DEF SwitchIInv, SwitchTypes, SwitchOrder, SwitchTold
<1>6. CASE listed
  <2>1. version' = version + 1 /\ override' = [model |-> m, fresh |-> TRUE] /\ shownModel' = m
    BY <1>1, <1>6
  <2>2. missed' \in BOOLEAN /\ (missed' \/ ~missed \/ m = serverModel)
    BY <1>1, <1>6 DEF StillMissed
  <2>3. /\ version' \in Nat /\ version < version'
        /\ override' \in [model : Models \cup {NoModel}, fresh : BOOLEAN]
        /\ override'.model = shownModel'
    BY <1>2, <2>1 DEF SwitchIInv, SwitchTypes
  <2>4. SwitchTypes'
    BY <1>1, <1>2, <1>4, <2>1, <2>2, <2>3 DEF SwitchIInv, SwitchTypes
  <2>5. \A i \in 1 .. Len(modelReads) : modelReads[i].at \in Nat /\ modelReads[i].at <= version
    BY <1>6, SwitchSeqs DEF SwitchIInv, SwitchOrder, ReadRecs
  <2>6. \A i \in 1 .. Len(modelReads) : modelReads[i].at <= version' /\ modelReads[i].at # version'
    BY <2>1, <2>5 DEF SwitchIInv, SwitchTypes
  <2>7. SwitchOrder'
    BY <1>1, <1>4, <2>3, <2>6 DEF SwitchIInv, SwitchOrder
  <2>8. ~missed => modelNews # <<>>
    BY <1>1, <1>3, <1>6 DEF SwitchIInv, SwitchTold
  <2>9. SwitchTold'
    BY <1>1, <1>4, <2>1, <2>2, <2>6, <2>8 DEF SwitchTold
  <2> QED BY <2>4, <2>7, <2>9 DEF SwitchIInv
<1> QED BY <1>5, <1>6 DEF SwitchIInv, SwitchTypes

LEMMA SwitchFailsOK == ASSUME SwitchIInv, SwitchFails PROVE SwitchIInv'
<1>1. /\ switches # <<>> /\ switches' = Tail(switches)
      /\ UNCHANGED <<serverModel, shownModel, version, override, modelReads, modelNews, listed, missed>>
  BY DEF SwitchFails
<1>2. /\ switches' \in Seq(SwitchRecs)
      /\ \A j \in 2 .. Len(switches') : switches'[j].stage = "queued"
      /\ switches' # <<>> => switches'[1].stage = "queued"
  BY <1>1, NextIsQueued
<1> QED BY <1>1, <1>2 DEF SwitchIInv, SwitchTypes, SwitchOrder, SwitchTold

LEMMA GraceOverOK == ASSUME SwitchIInv, GraceOver PROVE SwitchIInv'
<1>1. /\ override' = [override EXCEPT !.fresh = FALSE]
      /\ UNCHANGED <<serverModel, shownModel, version, switches, modelReads, modelNews, listed, missed>>
  BY DEF GraceOver
<1>2. override' \in [model : Models \cup {NoModel}, fresh : BOOLEAN] /\ ~override'.fresh
  BY <1>1 DEF SwitchIInv, SwitchTypes
<1> QED BY <1>1, <1>2 DEF SwitchIInv, SwitchTypes, SwitchOrder, SwitchTold

LEMMA ApplyOK == ASSUME SwitchIInv, ApplyServerModel PROVE SwitchIInv'
<1> DEFINE m == Head(modelNews)
<1>1. /\ modelNews # <<>> /\ modelNews' = Tail(modelNews)
      /\ UNCHANGED <<serverModel, switches, modelReads, listed>>
  BY DEF ApplyServerModel
<1>2. modelNews \in Seq(Models) /\ Len(modelNews) \in Nat /\ Len(modelNews) # 0
  BY <1>1, SwitchSeqs DEF SwitchIInv, SwitchTypes
<1>3. /\ m \in Models /\ modelNews' \in Seq(Models) /\ Len(modelNews') = Len(modelNews) - 1
      /\ \A i \in 1 .. Len(modelNews') : modelNews'[i] = modelNews[i + 1]
  BY <1>1, <1>2, HeadTailProperties
<1>4. m = modelNews[1]
  BY <1>1, <1>2
<1>5. modelNews[Len(modelNews)] = serverModel
  BY <1>1 DEF SwitchIInv, SwitchOrder
<1> HIDE DEF m
<1>6. modelNews' # <<>> => modelNews'[Len(modelNews')] = serverModel
  <2>1. modelNews' # <<>> => Len(modelNews') # 0
    BY <1>3, EmptySeq
  <2>2. modelNews' # <<>> => Len(modelNews') \in 1 .. Len(modelNews') /\ Len(modelNews') + 1 = Len(modelNews)
    BY <1>2, <1>3, <2>1
  <2> QED BY <1>3, <1>5, <2>2
<1>7. modelNews' = <<>> => m = serverModel
  <2>1. modelNews' = <<>> => Len(modelNews') = 0
    BY EmptySeq
  <2>2. modelNews' = <<>> => Len(modelNews) = 1
    BY <1>2, <1>3, <2>1
  <2> QED BY <1>4, <1>5, <2>2
<1>8. CASE listed /\ switches = <<>>
  <2>1. override' = NoOverride /\ version' = version + 1 /\ shownModel' = m /\ missed' = StillMissed(m)
    BY <1>8 DEF ApplyServerModel, m
  <2>2. missed' \in BOOLEAN
    BY <2>1 DEF StillMissed
  <2>3. /\ version' \in Nat /\ ~override'.fresh
        /\ override' \in [model : Models \cup {NoModel}, fresh : BOOLEAN]
    BY <2>1 DEF SwitchIInv, SwitchTypes, NoOverride
  <2>4. SwitchTypes'
    BY <1>1, <1>3, <2>1, <2>2, <2>3 DEF SwitchIInv, SwitchTypes
  <2>5. \A i \in 1 .. Len(modelReads) : modelReads[i].at \in Nat /\ modelReads[i].at <= version
    BY <1>8, SwitchSeqs DEF SwitchIInv, SwitchOrder, ReadRecs
  <2>6. \A i \in 1 .. Len(modelReads) : modelReads[i].at <= version' /\ modelReads[i].at # version'
    BY <2>1, <2>5 DEF SwitchIInv, SwitchTypes
  <2>7. SwitchOrder'
    BY <1>1, <1>6, <2>3, <2>6 DEF SwitchIInv, SwitchOrder
  <2>8. SwitchTold'
    BY <1>1, <1>7, <1>8, <2>1, <2>6 DEF SwitchTold
  <2> QED BY <2>4, <2>7, <2>8 DEF SwitchIInv
<1>9. CASE ~(listed /\ switches = <<>>)
  <2>1. missed' = TRUE /\ UNCHANGED <<override, version, shownModel>>
    BY <1>9 DEF ApplyServerModel
  <2> QED BY <1>1, <1>3, <1>6, <2>1 DEF SwitchIInv, SwitchTypes, SwitchOrder, SwitchTold
<1> QED BY <1>8, <1>9

LEMMA StartReadOK == ASSUME SwitchIInv, StartRead PROVE SwitchIInv'
<1> DEFINE r == [at |-> version, model |-> NoModel]
<1>1. /\ modelReads' = Append(modelReads, r)
      /\ UNCHANGED <<serverModel, shownModel, version, override, switches, modelNews, listed, missed>>
  BY DEF StartRead
<1>2. r \in ReadRecs /\ r.at = version /\ r.model = NoModel
  BY DEF SwitchIInv, SwitchTypes, ReadRecs
<1>3. modelReads \in Seq(ReadRecs) /\ Len(modelReads) \in Nat /\ version \in Nat
  BY SwitchSeqs DEF SwitchIInv, SwitchTypes
<1>4. /\ modelReads' \in Seq(ReadRecs) /\ Len(modelReads') = Len(modelReads) + 1
      /\ \A i \in 1 .. Len(modelReads) : modelReads'[i] = modelReads[i]
      /\ modelReads'[Len(modelReads) + 1] = r
  <2> HIDE DEF r, ReadRecs
  <2> QED BY <1>1, <1>2, <1>3, AppendProperties
<1> HIDE DEF r
<1>5. \A i \in 1 .. Len(modelReads') : i \in 1 .. Len(modelReads) \/ i = Len(modelReads) + 1
  BY <1>3, <1>4
<1>6. \A i \in 1 .. Len(modelReads') : modelReads'[i] = r
         \/ (i \in 1 .. Len(modelReads) /\ modelReads'[i] = modelReads[i])
  BY <1>4, <1>5
<1>7. version <= version
  BY <1>3
<1> QED BY <1>1, <1>2, <1>4, <1>6, <1>7 DEF SwitchIInv, SwitchTypes, SwitchOrder, SwitchTold

LEMMA ServerReadsSwitchOK ==
  ASSUME SwitchIInv, NEW i \in 1 .. Len(modelReads), ServerReads(i) PROVE SwitchIInv'
<1> DEFINE r == [modelReads[i] EXCEPT !.model = serverModel]
<1>1. /\ modelReads' = [modelReads EXCEPT ![i] = r]
      /\ UNCHANGED <<serverModel, shownModel, version, override, switches, modelNews, listed, missed>>
  BY DEF ServerReads
<1>2. modelReads \in Seq(ReadRecs) /\ modelReads[i] \in ReadRecs /\ serverModel \in Models
  BY SwitchSeqs DEF SwitchIInv, SwitchTypes
<1>3. r \in ReadRecs /\ r.at = modelReads[i].at /\ r.model = serverModel
  BY <1>2 DEF ReadRecs
<1>4. /\ modelReads' \in Seq(ReadRecs) /\ Len(modelReads') = Len(modelReads)
      /\ \A j \in 1 .. Len(modelReads) : modelReads'[j] = IF j = i THEN r ELSE modelReads[j]
  <2> HIDE DEF r, ReadRecs
  <2> QED BY <1>1, <1>2, <1>3, ExceptSeq
<1> HIDE DEF r
<1> QED BY <1>1, <1>3, <1>4 DEF SwitchIInv, SwitchTypes, SwitchOrder, SwitchTold

LEMMA ReadModelOK ==
  ASSUME SwitchIInv, NEW i \in 1 .. Len(modelReads), ReadModel(i) PROVE SwitchIInv'
<1> DEFINE read == modelReads[i]
           keeps == override.fresh /\ read.model # override.model
<1>1. /\ read.model # NoModel /\ modelReads' = DropRead(i)
      /\ UNCHANGED <<serverModel, version, switches, modelNews, listed>>
      /\ listed => /\ shownModel' = FromRead(read)
                   /\ override' = IF keeps THEN override ELSE NoOverride
      /\ ~listed => UNCHANGED <<shownModel, missed, override>>
  BY DEF ReadModel
<1>2. /\ modelReads' \in Seq(ReadRecs)
      /\ \A j \in 1 .. Len(modelReads') :
           \E k \in 1 .. Len(modelReads) : modelReads'[j] = modelReads[k]
  BY <1>1, SwitchDropOK DEF SwitchIInv
<1>3. read \in ReadRecs /\ read.model \in Models
  <2>1. read \in ReadRecs
    BY SwitchSeqs DEF SwitchIInv
  <2> QED BY <1>1, <2>1 DEF ReadRecs
<1>4. CASE ~listed
  <2>1. UNCHANGED <<shownModel, missed, override>>
    BY <1>1, <1>4
  <2> QED BY <1>1, <1>2, <1>4, <2>1 DEF SwitchIInv, SwitchTypes, SwitchOrder, SwitchTold
<1>5. CASE listed
  <2>1. missed' = (StillMissed(FromRead(read)) \/ (missed /\ DropRead(i) # <<>>))
    BY <1>5 DEF ReadModel
  <2>2. missed' \in BOOLEAN /\ (missed' \/ ~missed
           \/ (FromRead(read) = serverModel /\ switches' = <<>> /\ DropRead(i) = <<>>))
    BY <2>1 DEF StillMissed
  <2>3. /\ keeps => FromRead(read) = override.model /\ FromRead(read) = shownModel
        /\ ~keeps => FromRead(read) = shownModel \/ (FromRead(read) = read.model /\ version = read.at)
    BY DEF FromRead, SwitchIInv, SwitchOrder
  <2>4. FromRead(read) \in Models
    BY <1>3, <2>3 DEF SwitchIInv, SwitchTypes
  <2>5. /\ override' \in [model : Models \cup {NoModel}, fresh : BOOLEAN]
        /\ override'.fresh => keeps /\ override' = override
    <3>1. override' = IF keeps THEN override ELSE NoOverride
      BY <1>1, <1>5
    <3> HIDE DEF keeps
    <3> QED BY <3>1 DEF SwitchIInv, SwitchTypes, NoOverride
  <2> HIDE DEF keeps, read
  <2>6. SwitchTypes'
    BY <1>1, <1>2, <1>5, <2>2, <2>4, <2>5 DEF SwitchIInv, SwitchTypes
  <2>7. SwitchOrder'
    BY <1>1, <1>2, <1>5, <2>3, <2>5 DEF SwitchIInv, SwitchOrder
  <2>8. SwitchTold'
    <3>1. CASE ~missed
      <4>1. modelNews = <<>> => FromRead(read) = serverModel
        BY <1>1, <1>5, <2>3, <3>1 DEF SwitchIInv, SwitchTold, read
      <4> QED BY <1>1, <1>2, <1>5, <3>1, <4>1 DEF SwitchIInv, SwitchTold
    <3>2. CASE missed /\ ~missed'
      <4>1. FromRead(read) = serverModel /\ switches' = <<>> /\ modelReads' = <<>>
        BY <1>1, <2>2, <3>2
      <4>2. Len(modelReads') = 0
        BY <4>1, EmptySeq
      <4> QED BY <1>1, <1>5, <4>1, <4>2 DEF SwitchTold
    <3>3. CASE missed'
      BY <3>3 DEF SwitchTold
    <3> QED BY <3>1, <3>2, <3>3
  <2> QED BY <2>6, <2>7, <2>8 DEF SwitchIInv
<1> QED BY <1>4, <1>5

LEMMA ReadIgnoredOK ==
  ASSUME SwitchIInv, NEW i \in 1 .. Len(modelReads), ReadIgnored(i) PROVE SwitchIInv'
<1>1. /\ modelReads' = DropRead(i)
      /\ UNCHANGED <<serverModel, shownModel, version, override, switches, modelNews, listed, missed>>
  BY DEF ReadIgnored
<1>2. /\ modelReads' \in Seq(ReadRecs)
      /\ \A j \in 1 .. Len(modelReads') :
           \E k \in 1 .. Len(modelReads) : modelReads'[j] = modelReads[k]
  BY <1>1, SwitchDropOK DEF SwitchIInv
<1>3. SwitchTypes'
  BY <1>1, <1>2 DEF SwitchIInv, SwitchTypes
<1>4. SwitchOrder'
  BY <1>1, <1>2 DEF SwitchIInv, SwitchOrder
<1>5. SwitchTold'
  BY <1>1, <1>2 DEF SwitchIInv, SwitchTold
<1> QED BY <1>3, <1>4, <1>5 DEF SwitchIInv

LEMMA ForgetModelOK == ASSUME SwitchIInv, ForgetModel PROVE SwitchIInv'
<1>1. /\ listed' = FALSE /\ version' = 0 /\ override' = NoOverride
      /\ UNCHANGED <<serverModel, shownModel, switches, modelReads, modelNews, missed>>
  BY DEF ForgetModel
<1>2. override' \in [model : Models \cup {NoModel}, fresh : BOOLEAN] /\ ~override'.fresh
  BY <1>1 DEF NoOverride
<1> QED BY <1>1, <1>2 DEF SwitchIInv, SwitchTypes, SwitchOrder, SwitchTold

LEMMA SwitchStepOK == ASSUME SwitchIInv, [SwitchNext]_switchVars PROVE SwitchIInv'
<1>1. CASE UNCHANGED switchVars
  BY <1>1 DEF switchVars, SwitchIInv, SwitchTypes, SwitchOrder, SwitchTold
<1>2. DOMAIN modelReads = 1 .. Len(modelReads)
  BY SwitchSeqs DEF SwitchIInv
<1>3. ASSUME NEW m \in Models, SwitchedElsewhere(m) \/ ChangeModel(m) PROVE SwitchIInv'
  BY <1>3, ElsewhereOK, ChangeModelOK
<1>4. ASSUME NEW i \in DOMAIN modelReads, ServerReads(i) \/ ReadModel(i) \/ ReadIgnored(i)
      PROVE  SwitchIInv'
  BY <1>2, <1>4, ServerReadsSwitchOK, ReadModelOK, ReadIgnoredOK
<1> QED BY <1>1, <1>3, <1>4, SwitchTakenOK, SendSwitchOK, SwitchConfirmedOK, SwitchFailsOK,
           GraceOverOK, ApplyOK, StartReadOK, ForgetModelOK DEF SwitchNext

\* The page ends with the model the chat really has (sessionModelFromRead,
\* applyServerModel, changeModel).
THEOREM ModelIsShown == SwitchSpec => []PanelFollowsServer
<1>1. SwitchInit => SwitchIInv
  BY SwitchInitOK
<1>2. SwitchIInv /\ [SwitchNext]_switchVars => SwitchIInv'
  BY SwitchStepOK
<1>3. SwitchIInv => PanelFollowsServer
  BY DEF SwitchIInv, SwitchTold, PanelFollowsServer
<1> QED BY <1>1, <1>2, <1>3, PTL DEF SwitchSpec

-----------------------------------------------------------------------------
(* A pick of the model list.  A chat that is not torn has at most one pick, *)
(* the one the page waits for, and the pick knows a model that goes with    *)
(* the agent the server has.                                                *)

PickRecs == [token : Nat, chat : PickChats, profile : Profiles,
             stage : {"model", "agent", "back"}, previous : Profiles]
AgentCallRecs == [chat : PickChats, agent : PageAgents, previous : PageAgents]

PickTypes ==
  /\ openChat \in PickChats /\ picks \in Nat /\ held \in BOOLEAN
  /\ chatModel \in [PickChats -> Profiles] /\ chatAgent \in [PickChats -> PageAgents]
  /\ shownAgent \in [PickChats -> PageAgents]
  /\ choosing \subseteq PickRecs /\ agentCalls \subseteq AgentCallRecs
PickOrder ==
  /\ \A p \in choosing : p.token \in 1 .. picks
  /\ \A p, q \in choosing : p.token = q.token => p = q
  /\ held <=> modelTransition # 0
  /\ held => \E p \in choosing : p.token = modelTransition /\ p.chat = openChat
  /\ \A p \in choosing : p.chat \in tornChats \/ Valid(p)
CallOrder == \A call, other \in agentCalls : call.chat = other.chat => call = other
ChatWhole(c) ==
  /\ \A p \in choosing : p.chat = c =>
       /\ p.stage = "model" => p.previous = chatModel[c]
       /\ Fits(p.previous, chatAgent[c])
       /\ p.stage = "agent" => AgentPending(c)
       /\ \A call \in agentCalls : call.chat = c =>
            /\ p.stage = "agent" => Fits(chatModel[c], call.agent)
            /\ p.stage # "agent" => Fits(p.previous, call.agent)
  /\ (\A p \in choosing : p.chat # c) =>
       /\ Fits(chatModel[c], chatAgent[c])
       /\ \A call \in agentCalls : call.chat = c => Fits(chatModel[c], call.agent)
  /\ \A call \in agentCalls : call.chat = c =>
       call.previous = chatAgent[c] /\ shownAgent[c] = call.agent
  /\ openChat = c /\ ~AgentPending(c) => shownAgent[c] = chatAgent[c]
TransitionIInv ==
  /\ PickTypes /\ PickOrder /\ CallOrder
  /\ \A c \in PickChats \ tornChats : ChatWhole(c)

LEMMA TransitionInitOK == TransitionInit => TransitionIInv
<1> SUFFICES ASSUME TransitionInit PROVE TransitionIInv
  OBVIOUS
<1>1. openChat \in PickChats
  BY TransitionAssumption DEF TransitionInit
<1>2. PickTypes
  BY <1>1 DEF TransitionInit, PickTypes, Profiles, PageAgents
<1>3. \A c \in PickChats : chatModel[c] = "direct" /\ chatAgent[c] = "build" /\ shownAgent[c] = "build"
  BY DEF TransitionInit
<1>4. choosing = {} /\ agentCalls = {} /\ held = FALSE /\ modelTransition = 0
  BY DEF TransitionInit
<1>5. PickOrder /\ CallOrder
  BY <1>4 DEF PickOrder, CallOrder
<1>6. \A c \in PickChats \ tornChats : ChatWhole(c)
  BY <1>3, <1>4 DEF ChatWhole, Fits, AgentPending
<1> QED BY <1>2, <1>5, <1>6 DEF TransitionIInv

-----------------------------------------------------------------------------
\* Nothing happens to a chat.
LEMMA OtherChat ==
  ASSUME NEW c, ChatWhole(c),
         \A p \in choosing \cup choosing' : p.chat = c => p \in choosing /\ p \in choosing',
         \A call \in agentCalls \cup agentCalls' :
           call.chat = c => call \in agentCalls /\ call \in agentCalls',
         chatModel'[c] = chatModel[c], chatAgent'[c] = chatAgent[c],
         shownAgent'[c] = shownAgent[c], openChat' = c => openChat = c
  PROVE  ChatWhole(c)'
<1>1. \A p \in choosing' : p.chat = c => p \in choosing
  OBVIOUS
<1>2. \A p \in choosing : p.chat = c => p \in choosing'
  OBVIOUS
<1>3. \A call \in agentCalls' : call.chat = c => call \in agentCalls
  OBVIOUS
<1>4. \A call \in agentCalls : call.chat = c => call \in agentCalls'
  OBVIOUS
<1>5. AgentPending(c)' <=> AgentPending(c)
  BY <1>3, <1>4 DEF AgentPending
<1> QED BY <1>1, <1>2, <1>3, <1>5 DEF ChatWhole, Fits

LEMMA OnePick ==
  ASSUME TransitionIInv, NEW c \in PickChats \ tornChats, NEW p \in choosing, p.chat = c
  PROVE  c = openChat /\ Valid(p) /\ \A q \in choosing : q.chat = c => q = p
BY DEF TransitionIInv, PickOrder, Valid

\* What the order of the picks needs of a step.
LEMMA SameOrder ==
  ASSUME PickOrder, UNCHANGED <<choosing, openChat, picks>>, KeepWaiting,
         tornChats \subseteq tornChats'
  PROVE  PickOrder'
BY DEF PickOrder, KeepWaiting, Valid

LEMMA EndOrder ==
  ASSUME PickTypes, PickOrder, NEW pick \in choosing, NEW profile,
         EndModelTransition(pick, profile),
         UNCHANGED <<openChat, picks>>, tornChats \subseteq tornChats'
  PROVE  PickOrder' /\ choosing' = choosing \ {pick} /\ held' \in BOOLEAN
<1>1. choosing' = choosing \ {pick}
  BY DEF EndModelTransition
<1>2. CASE modelTransition = pick.token
  <2>1. modelTransition' = 0 /\ held' = FALSE
    BY <1>2 DEF EndModelTransition, ReleasePick
  <2>2. \A p \in choosing' : p.chat \in tornChats
    BY <1>1, <1>2 DEF PickOrder, Valid
  <2> QED BY <1>1, <2>1, <2>2 DEF PickOrder
<1>3. CASE modelTransition # pick.token
  <2>1. modelTransition' = modelTransition /\ held' = held
    BY <1>3 DEF EndModelTransition, KeepWaiting
  <2> QED BY <1>1, <1>3, <2>1 DEF PickOrder, Valid, PickTypes
<1> QED BY <1>2, <1>3

LEMMA AbandonOrder ==
  ASSUME PickTypes, PickOrder, NEW pick \in choosing, Abandon(pick), ~Valid(pick),
         UNCHANGED <<openChat, picks>>, tornChats \subseteq tornChats'
  PROVE  PickOrder' /\ choosing' = choosing \ {pick} /\ held' \in BOOLEAN
BY DEF PickOrder, Abandon, KeepWaiting, Valid, PickTypes

LEMMA StageOrder ==
  ASSUME PickTypes, PickOrder, NEW pick \in choosing, NEW to \in {"model", "agent", "back"},
         choosing' = (choosing \ {pick}) \cup {[pick EXCEPT !.stage = to]}, KeepWaiting,
         UNCHANGED <<openChat, picks>>, tornChats \subseteq tornChats'
  PROVE  PickOrder' /\ choosing' \subseteq PickRecs /\ held' \in BOOLEAN
<1> DEFINE next == [pick EXCEPT !.stage = to]
<1>1. next \in PickRecs /\ next.token = pick.token /\ next.chat = pick.chat
  BY DEF PickTypes, PickRecs
<1> HIDE DEF next
<1>2. choosing' = (choosing \ {pick}) \cup {next}
  BY DEF next
<1>3. held' = held /\ modelTransition' = modelTransition
  BY DEF KeepWaiting
<1>4. choosing' \subseteq PickRecs
  BY <1>1, <1>2 DEF PickTypes
<1>5. \A p \in choosing' : p.token \in 1 .. picks
  BY <1>1, <1>2 DEF PickOrder
<1>6. \A p, q \in choosing' : p.token = q.token => p = q
  BY <1>1, <1>2 DEF PickOrder
<1>7. held => \E p \in choosing' : p.token = modelTransition /\ p.chat = openChat
  BY <1>1, <1>2 DEF PickOrder
<1>8. \A p \in choosing' : p.chat \in tornChats \/ Valid(p)
  BY <1>1, <1>2 DEF PickOrder, Valid
<1> QED BY <1>3, <1>4, <1>5, <1>6, <1>7, <1>8 DEF PickOrder, Valid, PickTypes

-----------------------------------------------------------------------------
LEMMA ChooseOK ==
  ASSUME TransitionIInv, NEW profile \in Profiles, ChooseModelHere(profile)
  PROVE  TransitionIInv'
<1> DEFINE new == [token |-> picks + 1, chat |-> openChat, profile |-> profile,
                   stage |-> "model", previous |-> chatModel[openChat]]
<1>1. /\ modelTransition = 0 /\ picks' = picks + 1 /\ modelTransition' = picks + 1 /\ held' = TRUE
      /\ choosing' = choosing \cup {new}
      /\ UNCHANGED <<openChat, chatModel, chatAgent, shownAgent, agentCalls, tornChats>>
  BY DEF ChooseModelHere
<1>2. /\ new \in PickRecs /\ new.token = picks + 1 /\ new.chat = openChat /\ new.stage = "model"
      /\ new.previous = chatModel[openChat]
  BY DEF TransitionIInv, PickTypes, PickRecs
<1> HIDE DEF new
<1>3. PickTypes' /\ picks \in Nat
  BY <1>1, <1>2 DEF TransitionIInv, PickTypes
<1>4. \A p \in choosing : p.token \in 1 .. picks /\ p.token # 0 /\ p.token # picks + 1
                          /\ p.chat \in tornChats
  BY <1>1, <1>3 DEF TransitionIInv, PickOrder, Valid
<1>5. PickOrder'
  <2>1. \A p \in choosing' : p.token \in 1 .. picks'
    BY <1>1, <1>2, <1>3, <1>4
  <2>2. \A p, q \in choosing' : p.token = q.token => p = q
    BY <1>1, <1>2, <1>4 DEF TransitionIInv, PickOrder
  <2>3. modelTransition' # 0
    BY <1>1, <1>3
  <2>4. new \in choosing' /\ new.token = modelTransition' /\ new.chat = openChat'
    BY <1>1, <1>2
  <2>5. \A p \in choosing' : p.chat \in tornChats' \/ Valid(p)'
    BY <1>1, <1>2, <1>4 DEF Valid
  <2> QED BY <1>1, <2>1, <2>2, <2>3, <2>4, <2>5 DEF PickOrder
<1>6. CallOrder'
  BY <1>1 DEF TransitionIInv, CallOrder
<1>7. ASSUME NEW c \in PickChats \ tornChats' PROVE ChatWhole(c)'
  <2>1. ChatWhole(c) /\ c \notin tornChats
    BY <1>1, <1>7 DEF TransitionIInv
  <2>2. \A p \in choosing : p.chat # c
    BY <1>4, <2>1
  <2>3. AgentPending(c)' <=> AgentPending(c)
    BY <1>1 DEF AgentPending
  <2>4. \A p \in choosing' : p.chat = c => p = new /\ c = openChat
    BY <1>1, <1>2, <2>2
  <2> QED BY <1>1, <1>2, <2>1, <2>2, <2>3, <2>4 DEF ChatWhole
<1> QED BY <1>3, <1>5, <1>6, <1>7 DEF TransitionIInv

LEMMA AgentAfterFits ==
  ASSUME NEW agent \in PageAgents, NEW profile \in Profiles
  PROVE  /\ AgentAfterModelPick(agent, profile) \in PageAgents
         /\ Fits(profile, AgentAfterModelPick(agent, profile))
BY DEF AgentAfterModelPick, PageAgents, Profiles, Fits

\* A pick ends in a chat that is then whole; the others have not changed.
LEMMA PickIsOver ==
  ASSUME TransitionIInv, NEW pick \in choosing, choosing' = choosing \ {pick},
         UNCHANGED <<openChat, agentCalls, chatAgent, shownAgent>>,
         chatModel' \in [PickChats -> Profiles],
         \A c \in PickChats \ {pick.chat} : chatModel'[c] = chatModel[c],
         tornChats \subseteq tornChats',
         pick.chat \notin tornChats' =>
           /\ Fits(chatModel'[pick.chat], chatAgent[pick.chat])
           /\ \A call \in agentCalls :
                call.chat = pick.chat => Fits(chatModel'[pick.chat], call.agent)
  PROVE  \A c \in PickChats \ tornChats' : ChatWhole(c)'
<1> SUFFICES ASSUME NEW c \in PickChats \ tornChats' PROVE ChatWhole(c)'
  OBVIOUS
<1>1. ChatWhole(c) /\ c \in PickChats \ tornChats
  BY DEF TransitionIInv
<1>2. CASE c # pick.chat
  <2>1. \A p \in choosing \cup choosing' : p.chat = c => p \in choosing /\ p \in choosing'
    BY <1>2
  <2> QED BY <1>1, <1>2, <2>1, OtherChat
<1>3. CASE c = pick.chat
  <2>1. \A p \in choosing' : p.chat # c
    BY <1>1, <1>3, OnePick
  <2>2. AgentPending(c)' <=> AgentPending(c)
    BY DEF AgentPending
  <2> QED BY <1>1, <1>3, <2>1, <2>2 DEF ChatWhole, Fits
<1> QED BY <1>2, <1>3

LEMMA ModelTakenOK ==
  ASSUME TransitionIInv, NEW pick \in choosing, ModelTaken(pick)
  PROVE  TransitionIInv'
<1> DEFINE its == pick.chat
           agent == AgentAfterModelPick(shownAgent[openChat], pick.profile)
<1>1. /\ pick.stage = "model" /\ chatModel' = [chatModel EXCEPT ![pick.chat] = pick.profile]
      /\ UNCHANGED <<openChat, chatAgent, picks, tornChats>>
  BY DEF ModelTaken, At
<1>2. pick \in PickRecs /\ its \in PickChats /\ pick.profile \in Profiles
      /\ pick.previous \in Profiles
  BY DEF TransitionIInv, PickTypes, PickRecs
<1>3. /\ PickTypes /\ PickOrder /\ CallOrder
  BY DEF TransitionIInv
<1>4. /\ chatModel' \in [PickChats -> Profiles] /\ chatModel'[its] = pick.profile
      /\ \A c \in PickChats \ {its} : chatModel'[c] = chatModel[c]
  BY <1>1, <1>2, <1>3 DEF PickTypes
<1>5. shownAgent[openChat] \in PageAgents
  BY <1>3 DEF PickTypes
<1>6. agent \in PageAgents /\ Fits(pick.profile, agent)
  BY <1>2, <1>5, AgentAfterFits
<1>7. tornChats \subseteq tornChats'
  BY <1>1
<1>8. CASE ~Valid(pick)
  <2>1. Abandon(pick) /\ UNCHANGED <<shownAgent, agentCalls>>
    BY <1>8 DEF ModelTaken
  <2>2. PickOrder' /\ choosing' = choosing \ {pick} /\ held' \in BOOLEAN
    BY <1>1, <1>3, <1>7, <1>8, <2>1, AbandonOrder
  <2>3. PickTypes' /\ CallOrder'
    BY <1>1, <1>3, <1>4, <2>1, <2>2 DEF PickTypes, CallOrder
  <2>4. its \in tornChats
    BY <1>3, <1>8 DEF PickOrder
  <2>5. \A c \in PickChats \ tornChats' : ChatWhole(c)'
    BY <1>1, <1>4, <1>7, <2>1, <2>2, <2>4, PickIsOver
  <2> QED BY <2>2, <2>3, <2>5 DEF TransitionIInv
<1>9. CASE Valid(pick) /\ agent = shownAgent[openChat]
  <2>1. EndModelTransition(pick, pick.profile) /\ UNCHANGED <<shownAgent, agentCalls>>
    BY <1>9 DEF ModelTaken, AgentStep
  <2>2. PickOrder' /\ choosing' = choosing \ {pick} /\ held' \in BOOLEAN
    BY <1>1, <1>3, <1>7, <2>1, EndOrder
  <2>3. PickTypes' /\ CallOrder'
    BY <1>1, <1>3, <1>4, <2>1, <2>2 DEF PickTypes, CallOrder
  <2>4. its = openChat
    BY <1>9 DEF Valid
  <2>5. ASSUME its \notin tornChats
        PROVE  /\ Fits(pick.profile, chatAgent[its])
               /\ \A call \in agentCalls : call.chat = its => Fits(pick.profile, call.agent)
    <3>1. ChatWhole(its)
      BY <1>2, <2>5 DEF TransitionIInv
    <3>2. Fits(pick.profile, shownAgent[its])
      BY <1>6, <1>9, <2>4
    <3>3. CASE ~AgentPending(its)
      BY <2>4, <3>1, <3>2, <3>3 DEF ChatWhole, AgentPending
    <3>4. CASE AgentPending(its)
      <4>1. PICK call \in agentCalls : call.chat = its
        BY <3>4 DEF AgentPending
      <4>2. shownAgent[its] = call.agent /\ Fits(pick.previous, call.agent)
            /\ Fits(pick.previous, chatAgent[its])
        BY <1>1, <3>1, <4>1 DEF ChatWhole
      <4>3. Fits(pick.profile, chatAgent[its])
        BY <1>2, <3>2, <4>2 DEF Fits, Profiles
      <4> QED BY <3>1, <3>2, <4>3 DEF ChatWhole
    <3> QED BY <3>3, <3>4
  <2>6. \A c \in PickChats \ tornChats' : ChatWhole(c)'
    BY <1>1, <1>4, <1>7, <2>1, <2>2, <2>5, PickIsOver
  <2> QED BY <2>2, <2>3, <2>6 DEF TransitionIInv
<1>10. CASE Valid(pick) /\ agent # shownAgent[openChat] /\ AgentPending(openChat)
  <2> DEFINE next == [pick EXCEPT !.stage = "back"]
  <2>1. /\ KeepWaiting /\ choosing' = (choosing \ {pick}) \cup {[pick EXCEPT !.stage = "back"]}
        /\ UNCHANGED <<shownAgent, agentCalls>>
    BY <1>10 DEF ModelTaken, AgentStep
  <2>2. PickOrder' /\ choosing' \subseteq PickRecs /\ held' \in BOOLEAN
    BY <1>1, <1>3, <1>7, <2>1, StageOrder
  <2>3. PickTypes' /\ CallOrder'
    BY <1>1, <1>3, <1>4, <2>1, <2>2 DEF PickTypes, CallOrder
  <2>4. next.stage = "back" /\ next.chat = its /\ next.previous = pick.previous
    BY <1>2 DEF PickRecs
  <2>5. choosing' = (choosing \ {pick}) \cup {next}
    BY <2>1
  <2> HIDE DEF next
  <2>6. ASSUME NEW c \in PickChats \ tornChats' PROVE ChatWhole(c)'
    <3>1. ChatWhole(c) /\ c \in PickChats \ tornChats
      BY <1>1, <2>6 DEF TransitionIInv
    <3>2. CASE c # its
      <4>1. \A p \in choosing \cup choosing' : p.chat = c => p \in choosing /\ p \in choosing'
        BY <2>4, <2>5, <3>2
      <4> QED BY <1>1, <1>4, <2>1, <3>1, <3>2, <4>1, OtherChat
    <3>3. CASE c = its
      <4>1. \A p \in choosing' : p.chat = c => p = next
        BY <2>4, <2>5, <3>1, <3>3, OnePick
      <4>2. next \in choosing' /\ next.chat = c
        BY <2>4, <2>5, <3>3
      <4>3. AgentPending(c)' <=> AgentPending(c)
        BY <2>1 DEF AgentPending
      <4> QED BY <1>1, <2>1, <2>4, <3>1, <3>3, <4>1, <4>2, <4>3 DEF ChatWhole
    <3> QED BY <3>2, <3>3
  <2> QED BY <2>2, <2>3, <2>6 DEF TransitionIInv
<1>11. CASE Valid(pick) /\ agent # shownAgent[openChat] /\ ~AgentPending(openChat)
  <2> DEFINE next == [pick EXCEPT !.stage = "agent"]
             new == [chat |-> openChat, agent |-> agent, previous |-> shownAgent[openChat]]
  <2>1. /\ KeepWaiting /\ choosing' = (choosing \ {pick}) \cup {[pick EXCEPT !.stage = "agent"]}
        /\ agentCalls' = agentCalls \cup {new}
        /\ shownAgent' = [shownAgent EXCEPT ![openChat] = agent]
    BY <1>11 DEF ModelTaken, AgentStep, StartAgentCall
  <2>2. PickOrder' /\ choosing' \subseteq PickRecs /\ held' \in BOOLEAN
    BY <1>1, <1>3, <1>7, <2>1, StageOrder
  <2> HIDE DEF agent
  <2>3. new \in AgentCallRecs /\ new.chat = openChat /\ new.agent = agent
        /\ new.previous = shownAgent[openChat]
    BY <1>3, <1>5, <1>6 DEF AgentCallRecs, PickTypes
  <2>4. next.stage = "agent" /\ next.chat = its /\ next.previous = pick.previous
    BY <1>2 DEF PickRecs
  <2>5. choosing' = (choosing \ {pick}) \cup {next}
    BY <2>1
  <2> HIDE DEF next, new
  <2>6. \A call \in agentCalls : call.chat # openChat
    BY <1>11 DEF AgentPending
  <2>7. /\ shownAgent' \in [PickChats -> PageAgents] /\ shownAgent'[openChat] = agent
        /\ \A c \in PickChats \ {openChat} : shownAgent'[c] = shownAgent[c]
    BY <1>3, <1>6, <2>1 DEF PickTypes
  <2>8. PickTypes' /\ CallOrder'
    BY <1>1, <1>3, <1>4, <2>1, <2>2, <2>3, <2>6, <2>7 DEF PickTypes, CallOrder
  <2>9. its = openChat
    BY <1>11 DEF Valid
  <2>10. ASSUME NEW c \in PickChats \ tornChats' PROVE ChatWhole(c)'
    <3>1. ChatWhole(c) /\ c \in PickChats \ tornChats
      BY <1>1, <2>10 DEF TransitionIInv
    <3>2. CASE c # its
      <4>1. \A p \in choosing \cup choosing' : p.chat = c => p \in choosing /\ p \in choosing'
        BY <2>4, <2>5, <3>2
      <4>2. \A call \in agentCalls \cup agentCalls' :
              call.chat = c => call \in agentCalls /\ call \in agentCalls'
        BY <2>1, <2>3, <2>9, <3>2
      <4>3. shownAgent'[c] = shownAgent[c]
        BY <2>7, <2>9, <3>2
      <4> QED BY <1>1, <1>4, <3>1, <3>2, <4>1, <4>2, <4>3, OtherChat
    <3>3. CASE c = its
      <4>1. \A p \in choosing' : p.chat = c => p = next
        BY <2>4, <2>5, <3>1, <3>3, OnePick
      <4>2. next \in choosing' /\ next.chat = c
        BY <2>4, <2>5, <3>3
      <4>3. \A call \in agentCalls' : call.chat = c => call = new
        BY <2>1, <2>6, <2>9, <3>3
      <4>4. AgentPending(c)'
        BY <2>1, <2>3, <2>9, <3>3 DEF AgentPending
      <4>5. Fits(pick.previous, chatAgent[c]) /\ shownAgent[c] = chatAgent[c]
        BY <1>11, <2>9, <3>1, <3>3 DEF ChatWhole
      <4>6. Fits(chatModel'[c], agent)
        BY <1>4, <1>6, <3>3
      <4> QED BY <1>1, <2>3, <2>4, <2>7, <2>9, <3>3, <4>1, <4>2, <4>3, <4>4, <4>5, <4>6
              DEF ChatWhole
    <3> QED BY <3>2, <3>3
  <2> QED BY <2>2, <2>8, <2>10 DEF TransitionIInv
<1> QED BY <1>8, <1>9, <1>10, <1>11

LEMMA ModelFailsOK ==
  ASSUME TransitionIInv, NEW pick \in choosing, NEW reached \in BOOLEAN, ModelFails(pick, reached)
  PROVE  TransitionIInv'
<1>1. /\ pick.stage = "model" /\ EndModelTransition(pick, pick.previous)
      /\ chatModel' = [chatModel EXCEPT ![pick.chat] = IF reached THEN pick.profile ELSE @]
      /\ tornChats' = IF reached THEN tornChats \cup {pick.chat} ELSE tornChats
      /\ UNCHANGED <<openChat, chatAgent, shownAgent, agentCalls, picks>>
  BY DEF ModelFails, At
<1>2. pick.chat \in PickChats /\ pick.profile \in Profiles
  BY DEF TransitionIInv, PickTypes, PickRecs
<1>3. PickTypes /\ PickOrder /\ CallOrder /\ tornChats \subseteq tornChats'
  BY <1>1 DEF TransitionIInv
<1>4. PickOrder' /\ choosing' = choosing \ {pick} /\ held' \in BOOLEAN
  BY <1>1, <1>3, EndOrder
<1>5. /\ chatModel' \in [PickChats -> Profiles]
      /\ \A c \in PickChats \ {pick.chat} : chatModel'[c] = chatModel[c]
      /\ ~reached => chatModel'[pick.chat] = chatModel[pick.chat]
  BY <1>1, <1>2, <1>3 DEF PickTypes
<1>6. PickTypes' /\ CallOrder'
  BY <1>1, <1>3, <1>4, <1>5 DEF PickTypes, CallOrder
<1>7. ASSUME pick.chat \notin tornChats'
      PROVE  /\ Fits(chatModel'[pick.chat], chatAgent[pick.chat])
             /\ \A call \in agentCalls :
                  call.chat = pick.chat => Fits(chatModel'[pick.chat], call.agent)
  <2>1. ~reached /\ ChatWhole(pick.chat)
    BY <1>1, <1>2, <1>3, <1>7 DEF TransitionIInv
  <2>2. chatModel'[pick.chat] = pick.previous
    BY <1>1, <1>5, <2>1 DEF ChatWhole
  <2> QED BY <1>1, <2>1, <2>2 DEF ChatWhole
<1>8. \A c \in PickChats \ tornChats' : ChatWhole(c)'
  BY <1>1, <1>3, <1>4, <1>5, <1>7, PickIsOver
<1> QED BY <1>4, <1>6, <1>8 DEF TransitionIInv

LEMMA PickPutBackOK ==
  ASSUME TransitionIInv, NEW pick \in choosing, NEW reached \in BOOLEAN, ModelPutBack(pick, reached)
  PROVE  TransitionIInv'
<1>1. /\ pick.stage = "back" /\ EndModelTransition(pick, pick.previous)
      /\ chatModel' = [chatModel EXCEPT ![pick.chat] = IF reached THEN pick.previous ELSE @]
      /\ tornChats' = IF reached THEN tornChats ELSE tornChats \cup {pick.chat}
      /\ UNCHANGED <<openChat, chatAgent, shownAgent, agentCalls, picks>>
  BY DEF ModelPutBack, At
<1>2. pick.chat \in PickChats /\ pick.previous \in Profiles
  BY DEF TransitionIInv, PickTypes, PickRecs
<1>3. PickTypes /\ PickOrder /\ CallOrder /\ tornChats \subseteq tornChats'
  BY <1>1 DEF TransitionIInv
<1>4. PickOrder' /\ choosing' = choosing \ {pick} /\ held' \in BOOLEAN
  BY <1>1, <1>3, EndOrder
<1>5. /\ chatModel' \in [PickChats -> Profiles]
      /\ \A c \in PickChats \ {pick.chat} : chatModel'[c] = chatModel[c]
      /\ reached => chatModel'[pick.chat] = pick.previous
  BY <1>1, <1>2, <1>3 DEF PickTypes
<1>6. PickTypes' /\ CallOrder'
  BY <1>1, <1>3, <1>4, <1>5 DEF PickTypes, CallOrder
<1>7. ASSUME pick.chat \notin tornChats'
      PROVE  /\ Fits(chatModel'[pick.chat], chatAgent[pick.chat])
             /\ \A call \in agentCalls :
                  call.chat = pick.chat => Fits(chatModel'[pick.chat], call.agent)
  <2>1. reached /\ ChatWhole(pick.chat)
    BY <1>1, <1>2, <1>3, <1>7 DEF TransitionIInv
  <2> QED BY <1>1, <1>5, <2>1 DEF ChatWhole
<1>8. \A c \in PickChats \ tornChats' : ChatWhole(c)'
  BY <1>1, <1>3, <1>4, <1>5, <1>7, PickIsOver
<1> QED BY <1>4, <1>6, <1>8 DEF TransitionIInv

LEMMA AgentTakenOK ==
  ASSUME TransitionIInv, NEW call \in agentCalls, AgentTaken(call)
  PROVE  TransitionIInv'
<1> DEFINE its == call.chat
<1>1. /\ agentCalls' = agentCalls \ {call}
      /\ chatAgent' = [chatAgent EXCEPT ![call.chat] = call.agent]
      /\ UNCHANGED <<openChat, chatModel, shownAgent, picks, tornChats>>
  BY DEF AgentTaken
<1>2. its \in PickChats /\ call.agent \in PageAgents
  BY DEF TransitionIInv, PickTypes, AgentCallRecs
<1>3. PickTypes /\ PickOrder /\ CallOrder
  BY DEF TransitionIInv
<1>4. /\ chatAgent' \in [PickChats -> PageAgents] /\ chatAgent'[its] = call.agent
      /\ \A c \in PickChats \ {its} : chatAgent'[c] = chatAgent[c]
  BY <1>1, <1>2, <1>3 DEF PickTypes
<1>5. \A other \in agentCalls' : other.chat # its
  BY <1>1, <1>3 DEF CallOrder
<1>6. ~AgentPending(its)'
  BY <1>5 DEF AgentPending
<1>7. \/ WaitingCalls(call) = {} /\ choosing' = choosing /\ KeepWaiting
      \/ \E pick \in WaitingCalls(call) : EndModelTransition(pick, pick.profile)
  BY DEF AgentTaken
<1>8. ASSUME PickOrder', choosing' \subseteq choosing, held' \in BOOLEAN,
             \A p \in choosing \ choosing' : p.chat = its,
             its \notin tornChats => \A p \in choosing' : p.chat = its => p.stage # "agent"
      PROVE  TransitionIInv'
  <2>1. PickTypes' /\ CallOrder'
    BY <1>1, <1>3, <1>4, <1>8 DEF PickTypes, CallOrder
  <2>2. ASSUME NEW c \in PickChats \ tornChats' PROVE ChatWhole(c)'
    <3>1. ChatWhole(c) /\ c \in PickChats \ tornChats
      BY <1>1, <2>2 DEF TransitionIInv
    <3>2. CASE c # its
      <4>1. \A p \in choosing \cup choosing' : p.chat = c => p \in choosing /\ p \in choosing'
        BY <1>8, <3>2
      <4>2. \A other \in agentCalls \cup agentCalls' :
              other.chat = c => other \in agentCalls /\ other \in agentCalls'
        BY <1>1, <3>2
      <4> QED BY <1>1, <1>4, <3>1, <3>2, <4>1, <4>2, OtherChat
    <3>3. CASE c = its
      <4>1. shownAgent[c] = call.agent
        BY <3>1, <3>3 DEF ChatWhole
      <4>2. CASE \E p \in choosing' : p.chat = c
        <5>1. PICK p \in choosing' : p.chat = c
          BY <4>2
        <5>2. p \in choosing /\ p.stage # "agent" /\ \A q \in choosing' : q.chat = c => q = p
          BY <1>8, <3>1, <3>3, <5>1, OnePick
        <5>3. p.stage = "model" => p.previous = chatModel[c]
          BY <3>1, <5>1, <5>2 DEF ChatWhole
        <5>4. Fits(p.previous, call.agent)
          BY <3>1, <3>3, <5>1, <5>2 DEF ChatWhole
        <5> QED BY <1>1, <1>4, <1>5, <3>3, <4>1, <5>1, <5>2, <5>3, <5>4 DEF ChatWhole
      <4>3. CASE \A p \in choosing' : p.chat # c
        <5>1. Fits(chatModel[c], call.agent)
          <6>1. CASE \A p \in choosing : p.chat # c
            BY <3>1, <3>3, <6>1 DEF ChatWhole
          <6>2. CASE \E p \in choosing : p.chat = c
            <7>1. PICK p \in choosing : p.chat = c
              BY <6>2
            <7>2. p \in choosing \ choosing'
              BY <4>3, <7>1
            <7>3. WaitingCalls(call) # {}
              BY <1>7, <7>2
            <7>4. PICK pick \in WaitingCalls(call) : TRUE
              BY <7>3
            <7>5. pick = p /\ p.stage = "agent"
              BY <3>1, <3>3, <7>1, <7>4, OnePick DEF WaitingCalls
            <7> QED BY <3>1, <3>3, <7>1, <7>5 DEF ChatWhole
          <6> QED BY <6>1, <6>2
        <5> QED BY <1>1, <1>4, <1>5, <3>3, <4>1, <4>3, <5>1 DEF ChatWhole
      <4> QED BY <4>2, <4>3
    <3> QED BY <3>2, <3>3
  <2> QED BY <1>8, <2>1, <2>2 DEF TransitionIInv
<1>9. CASE WaitingCalls(call) = {} /\ choosing' = choosing /\ KeepWaiting
  <2>1. PickOrder' /\ held' \in BOOLEAN
    BY <1>1, <1>3, <1>9, SameOrder DEF KeepWaiting, PickTypes
  <2>2. \A p \in choosing' : p.chat = its => p.stage # "agent"
    BY <1>9 DEF WaitingCalls
  <2> QED BY <1>8, <1>9, <2>1, <2>2
<1>10. ASSUME NEW pick \in WaitingCalls(call), EndModelTransition(pick, pick.profile)
       PROVE  TransitionIInv'
  <2>1. pick \in choosing /\ pick.chat = its
    BY DEF WaitingCalls
  <2>2. PickOrder' /\ choosing' = choosing \ {pick} /\ held' \in BOOLEAN
    BY <1>1, <1>3, <1>10, <2>1, EndOrder
  <2>3. its \notin tornChats => \A p \in choosing' : p.chat # its
    BY <1>2, <2>1, <2>2, OnePick
  <2> QED BY <1>8, <2>1, <2>2, <2>3
<1> QED BY <1>7, <1>9, <1>10

LEMMA AgentFailsOK ==
  ASSUME TransitionIInv, NEW call \in agentCalls, NEW reached \in BOOLEAN, AgentFails(call, reached)
  PROVE  TransitionIInv'
<1> DEFINE its == call.chat
<1>1. /\ agentCalls' = agentCalls \ {call}
      /\ chatAgent' = [chatAgent EXCEPT ![call.chat] = IF reached THEN call.agent ELSE @]
      /\ shownAgent' = [shownAgent EXCEPT ![call.chat] =
                          IF call.chat = openChat /\ @ = call.agent THEN call.previous ELSE @]
      /\ tornChats' = IF reached THEN tornChats \cup {call.chat} ELSE tornChats
      /\ UNCHANGED <<openChat, chatModel, picks>>
  BY DEF AgentFails
<1>2. its \in PickChats /\ call.agent \in PageAgents /\ call.previous \in PageAgents
  BY DEF TransitionIInv, PickTypes, AgentCallRecs
<1>3. PickTypes /\ PickOrder /\ CallOrder /\ tornChats \subseteq tornChats'
  BY <1>1 DEF TransitionIInv
<1>4. /\ chatAgent' \in [PickChats -> PageAgents]
      /\ \A c \in PickChats \ {its} : chatAgent'[c] = chatAgent[c]
      /\ ~reached => chatAgent'[its] = chatAgent[its]
  BY <1>1, <1>2, <1>3 DEF PickTypes
<1>5. /\ shownAgent' \in [PickChats -> PageAgents]
      /\ \A c \in PickChats \ {its} : shownAgent'[c] = shownAgent[c]
      /\ its = openChat /\ shownAgent[its] = call.agent => shownAgent'[its] = call.previous
  BY <1>1, <1>2, <1>3 DEF PickTypes
<1>6. \A other \in agentCalls' : other.chat # its
  BY <1>1, <1>3 DEF CallOrder
<1>7. ~AgentPending(its)'
  BY <1>6 DEF AgentPending
<1>8. ASSUME PickOrder', choosing' \subseteq PickRecs, held' \in BOOLEAN,
             \A p \in choosing \cup choosing' : p.chat # its => p \in choosing /\ p \in choosing',
             its \notin tornChats' =>
               /\ \A p \in choosing' : p.chat = its => p.stage # "agent"
               /\ \A p \in choosing' : p.chat = its =>
                    \E q \in choosing : /\ q.chat = its /\ q.previous = p.previous
                                        /\ p.stage = "model" => q.stage = "model"
               /\ (\A p \in choosing' : p.chat # its) => \A p \in choosing : p.chat # its
      PROVE  TransitionIInv'
  <2>1. PickTypes' /\ CallOrder'
    BY <1>1, <1>3, <1>4, <1>5, <1>8 DEF PickTypes, CallOrder
  <2>2. ASSUME NEW c \in PickChats \ tornChats' PROVE ChatWhole(c)'
    <3>1. ChatWhole(c) /\ c \in PickChats \ tornChats
      BY <1>3, <2>2 DEF TransitionIInv
    <3>2. CASE c # its
      <4>1. \A p \in choosing \cup choosing' : p.chat = c => p \in choosing /\ p \in choosing'
        BY <1>8, <3>2
      <4>2. \A other \in agentCalls \cup agentCalls' :
              other.chat = c => other \in agentCalls /\ other \in agentCalls'
        BY <1>1, <3>2
      <4> QED BY <1>1, <1>4, <1>5, <3>1, <3>2, <4>1, <4>2, OtherChat
    <3>3. CASE c = its
      <4>1. ~reached /\ chatAgent'[c] = chatAgent[c]
        BY <1>1, <1>4, <2>2, <3>3
      <4>2. shownAgent[c] = call.agent /\ call.previous = chatAgent[c]
        BY <3>1, <3>3 DEF ChatWhole
      <4>3. openChat = c => shownAgent'[c] = chatAgent[c]
        BY <1>5, <3>3, <4>2
      <4>4. \A p \in choosing' : p.chat = c =>
              /\ p.stage # "agent" /\ Fits(p.previous, chatAgent[c])
              /\ p.stage = "model" => p.previous = chatModel[c]
        <5> SUFFICES ASSUME NEW p \in choosing', p.chat = c
                     PROVE  /\ p.stage # "agent" /\ Fits(p.previous, chatAgent[c])
                            /\ p.stage = "model" => p.previous = chatModel[c]
          OBVIOUS
        <5>1. PICK q \in choosing : /\ q.chat = its /\ q.previous = p.previous
                                    /\ p.stage = "model" => q.stage = "model"
          BY <1>8, <2>2, <3>3
        <5>2. Fits(q.previous, chatAgent[c]) /\ (q.stage = "model" => q.previous = chatModel[c])
          BY <3>1, <3>3, <5>1 DEF ChatWhole
        <5>3. p.stage # "agent"
          BY <1>8, <2>2, <3>3
        <5> QED BY <5>1, <5>2, <5>3
      <4>5. (\A p \in choosing' : p.chat # c) => Fits(chatModel[c], chatAgent[c])
        BY <1>8, <2>2, <3>1, <3>3 DEF ChatWhole
      <4> QED BY <1>1, <1>6, <3>3, <4>1, <4>3, <4>4, <4>5 DEF ChatWhole
    <3> QED BY <3>2, <3>3
  <2> QED BY <1>8, <2>1, <2>2 DEF TransitionIInv
<1>9. CASE WaitingCalls(call) = {}
  <2>1. choosing' = choosing /\ KeepWaiting
    BY <1>9 DEF AgentFails
  <2>2. PickOrder' /\ held' \in BOOLEAN
    BY <1>1, <1>3, <2>1, SameOrder DEF KeepWaiting, PickTypes
  <2>3. \A p \in choosing' : p.chat = its => p.stage # "agent"
    BY <1>9, <2>1 DEF WaitingCalls
  <2> QED BY <1>3, <1>8, <2>1, <2>2, <2>3 DEF PickTypes
<1>10. ASSUME NEW pick \in WaitingCalls(call),
              IF Valid(pick)
              THEN choosing' = (choosing \ {pick}) \cup {[pick EXCEPT !.stage = "back"]} /\ KeepWaiting
              ELSE Abandon(pick)
       PROVE  TransitionIInv'
  <2>1. pick \in choosing /\ pick.chat = its /\ pick \in PickRecs
    BY <1>3 DEF WaitingCalls, PickTypes
  <2>2. CASE Valid(pick)
    <3> DEFINE next == [pick EXCEPT !.stage = "back"]
    <3>1. choosing' = (choosing \ {pick}) \cup {next} /\ KeepWaiting
      BY <1>10, <2>2
    <3>2. PickOrder' /\ choosing' \subseteq PickRecs /\ held' \in BOOLEAN
      BY <1>1, <1>3, <2>1, <3>1, StageOrder
    <3>3. next.stage = "back" /\ next.chat = its /\ next.previous = pick.previous
      BY <2>1 DEF PickRecs
    <3> HIDE DEF next
    <3>4. its \notin tornChats' => \A p \in choosing' : p.chat = its => p = next
      BY <1>2, <1>3, <2>1, <3>1, OnePick
    <3>5. \A p \in choosing \cup choosing' : p.chat # its => p \in choosing /\ p \in choosing'
      BY <2>1, <3>1, <3>3
    <3>6. next \in choosing'
      BY <3>1
    <3> QED BY <1>8, <2>1, <3>2, <3>3, <3>4, <3>5, <3>6
  <2>3. CASE ~Valid(pick)
    <3>1. Abandon(pick)
      BY <1>10, <2>3
    <3>2. PickOrder' /\ choosing' = choosing \ {pick} /\ held' \in BOOLEAN
      BY <1>1, <1>3, <2>1, <2>3, <3>1, AbandonOrder
    <3>3. its \in tornChats'
      BY <1>3, <2>1, <2>3 DEF PickOrder
    <3>4. choosing' \subseteq PickRecs
      BY <1>3, <3>2 DEF PickTypes
    <3>5. \A p \in choosing \cup choosing' : p.chat # its => p \in choosing /\ p \in choosing'
      BY <2>1, <3>2
    <3> QED BY <1>8, <3>2, <3>3, <3>4, <3>5
  <2> QED BY <2>2, <2>3
<1> QED BY <1>9, <1>10 DEF AgentFails

\* A change of the agent starts in the open chat; no pick is changed by it.
LEMMA CallStarts ==
  ASSUME TransitionIInv, NEW agent \in PageAgents, StartAgentCall(openChat, agent),
         ~AgentPending(openChat), tornChats \subseteq tornChats', picks' \in Nat, picks <= picks',
         UNCHANGED <<openChat, chatModel, chatAgent, modelTransition, held, choosing>>,
         openChat \notin tornChats' =>
           /\ \A p \in choosing : p.chat = openChat => Fits(p.previous, agent)
           /\ (\A p \in choosing : p.chat # openChat) => Fits(chatModel[openChat], agent)
  PROVE  TransitionIInv'
<1> DEFINE new == [chat |-> openChat, agent |-> agent, previous |-> shownAgent[openChat]]
<1>1. /\ agentCalls' = agentCalls \cup {new}
      /\ shownAgent' = [shownAgent EXCEPT ![openChat] = agent]
  BY DEF StartAgentCall
<1>2. PickTypes /\ PickOrder /\ CallOrder
  BY DEF TransitionIInv
<1>3. new \in AgentCallRecs /\ new.chat = openChat /\ new.agent = agent
      /\ new.previous = shownAgent[openChat]
  BY <1>2 DEF AgentCallRecs, PickTypes
<1> HIDE DEF new
<1>4. \A call \in agentCalls : call.chat # openChat
  BY DEF AgentPending
<1>5. /\ shownAgent' \in [PickChats -> PageAgents] /\ shownAgent'[openChat] = agent
      /\ \A c \in PickChats \ {openChat} : shownAgent'[c] = shownAgent[c]
  BY <1>1, <1>2 DEF PickTypes
<1>6. PickTypes' /\ CallOrder'
  BY <1>1, <1>2, <1>3, <1>4, <1>5 DEF PickTypes, CallOrder
<1>7. \A p \in choosing : p.token \in 1 .. picks'
  BY <1>2 DEF PickOrder, PickTypes
<1>8. PickOrder'
  BY <1>2, <1>7 DEF PickOrder, Valid
<1>9. ASSUME NEW c \in PickChats \ tornChats' PROVE ChatWhole(c)'
  <2>1. ChatWhole(c) /\ c \in PickChats \ tornChats
    BY <1>9 DEF TransitionIInv
  <2>2. CASE c # openChat
    <3>1. \A call \in agentCalls \cup agentCalls' :
            call.chat = c => call \in agentCalls /\ call \in agentCalls'
      BY <1>1, <1>3, <2>2
    <3>2. shownAgent'[c] = shownAgent[c]
      BY <1>5, <2>2
    <3> QED BY <2>1, <2>2, <3>1, <3>2, OtherChat
  <2>3. CASE c = openChat
    <3>1. \A call \in agentCalls' : call.chat = c => call = new
      BY <1>1, <1>4, <2>3
    <3>2. AgentPending(c)'
      BY <1>1, <1>3, <2>3 DEF AgentPending
    <3>3. shownAgent[c] = chatAgent[c]
      BY <2>1, <2>3 DEF ChatWhole
    <3>4. \A p \in choosing : p.chat = c =>
            /\ p.stage # "agent" /\ Fits(p.previous, chatAgent[c]) /\ Fits(p.previous, agent)
            /\ p.stage = "model" => p.previous = chatModel[c]
      BY <1>9, <2>1, <2>3 DEF ChatWhole
    <3>5. (\A p \in choosing : p.chat # c) =>
            Fits(chatModel[c], agent) /\ Fits(chatModel[c], chatAgent[c])
      BY <1>9, <2>1, <2>3 DEF ChatWhole
    <3> QED BY <1>3, <1>5, <2>3, <3>1, <3>2, <3>3, <3>4, <3>5 DEF ChatWhole
  <2> QED BY <2>2, <2>3
<1> QED BY <1>6, <1>8, <1>9 DEF TransitionIInv

LEMMA PickAgentOK ==
  ASSUME TransitionIInv, NEW agent \in PageAgents, PickAgentHere(agent)
  PROVE  TransitionIInv'
<1>1. /\ modelTransition = 0 /\ ~AgentPending(openChat) /\ picks' = picks + 1
      /\ StartAgentCall(openChat, agent)
      /\ tornChats' = (IF Fits(chatModel[openChat], agent)
                       THEN tornChats ELSE tornChats \cup {openChat})
      /\ UNCHANGED <<openChat, chatModel, chatAgent, modelTransition, held, choosing>>
  BY DEF PickAgentHere
<1>2. tornChats \subseteq tornChats' /\ picks' \in Nat /\ picks <= picks'
  BY <1>1 DEF TransitionIInv, PickTypes
<1>3. \A p \in choosing : p.token # 0
  BY DEF TransitionIInv, PickOrder, PickTypes
<1>4. \A p \in choosing : p.chat \in tornChats
  BY <1>1, <1>3 DEF TransitionIInv, PickOrder, Valid
<1>5. openChat \notin tornChats' =>
        Fits(chatModel[openChat], agent) /\ \A p \in choosing : p.chat # openChat
  <2>1. CASE Fits(chatModel[openChat], agent)
    BY <1>2, <1>4, <2>1
  <2>2. CASE ~Fits(chatModel[openChat], agent)
    BY <1>1, <2>2
  <2> QED BY <2>1, <2>2
<1> QED BY <1>1, <1>2, <1>5, CallStarts

LEMMA PlanChipOK == ASSUME TransitionIInv, PlanChip PROVE TransitionIInv'
<1>1. /\ shownAgent[openChat] = "plan" /\ ~AgentPending(openChat)
      /\ StartAgentCall(openChat, "build")
      /\ UNCHANGED <<openChat, chatModel, chatAgent, modelTransition, held, choosing, picks,
                     tornChats>>
  BY DEF PlanChip
<1>2. picks' \in Nat /\ picks <= picks' /\ openChat \in PickChats /\ "build" \in PageAgents
  BY <1>1 DEF TransitionIInv, PickTypes, PageAgents
<1>3. ASSUME openChat \notin tornChats
      PROVE  /\ \A p \in choosing : p.chat = openChat => Fits(p.previous, "build")
             /\ (\A p \in choosing : p.chat # openChat) => Fits(chatModel[openChat], "build")
  <2>1. ChatWhole(openChat)
    BY <1>2, <1>3 DEF TransitionIInv
  <2>2. chatAgent[openChat] = "plan"
    BY <1>1, <2>1 DEF ChatWhole
  <2> QED BY <2>1, <2>2 DEF ChatWhole, Fits
<1> QED BY <1>1, <1>2, <1>3, CallStarts

LEMMA OpenOtherOK ==
  ASSUME TransitionIInv, NEW next \in PickChats, OpenOtherChat(next)
  PROVE  TransitionIInv'
<1>1. /\ next # openChat /\ openChat' = next /\ modelTransition' = 0 /\ held' = FALSE
      /\ shownAgent' = [shownAgent EXCEPT ![next] = IF AgentPending(next) THEN @ ELSE chatAgent[next]]
      /\ tornChats' = (IF \E p \in choosing : p.chat = openChat THEN tornChats \cup {openChat}
                       ELSE tornChats)
      /\ UNCHANGED <<chatModel, chatAgent, choosing, agentCalls, picks>>
  BY DEF OpenOtherChat
<1>2. PickTypes /\ PickOrder /\ CallOrder /\ tornChats \subseteq tornChats'
  BY <1>1 DEF TransitionIInv
<1>3. /\ shownAgent' \in [PickChats -> PageAgents]
      /\ \A c \in PickChats \ {next} : shownAgent'[c] = shownAgent[c]
      /\ AgentPending(next) => shownAgent'[next] = shownAgent[next]
      /\ ~AgentPending(next) => shownAgent'[next] = chatAgent[next]
  BY <1>1, <1>2 DEF PickTypes
<1>4. PickTypes' /\ CallOrder'
  BY <1>1, <1>2, <1>3 DEF PickTypes, CallOrder
<1>5. \A p \in choosing : p.chat \in tornChats'
  BY <1>1, <1>2 DEF PickOrder, Valid
<1>6. PickOrder'
  BY <1>1, <1>2, <1>5 DEF PickOrder
<1>7. ASSUME NEW c \in PickChats \ tornChats' PROVE ChatWhole(c)'
  <2>1. ChatWhole(c)
    BY <1>2, <1>7 DEF TransitionIInv
  <2>2. AgentPending(c)' <=> AgentPending(c)
    BY <1>1 DEF AgentPending
  <2>3. AgentPending(c) => shownAgent'[c] = shownAgent[c]
    BY <1>3
  <2>4. \A call \in agentCalls : call.chat = c => AgentPending(c)
    BY DEF AgentPending
  <2>5. openChat' = c /\ ~AgentPending(c) => shownAgent'[c] = chatAgent[c]
    BY <1>1, <1>3
  <2>6. \A p \in choosing : p.chat # c
    BY <1>5, <1>7
  <2> QED BY <1>1, <2>1, <2>2, <2>3, <2>4, <2>5, <2>6 DEF ChatWhole
<1> QED BY <1>4, <1>6, <1>7 DEF TransitionIInv

LEMMA TransitionStepOK ==
  ASSUME TransitionIInv, [TransitionNext]_transitionVars PROVE TransitionIInv'
<1>1. CASE UNCHANGED transitionVars
  BY <1>1 DEF transitionVars, TransitionIInv, PickTypes, PickOrder, CallOrder, ChatWhole,
              Valid, AgentPending
<1>2. ASSUME NEW pick \in choosing, NEW reached \in BOOLEAN,
             ModelFails(pick, reached) \/ ModelPutBack(pick, reached)
      PROVE  TransitionIInv'
  BY <1>2, ModelFailsOK, PickPutBackOK
<1> QED BY <1>1, <1>2, ChooseOK, ModelTakenOK, AgentTakenOK, AgentFailsOK, PickAgentOK,
           PlanChipOK, OpenOtherOK DEF TransitionNext

LEMMA PicksAreSound == TransitionIInv => PicksAreWhole
<1> SUFFICES ASSUME TransitionIInv PROVE PicksAreWhole
  OBVIOUS
<1>1. HeldForAPick
  BY DEF TransitionIInv, PickOrder, HeldForAPick
<1>2. ModelHasItsAgent
  BY DEF TransitionIInv, ChatWhole, ModelHasItsAgent
<1> QED BY <1>1, <1>2 DEF PicksAreWhole

\* A pick changes the model and the agent of a chat together (chooseModel,
\* finishModelTransition in app/ux-controls.js).
THEOREM PicksChangeBoth == TransitionSpec => []PicksAreWhole
<1>1. TransitionInit => TransitionIInv
  BY TransitionInitOK
<1>2. TransitionIInv /\ [TransitionNext]_transitionVars => TransitionIInv'
  BY TransitionStepOK
<1>3. TransitionIInv => PicksAreWhole
  BY PicksAreSound
<1> QED BY <1>1, <1>2, <1>3, PTL DEF TransitionSpec

-----------------------------------------------------------------------------
(* The pollers (PageViews).  A wake waits only for a read under way, and a  *)
(* poller that reads has no timer.                                          *)

PollIInv ==
  /\ PollTypeOK
  /\ PollsGoOn
  /\ wakeRequested => polling /\ ~pollStopped
  /\ polling => pollTimer = "none"
  /\ readDue => ~pollStopped

LEMMA PollInitOK == PollInit => PollIInv
  BY DEF PollInit, PollIInv, PollTypeOK, PollsGoOn

LEMMA PollStepOK == PollIInv /\ [PollNext]_pollVars => PollIInv'
<1> SUFFICES ASSUME PollIInv, [PollNext]_pollVars PROVE PollIInv'
  OBVIOUS
<1> USE DEF PollIInv, PollTypeOK, PollsGoOn, Schedules
<1>1. CASE UNCHANGED pollVars
  BY <1>1 DEF pollVars
<1>2. ASSUME NEW immediate \in BOOLEAN, PollStarts(immediate) PROVE PollIInv'
  BY <1>2 DEF PollStarts
<1>3. CASE PollStops
  BY <1>3 DEF PollStops
<1>4. CASE PollTick
  BY <1>4 DEF PollTick, NextPoll
<1>5. CASE PollRunEnds
  BY <1>5 DEF PollRunEnds, NextPoll
<1>6. CASE PollWakes
  BY <1>6 DEF PollWakes, Wakened
<1>7. CASE PageHides
  BY <1>7 DEF PageHides
<1>8. CASE PageShows
  <2>0. pageVisible' = TRUE /\ pollStopped' = pollStopped /\ polling' = polling
    BY <1>8 DEF PageShows
  <2>1. CASE pollStopped /\ UNCHANGED <<pollTimer, wakeRequested, readDue, twoTimers>>
    BY <2>0, <2>1
  <2>2. CASE ~pollStopped /\ Wakened /\ readDue' = TRUE
    BY <2>0, <2>2 DEF Wakened
  <2>3. CASE ~pollStopped /\ Rereads /\ readDue' = FALSE
    BY <2>0, <2>3 DEF Rereads
  <2> QED BY <1>8, <2>1, <2>2, <2>3 DEF PageShows
<1> HIDE DEF PollIInv, PollTypeOK, PollsGoOn, Schedules
<1> QED BY <1>1, <1>2, <1>3, <1>4, <1>5, <1>6, <1>7, <1>8 DEF PollNext

\* The pollers of the page neither stop by themselves nor run twice, and a read that is
\* asked for is made (createAdaptivePoller).
THEOREM PollersGoOn == PollSpec => []PollsGoOn
<1>1. PollIInv => PollsGoOn
  BY DEF PollIInv
<1> QED BY <1>1, PollInitOK, PollStepOK, PTL DEF PollSpec

-----------------------------------------------------------------------------
(* The Git state (PageViews).  Unless the chat was left, every read of the  *)
(* review was asked for the chat shown, when its folder was known.          *)

ReviewRecs == [visit : Nat, stage : {"session", "folder"},
               folder : GitChats \cup {NoGitChat, Elsewhere}]

GitIInv ==
  /\ gitVisits \in Seq(GitChats \cup {NoGitChat}) /\ gitVisits # <<>>
  /\ reviewLoads \subseteq ReviewRecs /\ \A x \in reviewLoads : x.visit <= GitVisit
  /\ {folderKnown, reviewLeft, astray} \subseteq BOOLEAN
  /\ GitChat # NoGitChat =>
       GitVisit \in gitReads \/ (gitOf = GitChat /\ gitDiffsOf \in {NoGitChat, GitChat})
  /\ \A x \in reviewLoads : x.visit = GitVisit => x.folder = GitChat /\ folderKnown
  /\ ~reviewLeft => /\ reviewOf \in {NoGitChat, GitChat}
                    /\ \A x \in reviewLoads : x.visit = GitVisit
  /\ ~astray

LEMMA GitInitOK == GitInit => GitIInv
<1> SUFFICES ASSUME GitInit PROVE GitIInv
  OBVIOUS
<1>1. gitVisits \in Seq(GitChats \cup {NoGitChat}) /\ gitVisits # <<>> /\ GitChat = NoGitChat
  BY DEF GitInit, GitVisit, GitChat
<1> QED BY <1>1 DEF GitInit, GitIInv

LEMMA GitStepOK == GitIInv /\ [GitNext]_gitVars => GitIInv'
<1> SUFFICES ASSUME GitIInv, [GitNext]_gitVars PROVE GitIInv'
  OBVIOUS
<1>v. GitVisit \in Nat \ {0} /\ GitChat \in GitChats \cup {NoGitChat}
  <2>1. gitVisits \in Seq(GitChats \cup {NoGitChat}) /\ gitVisits # <<>>
    BY DEF GitIInv
  <2>2. Len(gitVisits) \in Nat \ {0}
    BY <2>1, EmptySeq, LenProperties
  <2> QED BY <2>1, <2>2, ElementOfSeq DEF GitVisit, GitChat
<1>s. gitVisits' = gitVisits => GitVisit' = GitVisit /\ GitChat' = GitChat
  BY DEF GitVisit, GitChat
<1>n. NewReview \in ReviewRecs /\ NewReview.visit = GitVisit /\ NewReview.folder = GitChat
  BY <1>v DEF NewReview, ReviewRecs
<1>1. CASE UNCHANGED gitVars
  BY <1>1, <1>s DEF gitVars, GitIInv
<1>2. ASSUME NEW c \in GitChats \cup {NoGitChat}, SelectsGit(c) PROVE GitIInv'
  <2>1. /\ gitVisits' = Append(gitVisits, c) /\ folderKnown' = FALSE
        /\ reviewLeft' = (reviewLeft \/ reviewLoads # {} \/ reviewOf # NoGitChat)
        /\ reviewLoads' = reviewLoads /\ reviewOf' = reviewOf /\ astray' = astray
        /\ gitReads' = IF c = NoGitChat THEN gitReads ELSE gitReads \cup {GitVisit + 1}
    BY <1>2 DEF SelectsGit
  <2>2. /\ gitVisits' \in Seq(GitChats \cup {NoGitChat}) /\ gitVisits' # <<>>
        /\ GitVisit' = GitVisit + 1 /\ GitChat' = c
    <3>1. gitVisits \in Seq(GitChats \cup {NoGitChat})
      BY DEF GitIInv
    <3> DEFINE more == Append(gitVisits, c)
    <3>2. /\ more \in Seq(GitChats \cup {NoGitChat}) /\ more # <<>>
          /\ Len(more) = Len(gitVisits) + 1 /\ more[Len(gitVisits) + 1] = c
      BY <3>1, AppendProperties
    <3> QED BY <2>1, <3>2 DEF GitVisit, GitChat
  <2>3. \A x \in reviewLoads : x.visit # GitVisit'
    BY <1>v, <2>2 DEF GitIInv, ReviewRecs
  <2>4. \A x \in reviewLoads' : x.visit <= GitVisit'
    BY <1>v, <2>1, <2>2 DEF GitIInv, ReviewRecs
  <2> QED BY <1>v, <2>1, <2>2, <2>3, <2>4 DEF GitIInv
<1>3. CASE FolderLoads
  BY <1>3, <1>s DEF FolderLoads, gitStates, reviewVars, GitIInv
<1>4. CASE OpensGit \/ ClosesGit
  BY <1>4, <1>s DEF OpensGit, ClosesGit, gitStates, reviewVars, GitIInv
<1>5. CASE LoadsReview
  BY <1>5, <1>s, <1>n, <1>v DEF LoadsReview, MayLoad, gitStates, GitIInv, ReviewRecs
<1>6. CASE Reverts
  <2>1. astray' = astray /\ folderKnown
    BY <1>6 DEF Reverts, MayLoad, GitIInv
  <2> QED BY <1>6, <1>s, <1>n, <1>v, <2>1 DEF Reverts, gitStates, GitIInv, ReviewRecs
<1>7. ASSUME NEW v \in gitReads, GitRead(v) PROVE GitIInv'
  <2>1. /\ gitReads' = gitReads \ {v} /\ UNCHANGED <<gitVisits, folderKnown>> /\ UNCHANGED reviewVars
        /\ IF gitVisits[v] = GitChat THEN gitOf' = gitVisits[v] /\ gitDiffsOf' = NoGitChat
           ELSE UNCHANGED <<gitOf, gitDiffsOf>>
    BY <1>7 DEF GitRead, GitOfShown
  <2>2. v = GitVisit => gitVisits[v] = GitChat
    BY DEF GitChat
  <2> QED BY <1>s, <2>1, <2>2 DEF reviewVars, GitIInv
<1>8. ASSUME NEW x \in dialogReads, NEW empty \in BOOLEAN, DialogAnswered(x, empty)
      PROVE  GitIInv'
  <2>1. /\ UNCHANGED <<gitVisits, folderKnown, gitReads, gitOf>> /\ UNCHANGED reviewVars
        /\ gitDiffsOf' \in {GitChat, gitDiffsOf}
    BY <1>8 DEF DialogAnswered, GitOfShown
  <2> QED BY <1>s, <2>1 DEF reviewVars, GitIInv
<1>9. ASSUME NEW x \in reviewLoads, NEW empty \in BOOLEAN, ReviewAnswered(x, empty)
      PROVE  GitIInv'
  <2>0. UNCHANGED <<gitVisits, folderKnown, gitReads, gitOf, gitDiffsOf, astray>>
    BY <1>9 DEF ReviewAnswered, gitStates
  <2>1. CASE empty /\ x.stage = "session"
    <3> DEFINE y == [x EXCEPT !.stage = "folder",
                              !.folder = IF folderKnown THEN GitChat ELSE Elsewhere]
    <3>1. /\ reviewLoads' = (reviewLoads \ {x}) \cup {y}
          /\ UNCHANGED <<reviewOf, reviewLeft>>
      BY <1>9, <2>1 DEF ReviewAnswered
    <3>2. y \in ReviewRecs /\ y.visit = x.visit /\ (folderKnown => y.folder = GitChat)
      BY <1>v DEF GitIInv, ReviewRecs
    <3> HIDE DEF y
    <3> QED BY <1>s, <2>0, <3>1, <3>2 DEF GitIInv
  <2>2. CASE ~(empty /\ x.stage = "session")
    <3>1. /\ reviewLoads' = reviewLoads \ {x} /\ reviewOf' = x.folder
          /\ reviewLeft' = (reviewLeft /\ ~(x.visit = GitVisit /\ reviewLoads = {x}))
      BY <1>9, <2>2 DEF ReviewAnswered
    <3> QED BY <1>s, <2>0, <3>1 DEF GitIInv
  <2> QED BY <2>1, <2>2
<1>10. ASSUME NEW x \in reviewLoads, ReviewFails(x) PROVE GitIInv'
  BY <1>10, <1>s DEF ReviewFails, gitStates, GitIInv
<1> QED BY <1>1, <1>2, <1>3, <1>4, <1>5, <1>6, <1>7, <1>8, <1>9, <1>10 DEF GitNext

LEMMA GitIsOfChat == GitIInv => GitIsOwn
<1> SUFFICES ASSUME GitIInv PROVE GitIsOwn
  OBVIOUS
<1>1. GitVisit \in gitReads => \E v \in gitReads : gitVisits[v] = GitChat
  BY DEF GitChat
<1> QED BY <1>1 DEF GitIInv, GitIsOwn

\* The Git state is of the chat shown, and a row is reverted in the folder it was read
\* from (refreshGit, openGitDialog, revertReviewFile).
THEOREM GitIsOfItsChat == GitSpec => []GitIsOwn
  BY GitInitOK, GitStepOK, GitIsOfChat, PTL DEF GitSpec

-----------------------------------------------------------------------------
(* The handovers (SessionList).  What a move was confirmed with is no newer *)
(* than the source, and what it has taken along is no older.                *)

HandoverRecs ==
  [how : {"none", "move", "fork"}, words : Nat, told : Nat, draft : Nat, seen : Nat,
   drafted : Nat, foreign : BOOLEAN, strayed : BOOLEAN, select : BOOLEAN,
   step : {"idle", "native", "controls", "context", "create", "prompt", "undo", "remove",
           "done", "failed"},
   copy : {"none", "alive", "gone"}]

Moves(x) == x.how = "move" /\ x.step \in {"controls", "context", "create", "prompt", "remove"}

HandSound(x, said, shown, draft, lives, watched) ==
  /\ x \in HandoverRecs
  /\ x.step \in {"controls", "create", "prompt", "undo"} => x.how # "none"
  /\ x.step = "native" => x.how = "fork"
  /\ x.step \in {"context", "remove"} => x.how = "move"
  /\ Moves(x) => x.seen <= said /\ (lives => x.drafted <= draft)
  /\ Moves(x) /\ x.step = "controls" => shown = 0 \/ shown >= x.seen
  /\ Moves(x) /\ x.step \in {"create", "prompt"} => x.words >= x.seen
  /\ x.step = "prompt" => x.copy = "alive"
  /\ x.step = "remove" => /\ x.copy = "alive" /\ x.told >= x.seen
                          /\ lives => x.draft >= x.drafted
  /\ x.how = "fork" /\ x.step \in {"native", "controls"} => watched \/ x.strayed
  /\ x.foreign => x.how = "fork" /\ x.strayed

\* What the handover that deleted the source has left of itself.
MoveDone(x) ==
  /\ x.step = "done" /\ x.copy = "alive" /\ x.how = "move"
  /\ x.told >= x.seen /\ x.draft >= x.drafted

HandoverIInv ==
  /\ sourceSaid \in Nat /\ sourceShown \in Nat /\ sourceDraft \in Nat
  /\ sourceShown <= sourceSaid /\ sourceLives \in BOOLEAN /\ sourceWatched \in BOOLEAN
  /\ handovers = [h \in Handovers |-> handovers[h]]
  /\ \A h \in Handovers :
       /\ HandSound(handovers[h], sourceSaid, sourceShown, sourceDraft, sourceLives,
                    sourceWatched)
       /\ endedBy = h => ~sourceLives /\ MoveDone(handovers[h])

LEMMA HandoverInitOK == HandoverInit => HandoverIInv
<1> SUFFICES ASSUME HandoverInit PROVE HandoverIInv
  OBVIOUS
<1>1. HandSound(NoHandover, 0, 0, 0, TRUE, TRUE)
  BY DEF HandSound, NoHandover, HandoverRecs, Moves
<1>2. \A h \in Handovers : endedBy # h
  BY HandoverAssumption DEF HandoverInit
<1>3. handovers = [h \in Handovers |-> NoHandover]
  BY DEF HandoverInit
<1>4. handovers = [h \in Handovers |-> handovers[h]] /\ \A h \in Handovers : handovers[h] = NoHandover
  BY <1>3
<1>5. /\ sourceSaid = 0 /\ sourceShown = 0 /\ sourceDraft = 0
      /\ sourceLives = TRUE /\ sourceWatched = TRUE
  BY DEF HandoverInit
<1> HIDE DEF NoHandover
<1>6. \A h \in Handovers : HandSound(handovers[h], sourceSaid, sourceShown, sourceDraft,
                                     sourceLives, sourceWatched)
  BY <1>1, <1>4, <1>5, Zenon
<1>7. /\ sourceSaid \in Nat /\ sourceShown \in Nat /\ sourceDraft \in Nat
      /\ sourceShown <= sourceSaid /\ sourceLives \in BOOLEAN /\ sourceWatched \in BOOLEAN
  BY <1>5
<1> QED BY <1>2, <1>4, <1>6, <1>7, Zenon DEF HandoverIInv

\* A handover that is over, or not begun, is sound whatever the source does.
LEMMA OverIsSound ==
  ASSUME NEW step \in {"idle", "done", "failed"}, NEW said, NEW shown, NEW draft, NEW lives,
         NEW watched
  PROVE  HandSound(Over(step), said, shown, draft, lives, watched)
BY DEF HandSound, Over, NoHandover, HandoverRecs, Moves

\* Another chat is shown: only a fork keeps in mind that it was left.
LEMMA OthersStay ==
  ASSUME NEW x \in HandoverRecs, NEW y, y = x \/ y = Strayed(x)
  PROVE  /\ y \in HandoverRecs
         /\ y.how = x.how /\ y.step = x.step /\ y.words = x.words /\ y.told = x.told
         /\ y.draft = x.draft /\ y.seen = x.seen /\ y.drafted = x.drafted
         /\ y.foreign = x.foreign /\ y.copy = x.copy /\ (x.strayed => y.strayed)
         /\ x.how = "fork" /\ x.step \in {"native", "controls"} => y = x \/ y.strayed
BY DEF Strayed, HandoverRecs

LEMMA EndedStays == ASSUME NEW x \in HandoverRecs, MoveDone(x) PROVE MoveDone(Strayed(x))
BY DEF MoveDone, Strayed, HandoverRecs

\* A handover that takes no step stays sound: words are added, the page shows all of
\* them or none, drafts change until the source is deleted, and another chat is shown.
LEMMA OtherIsSound ==
  ASSUME HandoverIInv, NEW h \in Handovers,
         sourceSaid' \in Nat, sourceDraft' \in Nat, sourceLives' \in BOOLEAN,
         sourceWatched' \in BOOLEAN, sourceSaid <= sourceSaid',
         sourceShown' \in {0, sourceShown, sourceSaid'},
         sourceLives' => sourceLives /\ sourceDraft <= sourceDraft',
         \/ handovers'[h] = handovers[h] /\ (sourceWatched => sourceWatched')
         \/ handovers'[h] = Strayed(handovers[h])
  PROVE  /\ HandSound(handovers'[h], sourceSaid', sourceShown', sourceDraft', sourceLives',
                      sourceWatched')
         /\ MoveDone(handovers[h]) => MoveDone(handovers'[h])
<1> DEFINE x == handovers[h]
           y == handovers'[h]
<1>1. HandSound(x, sourceSaid, sourceShown, sourceDraft, sourceLives, sourceWatched)
  BY DEF HandoverIInv
<1>2. x \in HandoverRecs
  BY <1>1 DEF HandSound
<1>3. /\ y \in HandoverRecs
      /\ y.how = x.how /\ y.step = x.step /\ y.words = x.words /\ y.told = x.told
      /\ y.draft = x.draft /\ y.seen = x.seen /\ y.drafted = x.drafted
      /\ y.foreign = x.foreign /\ y.copy = x.copy /\ (x.strayed => y.strayed)
      /\ x.how = "fork" /\ x.step \in {"native", "controls"} => y = x \/ y.strayed
  BY <1>2, OthersStay
<1>4. /\ x.seen \in Nat /\ x.drafted \in Nat /\ x.draft \in Nat /\ x.words \in Nat
      /\ x.told \in Nat
  BY <1>2 DEF HandoverRecs
<1>5. x.how = "fork" /\ x.step \in {"native", "controls"} /\ ~y.strayed =>
        (sourceWatched => sourceWatched')
  <2>1. CASE y = Strayed(x)
    BY <1>2, <2>1 DEF Strayed, HandoverRecs
  <2> QED BY <2>1
<1>6. MoveDone(x) => MoveDone(y)
  BY <1>2, EndedStays
<1>7. /\ sourceSaid \in Nat /\ sourceShown \in Nat /\ sourceDraft \in Nat
      /\ sourceShown <= sourceSaid
  BY DEF HandoverIInv
<1> HIDE DEF x, y
<1>8. HandSound(y, sourceSaid', sourceShown', sourceDraft', sourceLives', sourceWatched')
  BY <1>1, <1>3, <1>4, <1>5, <1>7 DEF HandSound, Moves
<1> QED BY <1>6, <1>8 DEF x, y

\* The source changes and no handover takes a step.
LEMMA SourceStepOK ==
  ASSUME HandoverIInv, sourceSaid' \in Nat, sourceDraft' \in Nat, sourceLives' \in BOOLEAN,
         sourceWatched' \in BOOLEAN, sourceSaid <= sourceSaid',
         sourceShown' \in {0, sourceShown, sourceSaid'}, sourceShown' <= sourceSaid',
         sourceLives' => sourceLives /\ sourceDraft <= sourceDraft',
         endedBy' = endedBy \/ endedBy' = "user",
         \/ handovers' = handovers /\ (sourceWatched => sourceWatched')
         \/ handovers' = [h \in Handovers |-> Strayed(handovers[h])]
  PROVE  HandoverIInv'
<1>1. handovers' = [h \in Handovers |-> handovers'[h]] /\ sourceShown' \in Nat
  BY DEF HandoverIInv
<1>2. ASSUME NEW h \in Handovers
      PROVE  /\ HandSound(handovers'[h], sourceSaid', sourceShown', sourceDraft', sourceLives',
                          sourceWatched')
             /\ endedBy' = h => ~sourceLives' /\ MoveDone(handovers'[h])
  <2>1. \/ handovers'[h] = handovers[h] /\ (sourceWatched => sourceWatched')
        \/ handovers'[h] = Strayed(handovers[h])
    OBVIOUS
  <2>2. /\ HandSound(handovers'[h], sourceSaid', sourceShown', sourceDraft', sourceLives',
                     sourceWatched')
        /\ MoveDone(handovers[h]) => MoveDone(handovers'[h])
    BY <2>1, OtherIsSound
  <2>3. endedBy' = h => endedBy = h
    BY HandoverAssumption
  <2>4. endedBy = h => ~sourceLives /\ MoveDone(handovers[h])
    BY DEF HandoverIInv
  <2> QED BY <2>2, <2>3, <2>4
<1> QED BY <1>1, <1>2 DEF HandoverIInv

\* A handover takes a step that ends in x, and does not delete the source.
LEMMA HandOK ==
  ASSUME HandoverIInv, NEW h \in Handovers, ~(endedBy = h), NEW x, NEW leaves \in BOOLEAN,
         Hand(h, x, leaves), UNCHANGED sourceVars,
         HandSound(x, sourceSaid, sourceShown, sourceDraft, sourceLives,
                   sourceWatched /\ ~leaves)
  PROVE  HandoverIInv'
<1>1. /\ handovers' = [g \in Handovers |-> IF g = h THEN x
                                           ELSE IF leaves THEN Strayed(handovers[g])
                                           ELSE handovers[g]]
      /\ sourceWatched' = (sourceWatched /\ ~leaves)
  BY DEF Hand
<1>2. /\ sourceSaid' = sourceSaid /\ sourceShown' = sourceShown /\ sourceDraft' = sourceDraft
      /\ sourceLives' = sourceLives /\ endedBy' = endedBy
  BY DEF sourceVars
<1>3. ASSUME NEW g \in Handovers
      PROVE  /\ HandSound(handovers'[g], sourceSaid', sourceShown', sourceDraft', sourceLives',
                          sourceWatched')
             /\ endedBy' = g => ~sourceLives' /\ MoveDone(handovers'[g])
  <2>1. CASE g = h
    BY <1>1, <1>2, <2>1
  <2>2. CASE g # h
    <3>1. \/ handovers'[g] = handovers[g] /\ (sourceWatched => sourceWatched')
          \/ handovers'[g] = Strayed(handovers[g])
      BY <1>1, <2>2
    <3>2. /\ sourceSaid \in Nat /\ sourceDraft \in Nat /\ sourceLives \in BOOLEAN
          /\ sourceWatched' \in BOOLEAN /\ (endedBy = g => ~sourceLives /\ MoveDone(handovers[g]))
      BY <1>1 DEF HandoverIInv
    <3>3. /\ HandSound(handovers'[g], sourceSaid', sourceShown', sourceDraft', sourceLives',
                       sourceWatched')
          /\ MoveDone(handovers[g]) => MoveDone(handovers'[g])
      BY <1>2, <3>1, <3>2, OtherIsSound
    <3> QED BY <1>2, <3>2, <3>3
  <2> QED BY <2>1, <2>2
<1>4. handovers' = [g \in Handovers |-> handovers'[g]]
  BY <1>1
<1> QED BY <1>1, <1>2, <1>3, <1>4 DEF HandoverIInv

LEMMA SourceStepsOK ==
  HandoverIInv /\ (\/ Says \/ ShowsWords \/ TypesDraft \/ LeavesSource \/ UserDeletes
                   \/ \E cached \in BOOLEAN : ReturnsToSource(cached)) => HandoverIInv'
<1> SUFFICES ASSUME HandoverIInv,
                    \/ Says \/ ShowsWords \/ TypesDraft \/ LeavesSource \/ UserDeletes
                    \/ \E cached \in BOOLEAN : ReturnsToSource(cached)
             PROVE  HandoverIInv'
  OBVIOUS
<1>1. /\ sourceSaid \in Nat /\ sourceShown \in Nat /\ sourceDraft \in Nat
      /\ sourceShown <= sourceSaid /\ sourceLives \in BOOLEAN /\ sourceWatched \in BOOLEAN
  BY DEF HandoverIInv
<1>2. CASE Says \/ ShowsWords \/ TypesDraft
  BY <1>1, <1>2, SourceStepOK DEF Says, ShowsWords, TypesDraft
<1>3. CASE LeavesSource
  <2>0. /\ sourceSaid' = sourceSaid /\ sourceShown' = sourceShown /\ sourceWatched' = FALSE
        /\ sourceDraft' = sourceDraft /\ sourceLives' = sourceLives /\ endedBy' = endedBy
    BY <1>3 DEF LeavesSource, sourceVars
  <2>1. /\ sourceSaid' \in Nat /\ sourceDraft' \in Nat /\ sourceSaid <= sourceSaid'
        /\ sourceShown' \in {0, sourceShown, sourceSaid'} /\ sourceShown' <= sourceSaid'
    BY <1>1, <2>0
  <2>3. sourceDraft' = sourceDraft => sourceDraft <= sourceDraft'
    BY <1>1
  <2>4. /\ sourceLives' \in BOOLEAN /\ sourceWatched' \in BOOLEAN
        /\ (sourceLives' => sourceLives /\ sourceDraft <= sourceDraft')
        /\ (endedBy' = endedBy \/ endedBy' = "user")
    BY <1>1, <2>0, <2>3, Zenon
  <2>2. handovers' = [h \in Handovers |-> Strayed(handovers[h])]
    BY <1>3 DEF LeavesSource
  <2> QED BY <2>1, <2>2, <2>4, SourceStepOK, Zenon
<1>4. CASE UserDeletes
  <2>0. /\ sourceSaid' = sourceSaid /\ sourceShown' = sourceShown /\ sourceWatched' = FALSE
        /\ sourceDraft' = 0 /\ sourceLives' = FALSE /\ endedBy' = "user"
    BY <1>4 DEF UserDeletes
  <2>1. /\ sourceSaid' \in Nat /\ sourceDraft' \in Nat /\ sourceSaid <= sourceSaid'
        /\ sourceShown' \in {0, sourceShown, sourceSaid'} /\ sourceShown' <= sourceSaid'
    BY <1>1, <2>0
  <2>3. sourceDraft' = sourceDraft => sourceDraft <= sourceDraft'
    BY <1>1
  <2>4. /\ sourceLives' \in BOOLEAN /\ sourceWatched' \in BOOLEAN
        /\ (sourceLives' => sourceLives /\ sourceDraft <= sourceDraft')
        /\ (endedBy' = endedBy \/ endedBy' = "user")
    BY <1>1, <2>0, <2>3, Zenon
  <2>2. handovers' = [h \in Handovers |-> Strayed(handovers[h])]
    BY <1>4 DEF UserDeletes
  <2> QED BY <2>1, <2>2, <2>4, SourceStepOK, Zenon
<1>5. ASSUME NEW cached \in BOOLEAN, ReturnsToSource(cached) PROVE HandoverIInv'
  BY <1>1, <1>5, SourceStepOK DEF ReturnsToSource
<1> QED BY <1>2, <1>3, <1>4, <1>5

\* What a handover that is not over knows of the source.
LEMMA HandFacts ==
  ASSUME HandoverIInv, NEW h \in Handovers
  PROVE  /\ HandSound(handovers[h], sourceSaid, sourceShown, sourceDraft, sourceLives,
                      sourceWatched)
         /\ handovers[h] \in HandoverRecs
         /\ handovers[h].step # "done" => ~(endedBy = h)
         /\ sourceSaid \in Nat /\ sourceShown \in Nat /\ sourceDraft \in Nat
         /\ sourceShown <= sourceSaid /\ sourceLives \in BOOLEAN /\ sourceWatched \in BOOLEAN
BY DEF HandoverIInv, HandSound, MoveDone

LEMMA ConfirmsOK ==
  ASSUME HandoverIInv, NEW h \in Handovers, ConfirmMove(h) \/ ConfirmFork(h)
  PROVE  HandoverIInv'
<1>1. /\ sourceSaid \in Nat /\ sourceShown \in Nat /\ sourceDraft \in Nat
      /\ sourceShown <= sourceSaid /\ sourceLives \in BOOLEAN /\ sourceWatched \in BOOLEAN
      /\ handovers[h].step # "done" => ~(endedBy = h)
  BY HandFacts
<1>2. handovers[h].step = "idle" /\ UNCHANGED sourceVars
  BY DEF ConfirmMove, ConfirmFork, IsAt
<1>3. CASE ConfirmMove(h)
  <2> DEFINE x == [NoHandover EXCEPT !.how = "move", !.step = "controls",
                     !.seen = IF sourceWatched THEN sourceShown ELSE 0,
                     !.drafted = sourceDraft, !.select = sourceWatched]
  <2>1. Hand(h, x, FALSE)
    BY <1>3 DEF ConfirmMove
  <2>3. /\ x \in HandoverRecs /\ x.how = "move" /\ x.step = "controls"
        /\ x.seen \in {0, sourceShown} /\ x.drafted = sourceDraft /\ x.foreign = FALSE
    BY <1>1 DEF NoHandover, HandoverRecs
  <2> HIDE DEF x
  <2>2. HandSound(x, sourceSaid, sourceShown, sourceDraft, sourceLives,
                  sourceWatched /\ ~FALSE)
    BY <1>1, <2>3 DEF HandSound, Moves
  <2> QED BY <1>1, <1>2, <2>1, <2>2, HandOK
<1>4. CASE ConfirmFork(h)
  <2> DEFINE x == [NoHandover EXCEPT !.how = "fork", !.step = "native"]
  <2>1. Hand(h, x, FALSE) /\ sourceWatched
    BY <1>4 DEF ConfirmFork
  <2>2. HandSound(x, sourceSaid, sourceShown, sourceDraft, sourceLives,
                  sourceWatched /\ ~FALSE)
    BY <1>1, <2>1 DEF HandSound, Moves, NoHandover, HandoverRecs
  <2> HIDE DEF x
  <2> QED BY <1>1, <1>2, <2>1, <2>2, HandOK
<1> QED BY <1>3, <1>4

\* A handover that goes on from a step that is not the last one.
LEMMA HandGoesOnOK ==
  ASSUME HandoverIInv, NEW h \in Handovers, handovers[h].step # "done", NEW x,
         NEW leaves \in BOOLEAN, Hand(h, x, leaves), UNCHANGED sourceVars,
         \/ x \in {Over("done"), Over("failed")}
         \/ HandSound(x, sourceSaid, sourceShown, sourceDraft, sourceLives,
                      sourceWatched /\ ~leaves)
  PROVE  HandoverIInv'
<1>1. ~(endedBy = h)
  BY HandFacts
<1>2. HandSound(x, sourceSaid, sourceShown, sourceDraft, sourceLives, sourceWatched /\ ~leaves)
  BY OverIsSound
<1> QED BY <1>1, <1>2, HandOK

LEMMA RequestsOK ==
  ASSUME HandoverIInv, NEW h \in Handovers,
         \/ ControlsKnown(h)
         \/ \E how \in {"copied", "absent", "failed"} : NativeFork(h, how)
         \/ \E answered \in BOOLEAN : ContextRead(h, answered)
  PROVE  HandoverIInv'
<1> DEFINE x == handovers[h]
           Sound(y) == HandSound(y, sourceSaid, sourceShown, sourceDraft, sourceLives,
                                 sourceWatched)
<1>1. /\ Sound(x) /\ x \in HandoverRecs
      /\ sourceSaid \in Nat /\ sourceShown \in Nat /\ sourceDraft \in Nat
      /\ sourceShown <= sourceSaid /\ sourceLives \in BOOLEAN /\ sourceWatched \in BOOLEAN
  BY HandFacts
<1>2. CASE ControlsKnown(h)
  <2>1. x.step = "controls" /\ UNCHANGED sourceVars
    BY <1>2 DEF ControlsKnown, IsAt
  <2>2. CASE x.how = "fork" \/ (sourceWatched /\ sourceShown > 0)
    <3> DEFINE y == [x EXCEPT !.step = "create", !.foreign = ~sourceWatched,
                              !.words = IF sourceWatched THEN sourceShown ELSE 1]
    <3>1. Hand(h, y, FALSE)
      BY <1>2, <2>2 DEF ControlsKnown
    <3>3. /\ y \in HandoverRecs /\ y.how = x.how /\ y.step = "create" /\ y.seen = x.seen
          /\ y.drafted = x.drafted /\ y.foreign = ~sourceWatched /\ y.strayed = x.strayed
          /\ (sourceWatched => y.words = sourceShown)
      BY <1>1, <2>2 DEF HandoverRecs
    <3> HIDE DEF y
    <3>4. /\ x.how # "none" /\ x.foreign \in BOOLEAN
          /\ (Moves(x) => x.seen <= sourceSaid /\ (sourceLives => x.drafted <= sourceDraft))
          /\ (Moves(x) => sourceShown = 0 \/ sourceShown >= x.seen)
          /\ (x.how = "fork" => sourceWatched \/ x.strayed)
      BY <1>1, <2>1 DEF HandSound, HandoverRecs
    <3>5. x.how = "move" <=> Moves(x)
      BY <2>1 DEF Moves
    <3>6. x.how \in {"none", "move", "fork"}
      BY <1>1 DEF HandoverRecs
    <3>7. /\ sourceSaid \in Nat /\ sourceShown \in Nat /\ sourceDraft \in Nat
          /\ sourceLives \in BOOLEAN /\ sourceWatched \in BOOLEAN
      BY <1>1
    <3> HIDE DEF x
    <3>8. y.how = "move" => sourceWatched /\ y.words >= y.seen
      BY <2>2, <3>3, <3>4, <3>5, <3>7
    <3>9. y.foreign => y.how = "fork" /\ y.strayed
      BY <2>2, <3>3, <3>4, <3>6, <3>7
    <3>10. y.how = "move" => y.seen <= sourceSaid /\ (sourceLives => y.drafted <= sourceDraft)
      BY <3>3, <3>4, <3>5
    <3>11. y \in HandoverRecs /\ y.how # "none" /\ y.step = "create"
      BY <3>3, <3>4
    <3>2. HandSound(y, sourceSaid, sourceShown, sourceDraft, sourceLives, sourceWatched /\ ~FALSE)
      BY <3>8, <3>9, <3>10, <3>11 DEF HandSound, Moves
    <3> QED BY <2>1, <3>1, <3>2, HandGoesOnOK DEF x
  <2>3. CASE ~(x.how = "fork" \/ (sourceWatched /\ sourceShown > 0))
    <3> DEFINE y == [x EXCEPT !.step = "context"]
    <3>1. Hand(h, y, FALSE)
      BY <1>2, <2>3 DEF ControlsKnown
    <3>2. HandSound(y, sourceSaid, sourceShown, sourceDraft, sourceLives, sourceWatched /\ ~FALSE)
      BY <1>1, <2>1, <2>3 DEF HandSound, Moves, HandoverRecs
    <3> HIDE DEF y
    <3> QED BY <2>1, <3>1, <3>2, HandGoesOnOK
  <2> QED BY <2>2, <2>3
<1>3. ASSUME NEW how \in {"copied", "absent", "failed"}, NativeFork(h, how)
      PROVE  HandoverIInv'
  <2>1. x.step = "native" /\ UNCHANGED sourceVars
    BY <1>3 DEF NativeFork, IsAt
  <2> DEFINE leaves == how = "copied" /\ sourceLives
             y == CASE how = "copied" /\ sourceLives -> Over("done")
                    [] how = "absent" -> [x EXCEPT !.step = "controls"]
                    [] OTHER -> Over("failed")
  <2>2. Hand(h, y, leaves) /\ leaves \in BOOLEAN
    BY <1>1, <1>3 DEF NativeFork
  <2>3. CASE how = "absent"
    <3>1. y = [x EXCEPT !.step = "controls"] /\ leaves = FALSE
      BY <2>3
    <3>2. HandSound([x EXCEPT !.step = "controls"], sourceSaid, sourceShown, sourceDraft,
                    sourceLives, sourceWatched /\ ~FALSE)
      BY <1>1, <2>1 DEF HandSound, Moves, HandoverRecs
    <3> HIDE DEF y, leaves
    <3> QED BY <2>1, <2>2, <3>1, <3>2, HandGoesOnOK
  <2>4. CASE how # "absent"
    <3>1. y \in {Over("done"), Over("failed")}
      BY <2>4
    <3> HIDE DEF y, leaves
    <3> QED BY <2>1, <2>2, <3>1, HandGoesOnOK
  <2> QED BY <2>3, <2>4
<1>4. ASSUME NEW answered \in BOOLEAN, ContextRead(h, answered) PROVE HandoverIInv'
  <2>1. x.step = "context" /\ UNCHANGED sourceVars
    BY <1>4 DEF ContextRead, IsAt
  <2> DEFINE y == [x EXCEPT !.step = "create", !.words = sourceSaid]
  <2>2. Hand(h, y, FALSE) \/ Hand(h, Over("failed"), FALSE)
    BY <1>4 DEF ContextRead
  <2>3. HandSound(y, sourceSaid, sourceShown, sourceDraft, sourceLives, sourceWatched /\ ~FALSE)
    BY <1>1, <2>1 DEF HandSound, Moves, HandoverRecs
  <2> HIDE DEF y
  <2> QED BY <2>1, <2>2, <2>3, HandGoesOnOK
<1> QED BY <1>2, <1>3, <1>4

\* A copy that has all its words goes on to the removal of the source, or is a fork that
\* is done.
LEMMA RemovalIsSound ==
  ASSUME HandoverIInv, NEW x \in HandoverRecs, NEW watched \in BOOLEAN,
         x.how \in {"move", "fork"}, x.copy = "alive", ~x.foreign \/ x.how = "fork",
         x.how = "move" => /\ x.seen <= sourceSaid /\ x.told >= x.seen
                           /\ sourceLives => x.drafted <= sourceDraft
  PROVE  \/ ToRemoval(x) = Over("done")
         \/ HandSound(ToRemoval(x), sourceSaid, sourceShown, sourceDraft, sourceLives, watched)
<1>1. CASE x.how = "fork"
  BY <1>1 DEF ToRemoval
<1>2. CASE x.how = "move"
  <2> DEFINE y == [x EXCEPT !.step = "remove", !.draft = sourceDraft]
  <2>1. ToRemoval(x) = y
    BY <1>2 DEF ToRemoval
  <2>2. sourceDraft \in Nat
    BY DEF HandoverIInv
  <2>3. /\ y \in HandoverRecs /\ y.how = "move" /\ y.step = "remove" /\ y.seen = x.seen
        /\ y.drafted = x.drafted /\ y.copy = "alive" /\ y.told = x.told /\ y.draft = sourceDraft
        /\ y.foreign = x.foreign
    BY <1>2, <2>2 DEF HandoverRecs
  <2>4. x.foreign \in BOOLEAN
    BY DEF HandoverRecs
  <2> HIDE DEF y
  <2>5. HandSound(y, sourceSaid, sourceShown, sourceDraft, sourceLives, watched)
    BY <1>2, <2>3, <2>4 DEF HandSound, Moves
  <2> QED BY <2>1, <2>5
<1> QED BY <1>1, <1>2

LEMMA CopiesOK ==
  ASSUME HandoverIInv, NEW h \in Handovers, NEW answered \in BOOLEAN,
         \/ CopyUndone(h, answered)
         \/ \E taken \in BOOLEAN : CopyCreated(h, taken, answered)
                                   \/ CopyPrompted(h, taken, answered)
  PROVE  HandoverIInv'
<1> DEFINE x == handovers[h]
<1>1. /\ HandSound(x, sourceSaid, sourceShown, sourceDraft, sourceLives, sourceWatched)
      /\ x \in HandoverRecs
      /\ sourceSaid \in Nat /\ sourceShown \in Nat /\ sourceDraft \in Nat
      /\ sourceShown <= sourceSaid /\ sourceLives \in BOOLEAN /\ sourceWatched \in BOOLEAN
  BY HandFacts
<1>2. /\ x.how \in {"none", "move", "fork"} /\ x.words \in Nat /\ x.seen \in Nat /\ x.told \in Nat
      /\ x.foreign \in BOOLEAN
  BY <1>1 DEF HandoverRecs
<1>3. /\ x.step \in {"create", "prompt", "undo"} => x.how # "none"
      /\ x.step \in {"create", "prompt"} /\ x.how = "move" =>
           /\ x.seen <= sourceSaid /\ (sourceLives => x.drafted <= sourceDraft)
           /\ x.words >= x.seen
      /\ x.step = "prompt" => x.copy = "alive"
      /\ x.foreign => x.how = "fork" /\ x.strayed
  BY <1>1 DEF HandSound, Moves
<1>4. CASE CopyUndone(h, answered)
  <2>1. /\ x.step = "undo" /\ UNCHANGED sourceVars
        /\ Hand(h, Over("failed"), FALSE)
    BY <1>4 DEF CopyUndone, IsAt, Undone
  <2> QED BY <2>1, HandGoesOnOK
<1>5. ASSUME NEW works \in BOOLEAN, CopyCreated(h, works, answered) PROVE HandoverIInv'
  <2>1. x.step = "create" /\ UNCHANGED sourceVars /\ (answered => works)
    BY <1>5 DEF CopyCreated, IsAt
  <2> DEFINE y == [x EXCEPT !.copy = "alive"]
             leaves == answered /\ x.words = 0 /\ x.how = "fork"
  <2>2. Hand(h, IF ~answered THEN Over("failed")
                ELSE IF x.words > 0 THEN [y EXCEPT !.step = "prompt"] ELSE ToRemoval(y), leaves)
    <3>1. y.words = x.words /\ y.how = x.how
      BY <1>1 DEF HandoverRecs
    <3>2. CASE answered
      BY <1>5, <2>1, <3>1, <3>2 DEF CopyCreated
    <3>3. CASE ~answered
      BY <1>5, <3>3 DEF CopyCreated
    <3> QED BY <3>2, <3>3
  <2>3. leaves \in BOOLEAN
    OBVIOUS
  <2>4. /\ y \in HandoverRecs /\ y.how = x.how /\ y.copy = "alive" /\ y.seen = x.seen
        /\ y.drafted = x.drafted /\ y.told = x.told /\ y.foreign = x.foreign
        /\ y.words = x.words /\ y.strayed = x.strayed
    BY <1>1 DEF HandoverRecs
  <2>5. CASE ~answered
    BY <2>1, <2>2, <2>3, <2>5, HandGoesOnOK
  <2>6. CASE answered /\ x.words > 0
    <3> DEFINE z == [y EXCEPT !.step = "prompt"]
    <3>1. Hand(h, z, leaves)
      BY <2>2, <2>6
    <3>2. /\ z \in HandoverRecs /\ z.how = x.how /\ z.step = "prompt" /\ z.copy = "alive"
          /\ z.seen = x.seen /\ z.drafted = x.drafted /\ z.words = x.words
          /\ z.foreign = x.foreign /\ z.strayed = x.strayed
      BY <2>4 DEF HandoverRecs
    <3> HIDE DEF y, z
    <3>3. HandSound(z, sourceSaid, sourceShown, sourceDraft, sourceLives,
                    sourceWatched /\ ~leaves)
      <4> HIDE DEF x, leaves
      <4> QED BY <1>2, <1>3, <2>1, <3>2 DEF HandSound, Moves
    <3> HIDE DEF leaves
    <3> QED BY <2>1, <2>3, <3>1, <3>3, HandGoesOnOK
  <2>7. CASE answered /\ ~(x.words > 0)
    <3>1. Hand(h, ToRemoval(y), leaves)
      BY <2>2, <2>7
    <3>2. (sourceWatched /\ ~leaves) \in BOOLEAN
      OBVIOUS
    <3>3. x.how \in {"move", "fork"} /\ (~x.foreign \/ x.how = "fork")
      BY <1>2, <1>3, <2>1
    <3>4. x.how = "move" => /\ x.seen <= sourceSaid /\ x.told >= x.seen
                            /\ sourceLives => x.drafted <= sourceDraft
      BY <1>2, <1>3, <2>1, <2>7
    <3> HIDE DEF y, leaves
    <3>5. \/ ToRemoval(y) = Over("done")
          \/ HandSound(ToRemoval(y), sourceSaid, sourceShown, sourceDraft, sourceLives,
                       sourceWatched /\ ~leaves)
      BY <2>4, <3>2, <3>3, <3>4, RemovalIsSound
    <3> QED BY <2>1, <2>3, <3>1, <3>5, HandGoesOnOK
  <2> QED BY <2>5, <2>6, <2>7
<1>6. ASSUME NEW taken \in BOOLEAN, CopyPrompted(h, taken, answered) PROVE HandoverIInv'
  <2>1. x.step = "prompt" /\ UNCHANGED sourceVars /\ (answered => taken)
    BY <1>6 DEF CopyPrompted, IsAt
  <2> DEFINE y == IF taken THEN [x EXCEPT !.told = x.words] ELSE x
             leaves == answered /\ x.how = "fork"
  <2>2. Hand(h, IF answered THEN ToRemoval(y) ELSE [y EXCEPT !.step = "undo"], leaves)
    <3>1. y.how = x.how
      BY <1>1 DEF HandoverRecs
    <3> QED BY <1>6, <3>1 DEF CopyPrompted
  <2>3. leaves \in BOOLEAN
    OBVIOUS
  <2>4. /\ y \in HandoverRecs /\ y.how = x.how /\ y.copy = x.copy /\ y.seen = x.seen
        /\ y.drafted = x.drafted /\ y.foreign = x.foreign /\ y.strayed = x.strayed
        /\ (taken => y.told = x.words)
    BY <1>1, <1>2 DEF HandoverRecs
  <2>5. CASE ~answered
    <3> DEFINE z == [y EXCEPT !.step = "undo"]
    <3>1. Hand(h, z, leaves)
      BY <2>2, <2>5
    <3>2. /\ z \in HandoverRecs /\ z.how = x.how /\ z.step = "undo"
          /\ z.foreign = x.foreign /\ z.strayed = x.strayed
      BY <2>4 DEF HandoverRecs
    <3> HIDE DEF y, z
    <3>3. HandSound(z, sourceSaid, sourceShown, sourceDraft, sourceLives,
                    sourceWatched /\ ~leaves)
      <4> HIDE DEF x, leaves
      <4> QED BY <1>2, <1>3, <2>1, <3>2 DEF HandSound, Moves
    <3> HIDE DEF leaves
    <3> QED BY <2>1, <2>3, <3>1, <3>3, HandGoesOnOK
  <2>6. CASE answered
    <3>1. Hand(h, ToRemoval(y), leaves)
      BY <2>2, <2>6
    <3>2. (sourceWatched /\ ~leaves) \in BOOLEAN
      OBVIOUS
    <3>3. x.how \in {"move", "fork"} /\ (~x.foreign \/ x.how = "fork") /\ y.copy = "alive"
      BY <1>2, <1>3, <2>1, <2>4
    <3>4. x.how = "move" => /\ x.seen <= sourceSaid /\ y.told >= x.seen
                            /\ sourceLives => x.drafted <= sourceDraft
      <4> HIDE DEF y
      <4> QED BY <1>2, <1>3, <2>1, <2>4, <2>6
    <3> HIDE DEF y, leaves
    <3>5. \/ ToRemoval(y) = Over("done")
          \/ HandSound(ToRemoval(y), sourceSaid, sourceShown, sourceDraft, sourceLives,
                       sourceWatched /\ ~leaves)
      BY <2>4, <3>2, <3>3, <3>4, RemovalIsSound
    <3> QED BY <2>1, <2>3, <3>1, <3>5, HandGoesOnOK
  <2> QED BY <2>5, <2>6
<1> QED BY <1>4, <1>5, <1>6

LEMMA SourceRemovedOK ==
  ASSUME HandoverIInv, NEW h \in Handovers, NEW taken \in BOOLEAN, NEW answered \in BOOLEAN,
         SourceRemoved(h, taken, answered)
  PROVE  HandoverIInv'
<1> DEFINE x == handovers[h]
           y == IF taken THEN [x EXCEPT !.step = "done"] ELSE Over("done")
           leaves == x.select \/ answered
<1>1. /\ HandSound(x, sourceSaid, sourceShown, sourceDraft, sourceLives, sourceWatched)
      /\ x \in HandoverRecs /\ (x.step # "done" => ~(endedBy = h))
      /\ sourceSaid \in Nat /\ sourceShown \in Nat /\ sourceDraft \in Nat
      /\ sourceShown <= sourceSaid /\ sourceLives \in BOOLEAN /\ sourceWatched \in BOOLEAN
  BY HandFacts
<1>2. /\ x.step = "remove" /\ (answered => taken) /\ (taken => sourceLives)
      /\ sourceSaid' = sourceSaid /\ sourceShown' = sourceShown
      /\ sourceDraft' = (IF answered THEN 0 ELSE sourceDraft)
      /\ IF taken THEN sourceLives' = FALSE /\ endedBy' = h
         ELSE UNCHANGED <<sourceLives, endedBy>>
      /\ Hand(h, y, leaves)
  BY DEF SourceRemoved, IsAt
<1>3. /\ handovers' = [g \in Handovers |-> IF g = h THEN y
                                           ELSE IF leaves THEN Strayed(handovers[g])
                                           ELSE handovers[g]]
      /\ sourceWatched' = (sourceWatched /\ ~leaves)
  BY <1>2 DEF Hand
<1>4. sourceDraft' \in Nat /\ sourceSaid' \in Nat /\ sourceShown' \in Nat /\ sourceShown' <= sourceSaid'
  BY <1>1, <1>2
<1>5. sourceLives' \in BOOLEAN /\ sourceWatched' \in BOOLEAN /\ (sourceLives' => sourceLives)
  BY <1>1, <1>2, <1>3
<1>6. sourceLives' => sourceDraft <= sourceDraft'
  <2>1. sourceLives' => ~taken
    BY <1>2, Zenon
  <2>2. ~taken => sourceDraft' = sourceDraft
    BY <1>2, Zenon
  <2>3. sourceDraft <= sourceDraft
    BY <1>1
  <2> QED BY <2>1, <2>2, <2>3, Zenon
<1>7. HandSound(y, sourceSaid', sourceShown', sourceDraft', sourceLives', sourceWatched')
  <2>1. CASE taken
    <3>1. y = [x EXCEPT !.step = "done"]
      BY <2>1
    <3>2. /\ y \in HandoverRecs /\ y.step = "done" /\ y.how = x.how
          /\ y.foreign = x.foreign /\ y.strayed = x.strayed
      BY <1>1, <3>1 DEF HandoverRecs
    <3>3. x.foreign => x.how = "fork" /\ x.strayed
      BY <1>1 DEF HandSound
    <3> HIDE DEF x, y
    <3> QED BY <3>2, <3>3 DEF HandSound, Moves
  <2>2. CASE ~taken
    BY <2>2, OverIsSound
  <2> QED BY <2>1, <2>2
<1>8. taken => MoveDone(y) /\ ~sourceLives'
  <2>1. /\ x.how = "move" /\ x.copy = "alive" /\ x.told >= x.seen
        /\ (sourceLives => x.draft >= x.drafted)
    BY <1>1, <1>2 DEF HandSound
  <2> QED BY <1>1, <1>2, <2>1 DEF MoveDone, HandoverRecs
<1> HIDE DEF y, leaves
<1>9. ASSUME NEW g \in Handovers
      PROVE  /\ HandSound(handovers'[g], sourceSaid', sourceShown', sourceDraft', sourceLives',
                          sourceWatched')
             /\ endedBy' = g => ~sourceLives' /\ MoveDone(handovers'[g])
  <2>1. CASE g = h
    <3>1. handovers'[g] = y
      BY <1>3, <2>1
    <3>2. endedBy' = g => taken
      BY <1>1, <1>2, <2>1
    <3> QED BY <1>7, <1>8, <3>1, <3>2
  <2>2. CASE g # h
    <3>1. \/ handovers'[g] = handovers[g] /\ (sourceWatched => sourceWatched')
          \/ handovers'[g] = Strayed(handovers[g])
      <4>1. CASE leaves
        BY <1>3, <2>2, <4>1
      <4>2. CASE ~leaves
        BY <1>3, <2>2, <4>2
      <4> QED BY <4>1, <4>2
    <3>2. sourceSaid <= sourceSaid' /\ sourceShown' \in {0, sourceShown, sourceSaid'}
      BY <1>1, <1>2
    <3>3. /\ HandSound(handovers'[g], sourceSaid', sourceShown', sourceDraft', sourceLives',
                       sourceWatched')
          /\ MoveDone(handovers[g]) => MoveDone(handovers'[g])
      BY <1>4, <1>5, <1>6, <3>1, <3>2, OtherIsSound
    <3>4. endedBy' = g => endedBy = g /\ ~taken
      BY <1>2, <2>2
    <3>5. endedBy = g => ~sourceLives /\ MoveDone(handovers[g])
      BY DEF HandoverIInv
    <3> QED BY <1>5, <3>3, <3>4, <3>5
  <2> QED BY <2>1, <2>2
<1>10. handovers' = [g \in Handovers |-> handovers'[g]]
  BY <1>3
<1> QED BY <1>4, <1>5, <1>9, <1>10 DEF HandoverIInv

LEMMA HandoverStepOK == HandoverIInv /\ [HandoverNext]_handoverVars => HandoverIInv'
<1> SUFFICES ASSUME HandoverIInv, [HandoverNext]_handoverVars PROVE HandoverIInv'
  OBVIOUS
<1>1. CASE UNCHANGED handoverVars
  BY <1>1 DEF handoverVars, sourceVars, HandoverIInv
<1>2. CASE HandoverNext
  <2>1. ASSUME NEW h \in Handovers, ConfirmMove(h) \/ ConfirmFork(h) PROVE HandoverIInv'
    BY <2>1, ConfirmsOK
  <2>2. ASSUME NEW h \in Handovers,
               \/ ControlsKnown(h)
               \/ \E how \in {"copied", "absent", "failed"} : NativeFork(h, how)
               \/ \E answered \in BOOLEAN : ContextRead(h, answered)
        PROVE  HandoverIInv'
    BY <2>2, RequestsOK, Zenon
  <2>3. ASSUME NEW h \in Handovers, NEW answered \in BOOLEAN,
               \/ CopyUndone(h, answered)
               \/ \E taken \in BOOLEAN : CopyCreated(h, taken, answered)
                                         \/ CopyPrompted(h, taken, answered)
        PROVE  HandoverIInv'
    BY <2>3, CopiesOK, Zenon
  <2>4. ASSUME NEW h \in Handovers, NEW taken \in BOOLEAN, NEW answered \in BOOLEAN,
               SourceRemoved(h, taken, answered)
        PROVE  HandoverIInv'
    BY <2>4, SourceRemovedOK
  <2> QED BY <1>2, SourceStepsOK, <2>1, <2>2, <2>3, <2>4, Zenon DEF HandoverNext
<1> QED BY <1>1, <1>2

LEMMA HandoversAreKept == HandoverIInv => HandoversKeep
<1> SUFFICES ASSUME HandoverIInv PROVE HandoversKeep
  OBVIOUS
<1> QED BY DEF HandoverIInv, HandoversKeep, HandSound, MoveDone

\* A move to another project or a fork keeps the chat it began with until its copy has all
\* (transferSession, handleDrop, forkAtMessage).
THEOREM HandoversAlwaysKeep == HandoverSpec => []HandoversKeep
BY HandoverInitOK, HandoverStepOK, HandoversAreKept, PTL DEF HandoverSpec
=============================================================================
