---------------------------- MODULE ModalHistory ----------------------------
(***************************************************************************)
(* The dialogs of the web page and the browser's history (app/modal-ui.js).*)
(* Every dialog that opens adds a history entry marked with its token, so  *)
(* that Back closes the dialog on top; a dialog closed otherwise goes back *)
(* over its entry, unless another one takes the entry over in the same     *)
(* event.  The close event, history.back() and popstate come later than    *)
(* what caused them.  On a phone a dialog is dismissed by a swipe.         *)
(*                                                                         *)
(* Left out: a change of location.hash by the page while a dialog is open. *)
(***************************************************************************)
EXTENDS Naturals, SequencesExt

CONSTANTS Modals,      \* the dialogs of the page
          NoModal,
          SheetModals, \* those that are swiped
          LongModals,  \* those that wait for the server, with aria-busy
          MaxModalShows,    \* bound: dialogs shown
          MaxWalks     \* bound: steps of the user in the history

ASSUME ModalAssumption ==
  /\ NoModal \notin Modals /\ {SheetModals, LongModals} \subseteq SUBSET Modals
  /\ MaxModalShows \in Nat /\ MaxWalks \in Nat

VARIABLES walked,       \* the history: the marker of each entry, 0 when it has none
          entryAt,           \* the current entry
          travels,      \* traversals under way: "code" for history.back(), "back", "forward"
          onScreen,     \* dialogs that are open
          busyModals,   \* dialogs with aria-busy
          modalToken,   \* dataset.modalHistoryToken, 0 when deleted
          openDialogs,
          replaced,     \* replacedDialogs
          pendingClose,
          closeEvents,  \* close events that were not handled yet
          restore,      \* the dialog of historyRestoreWaiter
          sheetGesture,
          settling,     \* dialogs with the class sheet-settling
          sheetDue,     \* settleSheet and dismissSheet waiting for the transition
          modalShows, walks, \* dialogs shown and steps of the user so far
          home,         \* the entry the page is at without its dialogs
          crossed       \* something the page does not order happened: ShowCrosses, CloseCrosses

modalVars == <<walked, entryAt, travels, onScreen, busyModals, modalToken, openDialogs,
               replaced, pendingClose, closeEvents, restore, sheetGesture, settling,
               sheetDue, modalShows, walks, home, crossed>>
sheets == <<sheetGesture, settling, sheetDue>>
browser == <<walked, entryAt, travels, home>>
counts == <<modalShows, walks>>

NoPending == [dialog |-> NoModal, token |-> 0]
Marker == walked[entryAt]
\* currentDialog: the last of openDialogs that is open.
OpenOnes == {i \in DOMAIN openDialogs : openDialogs[i] \in onScreen}
Current == IF OpenOnes = {} THEN NoModal ELSE openDialogs[Max(OpenOnes)]
Quiet == travels = <<>> /\ closeEvents = <<>>

-----------------------------------------------------------------------------
(* showModal and registerDialog *)

\* Faulty variant: a dialog that replaces another one gets an entry of its own.
NeverTakesOver == FALSE
Announced == pendingClose # NoPending /\ Marker = pendingClose.token
TakesEntryOver == Announced

Register(d) ==
  IF Contains(openDialogs, d)
  THEN UNCHANGED <<browser, modalToken, openDialogs, replaced, pendingClose>>
  ELSE /\ openDialogs' = Append(openDialogs, d)
       /\ UNCHANGED travels
       /\ IF TakesEntryOver
          THEN /\ replaced' = replaced \cup {pendingClose.dialog}
               /\ modalToken' = [modalToken EXCEPT ![d] = pendingClose.token]
               /\ pendingClose' = NoPending
               /\ UNCHANGED <<walked, entryAt, home>>
          ELSE /\ modalToken' = [modalToken EXCEPT ![d] = modalShows + 1]
               /\ walked' = Append(SubSeq(walked, 1, entryAt), modalShows + 1)
               /\ entryAt' = entryAt + 1
               /\ home' = IF openDialogs = <<>> THEN entryAt ELSE home
               /\ UNCHANGED <<replaced, pendingClose>>

\* What the page does not order: a dialog shown between history.back() and its popstate,
\* again before its close event, or before that of a dialog closed with Escape.
ShowCrosses(d) ==
  travels # <<>> \/ Contains(openDialogs, d) \/ (closeEvents # <<>> /\ ~Announced)

ShowModal(d) ==
  /\ d \notin onScreen /\ modalShows < MaxModalShows
  /\ modalShows' = modalShows + 1
  /\ onScreen' = onScreen \cup {d}
  /\ Register(d)
  /\ crossed' = (crossed \/ ShowCrosses(d))
  /\ UNCHANGED <<busyModals, closeEvents, restore, sheets, walks>>

-----------------------------------------------------------------------------
(* close, its event, and the way back *)

\* dialog.close(): markDialogClose, then the browser closes it.
Marked(d) ==
  IF modalToken[d] # 0 /\ Marker = modalToken[d]
  THEN [dialog |-> d, token |-> modalToken[d]] ELSE pendingClose
Closes(d) ==
  /\ onScreen' = onScreen \ {d}
  /\ closeEvents' = Append(closeEvents, d)
CloseCrosses(d) == d # Current \/ ~Quiet

\* By a script, which does not ask whether the dialog is busy.
CloseByCode(d) ==
  /\ d \in onScreen
  /\ Closes(d) /\ pendingClose' = Marked(d)
  /\ crossed' = (crossed \/ CloseCrosses(d))
  /\ UNCHANGED <<browser, busyModals, modalToken, openDialogs, replaced, restore,
                 sheets, counts>>

\* closeDialog: a button of the dialog, or a click on its backdrop.
CloseByButton(d) == d = Current /\ d \notin busyModals /\ CloseByCode(d)

\* Escape: the browser closes it, without markDialogClose.
CloseByEscape(d) ==
  /\ d \in onScreen /\ d = Current
  /\ Closes(d)
  /\ crossed' = (crossed \/ CloseCrosses(d))
  /\ UNCHANGED <<browser, busyModals, modalToken, openDialogs, replaced, pendingClose,
                 restore, sheets, counts>>

\* closeAndRestore: its caller goes on when the history is back, or after 1500 ms.
CloseAndRestore(d) ==
  /\ d \in onScreen /\ modalToken[d] # 0 /\ Marker = modalToken[d] /\ restore = NoModal
  /\ restore' = d
  /\ IF d \in busyModals
     THEN UNCHANGED <<onScreen, closeEvents, pendingClose, crossed>>
     ELSE /\ Closes(d) /\ pendingClose' = Marked(d)
          /\ crossed' = (crossed \/ CloseCrosses(d))
  /\ UNCHANGED <<browser, busyModals, modalToken, openDialogs, replaced, sheets,
                 counts>>

RestoreTimesOut ==
  /\ restore # NoModal
  /\ restore' = NoModal /\ pendingClose' = NoPending
  /\ walked' = [walked EXCEPT ![entryAt] = 0]
  /\ crossed' = TRUE
  /\ UNCHANGED <<entryAt, travels, home, onScreen, busyModals, modalToken, openDialogs,
                 replaced, closeEvents, sheets, counts>>

\* handleDialogClose: a replaced dialog leaves its entry to the other one; one that still
\* has the current entry goes back over it; any other one leaves the history alone.
CloseEvent ==
  /\ closeEvents # <<>>
  /\ LET d == Head(closeEvents) IN
     /\ openDialogs' = RemoveFirst(openDialogs, d)
     /\ modalToken' = [modalToken EXCEPT ![d] = 0]
     /\ replaced' = replaced \ {d}
     /\ settling' = settling \ {d}
     /\ sheetGesture' = IF sheetGesture = d THEN NoModal ELSE sheetGesture
     /\ restore' = IF d \in replaced THEN NoModal ELSE restore
     /\ IF d \notin replaced /\ modalToken[d] # 0 /\ Marker = modalToken[d]
        THEN /\ pendingClose' = [dialog |-> d, token |-> modalToken[d]]
             /\ travels' = Append(travels, "code")
        ELSE UNCHANGED <<pendingClose, travels>>
  /\ closeEvents' = Tail(closeEvents)
  /\ UNCHANGED <<walked, entryAt, home, onScreen, busyModals, sheetDue, counts, crossed>>

-----------------------------------------------------------------------------
(* The user's steps, popstate and navigate *)

\* A step that meets a close under way, and a step forward under a dialog, are not ordered.
UserWalks(way) ==
  /\ walks < MaxWalks
  /\ walks' = walks + 1
  /\ travels' = Append(travels, way)
  /\ crossed' = (crossed \/ ~Quiet \/ (way = "forward" /\ onScreen # {}))
  /\ UNCHANGED <<walked, entryAt, home, onScreen, busyModals, modalToken, openDialogs,
                 replaced, pendingClose, closeEvents, restore, sheets, modalShows>>

Target == IF Head(travels) = "forward" THEN entryAt + 1 ELSE entryAt - 1

\* The traversal and its popstate: that of a close under way only ends it; otherwise the
\* dialog on top is closed unless its entry is the current one; a marker without a dialog
\* is removed.
PopState ==
  /\ travels # <<>>
  /\ travels' = Tail(travels)
  /\ IF Target \notin DOMAIN walked
     THEN UNCHANGED <<walked, entryAt, home, onScreen, pendingClose, closeEvents, restore>>
     ELSE /\ entryAt' = Target
          /\ home' = IF entryAt = home /\ Head(travels) # "code" THEN Target ELSE home
          /\ IF pendingClose # NoPending
             THEN /\ pendingClose' = NoPending /\ restore' = NoModal
                  /\ UNCHANGED <<walked, onScreen, closeEvents>>
             ELSE /\ UNCHANGED <<pendingClose, restore>>
                  /\ IF Current = NoModal
                     THEN /\ walked' = [walked EXCEPT ![Target] = 0]
                          /\ UNCHANGED <<onScreen, closeEvents>>
                     ELSE /\ UNCHANGED walked
                          /\ IF walked[Target] = modalToken[Current]
                             THEN UNCHANGED <<onScreen, closeEvents>> ELSE Closes(Current)
  /\ UNCHANGED <<busyModals, modalToken, openDialogs, replaced, sheets, counts,
                 crossed>>

\* navigate: the entry of the dialog on top becomes that of the new address.
Navigate ==
  /\ Current # NoModal /\ modalToken[Current] # 0 /\ Marker = modalToken[Current]
  /\ walked' = [walked EXCEPT ![entryAt] = 0]
  /\ home' = entryAt
  /\ pendingClose' = NoPending
  /\ crossed' = (crossed \/ Len(openDialogs) > 1 \/ ~Quiet)
  /\ UNCHANGED <<entryAt, travels, onScreen, busyModals, modalToken, openDialogs, replaced,
                 closeEvents, restore, sheets, counts>>

-----------------------------------------------------------------------------
(* aria-busy, and the swipe *)

BusyChanges(d) ==
  /\ d \in onScreen \cap LongModals
  /\ busyModals' = IF d \in busyModals THEN busyModals \ {d} ELSE busyModals \cup {d}
  /\ UNCHANGED <<browser, onScreen, modalToken, openDialogs, replaced, pendingClose,
                 closeEvents, restore, sheets, counts, crossed>>

DragStarts(d) ==
  /\ d = Current /\ d \in SheetModals \ (busyModals \cup settling)
  /\ sheetGesture = NoModal
  /\ sheetGesture' = d
  /\ UNCHANGED <<browser, onScreen, busyModals, modalToken, openDialogs, replaced,
                 pendingClose, closeEvents, restore, settling, sheetDue, counts,
                 crossed>>

\* Far or fast enough dismisses the sheet, otherwise it settles; a scroll does neither.
DragEnds ==
  /\ sheetGesture # NoModal
  /\ sheetGesture' = NoModal
  /\ \/ UNCHANGED <<settling, sheetDue>>
     \/ /\ settling' = settling \cup {sheetGesture}
        /\ \E end \in {"settle", "dismiss"} : sheetDue' = sheetDue \cup {<<sheetGesture, end>>}
  /\ UNCHANGED <<browser, onScreen, busyModals, modalToken, openDialogs, replaced,
                 pendingClose, closeEvents, restore, counts, crossed>>

\* The transition ends, or its 380 ms: closeDialog for a dismissed sheet, and resetSheet.
\* The dialog may have been closed and shown again since: it is closed all the same.
TransitionEnds(d, end) ==
  /\ <<d, end>> \in sheetDue
  /\ sheetDue' = sheetDue \ {<<d, end>>}
  /\ settling' = settling \ {d}
  /\ sheetGesture' = IF sheetGesture = d THEN NoModal ELSE sheetGesture
  /\ IF end = "dismiss" /\ d \in onScreen \ busyModals
     THEN /\ Closes(d) /\ pendingClose' = Marked(d)
          /\ crossed' = (crossed \/ CloseCrosses(d))
     ELSE UNCHANGED <<onScreen, closeEvents, pendingClose, crossed>>
  /\ UNCHANGED <<browser, busyModals, modalToken, openDialogs, replaced, restore,
                 counts>>

-----------------------------------------------------------------------------
ModalInit ==
  /\ walked = <<0, 0>> /\ entryAt = 2 /\ home = 2 /\ travels = <<>>
  /\ onScreen = {} /\ busyModals = {} /\ modalToken = [d \in Modals |-> 0]
  /\ openDialogs = <<>> /\ replaced = {} /\ pendingClose = NoPending /\ closeEvents = <<>>
  /\ restore = NoModal /\ sheetGesture = NoModal /\ settling = {} /\ sheetDue = {}
  /\ modalShows = 0 /\ walks = 0 /\ crossed = FALSE

ModalNext ==
  \/ \E d \in Modals :
       \/ ShowModal(d) \/ CloseByCode(d) \/ CloseByButton(d) \/ CloseByEscape(d)
       \/ CloseAndRestore(d) \/ BusyChanges(d) \/ DragStarts(d)
       \/ \E end \in {"settle", "dismiss"} : TransitionEnds(d, end)
  \/ \E way \in {"back", "forward"} : UserWalks(way)
  \/ RestoreTimesOut \/ CloseEvent \/ PopState \/ Navigate \/ DragEnds

ModalSpec == ModalInit /\ [][ModalNext]_modalVars

ModalTypeOK ==
  /\ entryAt \in DOMAIN walked /\ \A i \in DOMAIN walked : walked[i] \in 0..MaxModalShows
  /\ \A i \in DOMAIN travels : travels[i] \in {"code", "back", "forward"}
  /\ onScreen \cup busyModals \cup replaced \cup settling \subseteq Modals
  /\ modalToken \in [Modals -> 0..MaxModalShows]
  /\ {sheetGesture, restore} \subseteq Modals \cup {NoModal}
  /\ pendingClose \in [dialog : Modals \cup {NoModal}, token : 0..MaxModalShows]
  /\ \A i \in DOMAIN openDialogs : openDialogs[i] \in Modals
  /\ sheetDue \subseteq Modals \X {"settle", "dismiss"}
  /\ modalShows \in 0..MaxModalShows /\ walks \in 0..MaxWalks /\ home \in Nat /\ crossed \in BOOLEAN

\* Once every close and every traversal is over, the history is as the page left it: without
\* a dialog the user is at the entry of before, unmarked; with one, at the marked entry of
\* the dialog on top, so that Back closes it and nothing else (or at the entry navigate took
\* over); no popstate is left to be swallowed, and a sheet that settles has its end to come
\* (modal-ui.js).  What the page does not order is excepted.
HistoryFits ==
  /\ \A d \in settling : \E end \in {"settle", "dismiss"} : <<d, end>> \in sheetDue
  /\ Quiet /\ ~crossed =>
       /\ pendingClose = NoPending
       /\ ToSet(openDialogs) = onScreen
       /\ IF Current = NoModal THEN entryAt = home /\ Marker = 0
          ELSE Marker = modalToken[Current] \/ entryAt = home

=============================================================================
