------------------------------ MODULE Composer ------------------------------
(***************************************************************************)
(* The composer of the web client: its text, its drafts, its attachments   *)
(* and the two ways a prompt leaves it.  In an open chat                   *)
(* advanced-features.js takes the submit (a managed send); with no chat    *)
(* open app.js sends itself, after creating one.  Files are read by the    *)
(* browser after they were added, so a send waits for them while the user  *)
(* opens another chat, opens the same one again or takes a file out.       *)
(***************************************************************************)
EXTENDS Naturals, FiniteSets

CONSTANTS Texts,      \* what the user writes, each once
          Files,      \* what the user attaches, each once
          OpenChats,  \* chats there are
          NewChat,     \* no chat is open
          MadeChat,   \* the chat a send without one creates
          NoText,
          MaxOpens    \* bound: how often a chat is opened

ASSUME ComposerAssumption ==
  /\ NewChat \notin OpenChats /\ MadeChat \notin OpenChats \cup {NewChat}
  /\ "nowhere" \notin OpenChats \cup {NewChat, MadeChat}
  /\ NoText \notin Texts /\ MaxOpens \in Nat

VARIABLES inChat,     \* state.selected: a chat or none
          box,        \* the text area
          drafts,     \* saved texts
          chips,      \* state.attachments
          list,       \* the identity of the array chips lives in
          reads,      \* reads[f]: where reading f is
          sends,      \* submits under way
          locked,     \* the chat whose submit made the area read-only
          inTransit,     \* prompts a server took
          opens,      \* chats opened so far; the revision of advanced-features.js
          chatMade,       \* chats created by a send
          written,    \* written[t]: the chat t was written in
          taken,      \* files the user took out
          cancelled   \* texts that the composer gave up: see GivenUp

composerVars == <<inChat, box, drafts, chips, list, reads, sends, locked, inTransit,
                  opens, chatMade, written, taken, cancelled>>

Everywhere == OpenChats \cup {NewChat, MadeChat}
Submitted(stage) ==
  [text |-> box, chat |-> inChat, files |-> chips, list |-> list,
   opens |-> opens, stage |-> stage, asked |-> chips]

-----------------------------------------------------------------------------
(* Writing and attaching *)

Write(t) ==
  /\ box = NoText /\ ~locked /\ written[t] = "nowhere"
  /\ box' = t /\ written' = [written EXCEPT ![t] = inChat]
  /\ UNCHANGED <<inChat, drafts, chips, list, reads, sends, locked, inTransit, opens,
                 chatMade, taken, cancelled>>

\* saveDraftNow, 180 ms after the last input.
DraftSaved ==
  /\ drafts' = [drafts EXCEPT ![inChat] = box]
  /\ UNCHANGED <<inChat, box, chips, list, reads, sends, locked, inTransit, opens,
                 chatMade, written, taken, cancelled>>

\* addFiles, also by a paste while a send is under way.
AddFile(f) ==
  /\ reads[f] = "none"
  /\ chips' = chips \cup {f}
  /\ reads' = [reads EXCEPT ![f] = "reading"]
  /\ UNCHANGED <<inChat, box, drafts, list, sends, locked, inTransit, opens, chatMade,
                 written, taken, cancelled>>

\* finish(): only a file of the list that is still shown is filled in.
FileRead(f, how) ==
  /\ reads[f] = "reading"
  /\ reads' = [reads EXCEPT ![f] = IF f \in chips THEN how ELSE "released"]
  /\ UNCHANGED <<inChat, box, drafts, chips, list, sends, locked, inTransit, opens,
                 chatMade, written, taken, cancelled>>

Released(files) == [f \in Files |-> IF f \in files THEN "released" ELSE reads[f]]

\* removeAttachment
RemoveFile(f) ==
  /\ f \in chips
  /\ chips' = chips \ {f}
  /\ reads' = Released({f})
  /\ taken' = taken \cup {f}
  /\ UNCHANGED <<inChat, box, drafts, list, sends, locked, inTransit, opens, chatMade,
                 written, cancelled>>

-----------------------------------------------------------------------------
(* selectSession and clearSelection: the draft is saved, the attachments are *)
(* dropped with their array, the other draft comes back; advanced-features  *)
(* forgets the send of another chat, not the one of the same chat.          *)

Opened(c) ==
  /\ drafts' = [drafts EXCEPT ![inChat] = box]
  /\ box' = drafts'[c]
  /\ chips' = {} /\ list' = list + 1
  /\ reads' = Released(chips)
  /\ inChat' = c
  /\ IF c = inChat THEN UNCHANGED <<opens, locked>>
     ELSE opens' = opens + 1 /\ locked' = FALSE

OpenChat(c) ==
  /\ list < MaxOpens /\ c \in OpenChats \cup {NewChat} \cup chatMade
  /\ Opened(c)
  /\ UNCHANGED <<sends, inTransit, chatMade, written, taken, cancelled>>

-----------------------------------------------------------------------------
(* interceptSubmit *)

\* submitPending, which opening another chat resets
SubmitPending == \E x \in sends :
  x.stage \in {"reading", "posting", "taken"} /\ x.chat = inChat /\ x.opens = opens

Submit ==
  /\ inChat # NewChat /\ ~SubmitPending
  /\ box # NoText \/ chips # {}
  /\ sends' = sends \cup {Submitted("reading")}
  /\ box' = NoText /\ locked' = TRUE
  /\ UNCHANGED <<inChat, drafts, chips, list, reads, inTransit, opens, chatMade,
                 written, taken, cancelled>>

\* readAttachments: what is still in the array, each file read.
Settled(x) == \A f \in x.files : reads[f] # "reading"
Unreadable(x) == x.list = list /\ \E f \in x.files \cap chips : reads[f] = "failed"
ReadFiles(x) == IF x.list = list THEN {f \in x.files \cap chips : reads[f] = "read"} ELSE {}
StillOpen(x) == x.chat = inChat /\ x.opens = opens

GivenUp(texts) == cancelled' = cancelled \cup (texts \ {NoText})
Posted(x) ==
  inTransit' = inTransit \cup {[text |-> x.text, chat |-> x.chat, files |-> x.files,
                              asked |-> x.asked \ taken]}
Resend(x, y) == sends' = (sends \ {x}) \cup {y}
\* The send gives its text back and lets go of the area.
PutBack(x) ==
  /\ sends' = sends \ {x}
  /\ IF StillOpen(x)
     THEN box' = x.text /\ locked' = FALSE /\ GivenUp({box} \ {x.text})
     ELSE UNCHANGED <<box, locked>> /\ GivenUp({x.text})

\* Faulty variant: the same chat opened again is not noticed.
SameListAny(x) == TRUE
\* Reopening the same chat has dropped the files: the send is cancelled too.
SameList(x) == x.list = list

SubmitReady(x) ==
  /\ x \in sends /\ x.stage = "reading" /\ Settled(x)
  /\ CASE ~StillOpen(x) -> PutBack(x)
       [] StillOpen(x) /\ Unreadable(x) -> PutBack(x)
       [] StillOpen(x) /\ ~Unreadable(x) /\ ~SameList(x) ->
            /\ sends' = sends \ {x}
            /\ box' = IF box = NoText THEN x.text ELSE box
            /\ GivenUp(IF box = NoText THEN {} ELSE {x.text})
            /\ locked' = FALSE
       [] OTHER ->
            /\ IF x.text = NoText /\ ReadFiles(x) = {}
               THEN sends' = sends \ {x} /\ locked' = FALSE
               ELSE /\ Resend(x, [x EXCEPT !.stage = "posting", !.files = ReadFiles(x)])
                    /\ UNCHANGED locked
            /\ UNCHANGED <<box, cancelled>>
  /\ UNCHANGED <<inChat, drafts, chips, list, reads, inTransit, opens, chatMade,
                 written, taken>>

\* client-send.json or client-queue.json is taken.
ServerTakes(x) ==
  /\ x \in sends /\ x.stage = "posting"
  /\ Posted(x)
  /\ Resend(x, [x EXCEPT !.stage = "taken"])
  /\ UNCHANGED <<inChat, box, drafts, chips, list, reads, locked, opens, chatMade,
                 written, taken, cancelled>>

\* clearComposer(attachments) takes out what was sent, not what was added since.
SendDone(x) ==
  /\ x \in sends /\ x.stage = "taken"
  /\ sends' = sends \ {x}
  /\ IF StillOpen(x)
     THEN /\ box' = NoText /\ locked' = FALSE
          /\ chips' = chips \ x.files
          /\ reads' = Released(x.files \cap chips)
          /\ GivenUp({box} \ {x.text})
     ELSE UNCHANGED <<box, locked, chips, reads, cancelled>>
  /\ UNCHANGED <<inChat, drafts, list, inTransit, opens, chatMade, written, taken>>

SubmitFails(x) ==
  /\ x \in sends /\ x.stage = "posting"
  /\ PutBack(x)
  /\ UNCHANGED <<inChat, drafts, chips, list, reads, inTransit, opens, chatMade,
                 written, taken>>

-----------------------------------------------------------------------------
(* sendMessage with no chat open *)

QuickSubmit ==
  /\ inChat = NewChat /\ ~locked /\ (box # NoText \/ chips # {})
  /\ MadeChat \notin chatMade
  /\ \A x \in sends : x.stage # "creating" /\ x.list # list
  /\ sends' = sends \cup {Submitted("native")}
  /\ locked' = TRUE
  /\ UNCHANGED <<inChat, box, drafts, chips, list, reads, inTransit, opens, chatMade,
                 written, taken, cancelled>>

\* The text is taken out of the area only when the files are read.
QuickReady(x) ==
  /\ x \in sends /\ x.stage = "native" /\ Settled(x)
  /\ IF x.list # list \/ inChat # NewChat \/ Unreadable(x) \/ (x.text = NoText /\ ReadFiles(x) = {})
     THEN /\ sends' = sends \ {x}
          /\ locked' = (locked /\ inChat # NewChat)
          /\ UNCHANGED <<box, drafts, chips, reads, cancelled>>
     ELSE /\ Resend(x, [x EXCEPT !.stage = "creating", !.files = ReadFiles(x)])
          /\ GivenUp({box} \ {x.text})
          /\ box' = NoText
          /\ chips' = chips \ x.files
          /\ reads' = Released(x.files)
          /\ drafts' = [drafts EXCEPT ![NewChat] = NoText]
          /\ UNCHANGED locked
  /\ UNCHANGED <<inChat, list, inTransit, opens, chatMade, written, taken>>

\* createAt: the chat is opened, whatever the user opened meanwhile.
QuickCreated(x) ==
  /\ x \in sends /\ x.stage = "creating"
  /\ Opened(MadeChat)
  /\ chatMade' = chatMade \cup {MadeChat}
  /\ Resend(x, [x EXCEPT !.stage = "sending", !.chat = MadeChat])
  /\ UNCHANGED <<inTransit, written, taken, cancelled>>

QuickTaken(x) ==
  /\ x \in sends /\ x.stage = "sending"
  /\ Posted(x)
  /\ sends' = sends \ {x}
  /\ locked' = (locked /\ x.chat # inChat)
  /\ UNCHANGED <<inChat, box, drafts, chips, list, reads, opens, chatMade, written,
                 taken, cancelled>>

\* The text and the files come back to the chat they failed in, unless another
\* one is open, or another text in the area.
QuickFails(x) ==
  /\ x \in sends /\ x.stage \in {"creating", "sending"}
  /\ sends' = sends \ {x}
  /\ IF x.chat = inChat
     THEN /\ GivenUp(IF box = NoText THEN {} ELSE {x.text})
          /\ box' = IF box = NoText THEN x.text ELSE box
          /\ chips' = chips \cup x.files
          /\ reads' = [f \in Files |-> IF f \in x.files THEN "read" ELSE reads[f]]
          /\ drafts' = [drafts EXCEPT ![inChat] = box']
          /\ locked' = FALSE
     ELSE /\ GivenUp({x.text})
          /\ UNCHANGED <<box, chips, reads, drafts, locked>>
  /\ UNCHANGED <<inChat, list, inTransit, opens, chatMade, written, taken>>

-----------------------------------------------------------------------------
ComposerInit ==
  /\ inChat = NewChat /\ box = NoText /\ chips = {} /\ list = 0 /\ opens = 0
  /\ drafts = [c \in Everywhere |-> NoText]
  /\ reads = [f \in Files |-> "none"]
  /\ sends = {} /\ locked = FALSE /\ inTransit = {} /\ taken = {} /\ cancelled = {}
  /\ chatMade = {} /\ written = [t \in Texts |-> "nowhere"]

\* A submit without files goes on before anything else can happen.
AtOnce(x) == x.stage \in {"reading", "native"} /\ x.files = {}

ComposerUser ==
  \/ \E t \in Texts : Write(t)
  \/ DraftSaved \/ Submit \/ QuickSubmit
  \/ \E f \in Files : AddFile(f) \/ RemoveFile(f) \/ \E how \in {"read", "failed"} : FileRead(f, how)
  \/ \E c \in Everywhere : OpenChat(c)

ComposerSend(x) ==
  \/ ServerTakes(x) \/ SendDone(x) \/ SubmitFails(x)
  \/ QuickCreated(x) \/ QuickTaken(x) \/ QuickFails(x)

ComposerNext ==
  \/ \E x \in sends : SubmitReady(x) \/ QuickReady(x)
  \/ /\ \A x \in sends : ~AtOnce(x)
     /\ ComposerUser \/ \E x \in sends : ComposerSend(x)

ComposerSpec == ComposerInit /\ [][ComposerNext]_composerVars

\* The composer keeps values of their types.
ComposerTypeOK ==
  /\ inChat \in Everywhere /\ box \in Texts \cup {NoText} /\ locked \in BOOLEAN
  /\ drafts \in [Everywhere -> Texts \cup {NoText}]
  /\ chips \subseteq Files /\ taken \subseteq Files /\ cancelled \subseteq Texts
  /\ list \in Nat /\ opens \in Nat /\ chatMade \subseteq {MadeChat}
  /\ reads \in [Files -> {"none", "reading", "read", "failed", "released"}]
  /\ \A x \in sends :
       /\ x.text \in Texts \cup {NoText} /\ x.chat \in Everywhere /\ x.files \subseteq Files
       /\ x.stage \in {"reading", "posting", "taken", "native", "creating", "sending"}
  /\ \A m \in inTransit : m.chat \in Everywhere /\ m.files \subseteq Files

\* A prompt goes to the chat it was written in, once, and whole: a file that was
\* in the composer at the submit is left out only when the user took it out, never
\* because a chat, the same one included, was opened while it was read.  A text
\* that is nowhere was sent, or given up by a change of chats or by the text of
\* another send that came back.
SendIsWhole ==
  /\ \A m \in inTransit :
       /\ m.asked \subseteq m.files
       /\ m.text # NoText =>
            /\ written[m.text] = m.chat \/ (written[m.text] = NewChat /\ m.chat = MadeChat)
            /\ \A n \in inTransit : n.text = m.text => n = m
  /\ \A t \in Texts : written[t] # "nowhere" =>
       \/ t = box \/ t \in cancelled
       \/ \E c \in Everywhere : drafts[c] = t
       \/ \E x \in sends : x.text = t
       \/ \E m \in inTransit : m.text = t
=============================================================================
