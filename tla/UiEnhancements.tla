--------------------------- MODULE UiEnhancements ---------------------------
(***************************************************************************)
(* Three small machines of the page.  The model picker regroups the flat   *)
(* list the page renders, by the free models of the open chat's directory, *)
(* which it reads and keeps for a minute (app/ui-enhancements.js).  The    *)
(* folder browser of the project dialog shows one folder after another and *)
(* opens, or makes, a folder as a project (the same file).  The slash      *)
(* commands: each keystroke looks the commands up for the palette, in the  *)
(* directory of the open chat, and answers come in any order; a submitted  *)
(* command runs in the open chat, or in a quick session made for it        *)
(* (app/enhancements.js).                                                  *)
(***************************************************************************)
EXTENDS Naturals, FiniteSets, Sequences

CONSTANTS PickerChats, NoKeys,
          MaxRenders,   \* bound: renders of the flat list
          MaxFreeReads, \* bound: reads of the models
          Paths, Top,   \* folders; Top stands for the list of the roots
          OnlyRoot,     \* the single root, or Top when there are several
          MaxBrowses,   \* bound: folders asked for
          MaxPosts      \* bound: folders opened or made

ASSUME EnhancementsAssumption ==
  /\ NoKeys \notin PickerChats /\ Top \notin Paths /\ OnlyRoot \in Paths \cup {Top}
  /\ {MaxRenders, MaxFreeReads, MaxBrowses, MaxPosts} \subseteq Nat

VARIABLES pickerChat,       \* currentSessionKey()
          modelsRendered,   \* renders of the flat list
          modelList,        \* what #modelChoices holds
          decorationQueued, \* decorateModelChoices is queued
          decorating,       \* the decoration under way, and the read it waits for
          observing,        \* the observer watches the list
          freeKeys,         \* freeKeysState
          freeReads,        \* the reads under way
          readsMade,
          decorationFailed  \* history: the last decoration threw

pickerVars == <<pickerChat, modelsRendered, modelList, decorationQueued, decorating,
                observing, freeKeys, freeReads, readsMade, decorationFailed>>

VARIABLES folderSeq,     \* directoryBrowseSeq
          folderReads,   \* the snapshots asked for
          pane,          \* what #projectBrowser shows
          folderPosts,   \* the folders being opened or made
          foldersPosted, \* how many
          project,       \* the project opened last
          lastAsked      \* history: the folder asked for last

folderVars == <<folderSeq, folderReads, pane, folderPosts, foldersPosted, project,
                lastAsked>>

-----------------------------------------------------------------------------
(* refreshFreeKeys, freeModelKeys *)

NoDecoration == [on |-> FALSE, waits |-> 0, version |-> 0]

\* A read for the open chat joins the one under way; a new one takes the state
\* over with the keys of the chat before.
JoinsKeys == freeKeys.pending # 0 /\ freeKeys.session = pickerChat
StartKeysRead ==
  IF JoinsKeys THEN UNCHANGED <<freeKeys, freeReads, readsMade>>
  ELSE /\ readsMade < MaxFreeReads
       /\ readsMade' = readsMade + 1
       /\ freeReads' = freeReads \cup {[n |-> readsMade + 1, chat |-> pickerChat]}
       /\ freeKeys' = [freeKeys EXCEPT !.session = pickerChat, !.pending = readsMade + 1]

KeysKnown == freeKeys.session = pickerChat /\ freeKeys.age # "none"

KeysExpire ==
  /\ freeKeys.age = "fresh"
  /\ freeKeys' = [freeKeys EXCEPT !.age = "old"]
  /\ UNCHANGED <<pickerChat, modelsRendered, modelList, decorationQueued, decorating,
                 observing, freeReads, readsMade, decorationFailed>>

-----------------------------------------------------------------------------
(* decorateModelChoices *)

\* Faulty variant: the choices are those of the start of the decoration.
ChoicesBefore == decorating.version
\* The choices are taken from the list after the await.
ChoicesNow == modelList.version

\* Faulty variant: the observer stays disconnected.
ObservedNever == FALSE
ObservedList == TRUE

\* The list is grouped by the free keys of a chat, unless it is empty or grouped.
Group(keysOf) ==
  /\ modelList' = IF modelList.shape = "flat"
             THEN [shape |-> "grouped", version |-> ChoicesNow, by |-> keysOf] ELSE modelList
  /\ decorating' = NoDecoration /\ observing' = ObservedList

\* Known keys are used at once; old ones are read again for the next time.
DecorateAtOnce ==
  /\ ~decorating.on /\ modelList.shape = "flat" /\ KeysKnown
  /\ modelList' = [shape |-> "grouped", version |-> modelList.version, by |-> freeKeys.of]
  /\ observing' = ObservedList /\ decorationFailed' = FALSE
  /\ IF freeKeys.age = "old" THEN StartKeysRead ELSE UNCHANGED <<freeKeys, freeReads,
                                                                 readsMade>>
  /\ UNCHANGED decorating

DecorateAfterRead ==
  /\ ~decorating.on /\ modelList.shape = "flat" /\ ~KeysKnown
  /\ StartKeysRead
  /\ decorating' = [on |-> TRUE, waits |-> freeKeys'.pending, version |-> modelList.version]
  /\ observing' = FALSE /\ decorationFailed' = FALSE
  /\ UNCHANGED modelList

Decorate ==
  \/ DecorateAtOnce
  \/ DecorateAfterRead
  \/ /\ decorating.on \/ modelList.shape # "flat"
     /\ UNCHANGED <<modelList, decorating, observing, freeKeys, freeReads, readsMade,
                    decorationFailed>>

\* The observer's microtask
QueuedDecoration ==
  /\ decorationQueued
  /\ decorationQueued' = FALSE
  /\ Decorate
  /\ UNCHANGED <<pickerChat, modelsRendered>>

\* The model button
ClickDecorates ==
  /\ modelList.shape = "flat" /\ ~decorating.on
  /\ Decorate
  /\ UNCHANGED <<pickerChat, modelsRendered, decorationQueued>>

\* The keys are kept only for the chat that is still open; whoever waits for the
\* read uses them anyway.
FreeReadAnswers(r) ==
  /\ r \in freeReads
  /\ freeReads' = freeReads \ {r}
  /\ freeKeys' = IF r.chat = pickerChat
                 THEN [session |-> r.chat, of |-> r.chat, age |-> "fresh", pending |-> 0]
                 ELSE IF freeKeys.pending = r.n THEN [freeKeys EXCEPT !.pending = 0]
                 ELSE freeKeys
  /\ IF decorating.on /\ decorating.waits = r.n THEN Group(r.chat)
     ELSE UNCHANGED <<modelList, decorating, observing>>
  /\ UNCHANGED <<pickerChat, modelsRendered, decorationQueued, readsMade,
                 decorationFailed>>

FreeReadFails(r) ==
  /\ r \in freeReads
  /\ freeReads' = freeReads \ {r}
  /\ freeKeys' = IF freeKeys.pending = r.n THEN [freeKeys EXCEPT !.pending = 0] ELSE freeKeys
  /\ IF decorating.on /\ decorating.waits = r.n
     THEN decorating' = NoDecoration /\ observing' = ObservedList /\ decorationFailed' = TRUE
     ELSE UNCHANGED <<decorating, observing, decorationFailed>>
  /\ UNCHANGED <<pickerChat, modelsRendered, modelList, decorationQueued, readsMade>>

\* The page renders the list anew: on a search, a favorite, another chat.
RenderModels(shape) ==
  /\ modelsRendered < MaxRenders
  /\ modelsRendered' = modelsRendered + 1
  /\ modelList' = [shape |-> shape, version |-> modelsRendered + 1, by |-> NoKeys]
  /\ decorationQueued' = (decorationQueued \/ observing)
  /\ UNCHANGED <<pickerChat, decorating, observing, freeKeys, freeReads, readsMade,
                 decorationFailed>>

PickerChat(c) ==
  /\ c # pickerChat
  /\ pickerChat' = c
  /\ UNCHANGED <<modelsRendered, modelList, decorationQueued, decorating, observing,
                 freeKeys, freeReads, readsMade, decorationFailed>>

-----------------------------------------------------------------------------
PickerInit ==
  /\ pickerChat \in PickerChats /\ modelsRendered = 0
  /\ modelList = [shape |-> "empty", version |-> 0, by |-> NoKeys]
  /\ decorationQueued = FALSE /\ decorating = NoDecoration /\ observing = TRUE
  /\ freeKeys = [session |-> NoKeys, of |-> NoKeys, age |-> "none", pending |-> 0]
  /\ freeReads = {} /\ readsMade = 0 /\ decorationFailed = FALSE

PickerNext ==
  \/ KeysExpire \/ QueuedDecoration \/ ClickDecorates
  \/ \E r \in freeReads : FreeReadAnswers(r) \/ FreeReadFails(r)
  \/ \E shape \in {"flat", "empty"} : RenderModels(shape)
  \/ \E c \in PickerChats : PickerChat(c)

PickerSpec == PickerInit /\ [][PickerNext]_pickerVars

\* The picker keeps values of their types.
PickerTypeOK ==
  /\ pickerChat \in PickerChats /\ modelsRendered \in 0..MaxRenders /\ readsMade \in 0..MaxFreeReads
  /\ modelList.shape \in {"empty", "flat", "grouped"} /\ modelList.by \in PickerChats \cup {NoKeys}
  /\ decorationQueued \in BOOLEAN /\ observing \in BOOLEAN /\ decorationFailed \in BOOLEAN
  /\ decorating.on <=> decorating.waits # 0
  /\ freeReads \subseteq [n : 1..MaxFreeReads, chat : PickerChats]

\* The grouped list holds the choices of the newest render, and a flat list is
\* about to be grouped: a render that falls into a decoration, while nobody
\* watches the list, is neither lost nor left flat.
GroupedAsRendered ==
  /\ modelList.version = modelsRendered
  /\ modelList.shape = "flat" => decorationQueued \/ decorating.on \/ decorationFailed

-----------------------------------------------------------------------------
(* browseDirectory *)

Asks(p) ==
  /\ folderSeq' = folderSeq + 1 /\ lastAsked' = p
  /\ pane' = [shows |-> "loading", path |-> Top]

Browse(p) ==
  /\ folderSeq < MaxBrowses
  /\ Asks(p)
  /\ folderReads' = folderReads \cup {[seq |-> folderSeq + 1, path |-> p]}
  /\ UNCHANGED <<folderPosts, foldersPosted, project>>

\* Faulty variant: every answer is rendered.
AnyFolder(r) == TRUE
NewestFolder(r) == r.seq = folderSeq

\* The list of the roots goes on to a single root.
FolderAnswers(r) ==
  /\ r \in folderReads
  /\ IF NewestFolder(r) /\ r.path = Top /\ OnlyRoot # Top /\ folderSeq < MaxBrowses
     THEN /\ Asks(OnlyRoot)
          /\ folderReads' = (folderReads \ {r}) \cup {[seq |-> folderSeq + 1, path |-> OnlyRoot]}
     ELSE /\ folderReads' = folderReads \ {r}
          /\ pane' = IF NewestFolder(r) THEN [shows |-> "folder", path |-> r.path] ELSE pane
          /\ UNCHANGED <<folderSeq, lastAsked>>
  /\ UNCHANGED <<folderPosts, foldersPosted, project>>

FolderFails(r) ==
  /\ r \in folderReads
  /\ folderReads' = folderReads \ {r}
  /\ pane' = IF NewestFolder(r) THEN [shows |-> "error", path |-> Top] ELSE pane
  /\ UNCHANGED <<folderSeq, folderPosts, foldersPosted, project, lastAsked>>

-----------------------------------------------------------------------------
(* openExactProjectPath, createChildDirectory, openDirectoryAsProject *)

\* The path form, while its button is enabled, or the form of the shown folder,
\* which a newer pane replaces by a new one.
PostFolder(form, p) ==
  /\ foldersPosted < MaxPosts
  /\ form = "child" => pane = [shows |-> "folder", path |-> p]
  /\ ~\E x \in folderPosts : x.form = form /\ (form = "path" \/ x.seq = folderSeq)
  /\ foldersPosted' = foldersPosted + 1
  /\ folderPosts' = folderPosts \cup {[form |-> form, path |-> p, seq |-> folderSeq, stage |-> "posting"]}
  /\ UNCHANGED <<folderSeq, folderReads, pane, project, lastAsked>>

\* The button of the shown folder
OpenShown ==
  /\ foldersPosted < MaxPosts /\ pane.shows = "folder" /\ pane.path # Top
  /\ foldersPosted' = foldersPosted + 1
  /\ folderPosts' = folderPosts \cup {[form |-> "open", path |-> pane.path, seq |-> folderSeq, stage |-> "selecting"]}
  /\ UNCHANGED <<folderSeq, folderReads, pane, project, lastAsked>>

FolderPosted(x) ==
  /\ x \in folderPosts /\ x.stage = "posting"
  /\ folderPosts' = (folderPosts \ {x}) \cup {[x EXCEPT !.stage = "selecting"]}
  /\ UNCHANGED <<folderSeq, folderReads, pane, foldersPosted, project, lastAsked>>

\* The project of whichever request ends last stays open.
ProjectOpened(x) ==
  /\ x \in folderPosts /\ x.stage = "selecting"
  /\ folderPosts' = folderPosts \ {x} /\ project' = x.path
  /\ UNCHANGED <<folderSeq, folderReads, pane, foldersPosted, lastAsked>>

FolderRefused(x) ==
  /\ x \in folderPosts
  /\ folderPosts' = folderPosts \ {x}
  /\ UNCHANGED <<folderSeq, folderReads, pane, foldersPosted, project, lastAsked>>

-----------------------------------------------------------------------------
FolderInit ==
  /\ folderSeq = 0 /\ folderReads = {} /\ pane = [shows |-> "loading", path |-> Top]
  /\ folderPosts = {} /\ foldersPosted = 0 /\ project = Top /\ lastAsked = Top

FolderNext ==
  \/ \E p \in Paths \cup {Top} : Browse(p)
  \/ \E r \in folderReads : FolderAnswers(r) \/ FolderFails(r)
  \/ \E p \in Paths, form \in {"path", "child"} : PostFolder(form, p)
  \/ OpenShown
  \/ \E x \in folderPosts : FolderPosted(x) \/ ProjectOpened(x) \/ FolderRefused(x)

FolderSpec == FolderInit /\ [][FolderNext]_folderVars

\* The browser keeps values of their types.
FolderTypeOK ==
  /\ folderSeq \in 0..MaxBrowses /\ foldersPosted \in 0..MaxPosts
  /\ folderReads \subseteq [seq : 1..MaxBrowses, path : Paths \cup {Top}]
  /\ pane \in [shows : {"loading", "folder", "error"}, path : Paths \cup {Top}]
  /\ project \in Paths \cup {Top} /\ lastAsked \in Paths \cup {Top}

\* The folder on screen, which the buttons open and make folders in, is the one
\* asked for last.
FolderIsAsked == pane.shows = "folder" => pane.path = lastAsked

-----------------------------------------------------------------------------
(* The slash commands of the page *)

CONSTANTS CommandChats, NoCommandChat,
          QuickChat, \* the session made for a command without a chat
          Slashes,   \* what the input may hold that starts with /
          Plain,     \* anything else, or nothing
          MaxTyped,  \* bound: changes of the input
          MaxRan     \* bound: commands submitted

ASSUME SlashAssumption ==
  /\ NoCommandChat \notin CommandChats /\ QuickChat \notin CommandChats \cup {NoCommandChat}
  /\ Plain \notin Slashes /\ MaxTyped \in Nat /\ MaxRan \in Nat

VARIABLES slashChat,     \* sessionIdFromHash()
          typed,         \* $('input').value
          paletteSeq,
          slashLookups,  \* the lookups under way
          commandsKnown, \* commandCache: the chats whose directory's commands are known
          palette,       \* what the palette shows
          slash,         \* the command under way (slashPending)
          submitted,     \* history: <<command, chat it was submitted for>>, in order
          ran            \* history: <<command, chat it was posted to>>, in order

slashVars == <<slashChat, typed, paletteSeq, slashLookups, commandsKnown, palette,
               slash, submitted, ran>>

ClosedPalette == [shows |-> "nothing", query |-> Plain]
NoSlash == [stage |-> "none", command |-> Plain, chat |-> NoCommandChat]

-----------------------------------------------------------------------------
(* updatePalette, loadCommands *)

\* The input holds t: a newer lookup starts, or the palette closes.
Input(t) ==
  /\ typed' = t /\ paletteSeq' = paletteSeq + 1
  /\ slashLookups' = IF t = Plain THEN slashLookups
                ELSE slashLookups \cup {[seq |-> paletteSeq + 1, query |-> t, chat |-> slashChat]}

Type(t) ==
  /\ paletteSeq < MaxTyped
  /\ Input(t)
  /\ palette' = IF t = Plain THEN ClosedPalette ELSE palette
  /\ UNCHANGED <<slashChat, commandsKnown, slash, submitted, ran>>

\* Faulty variant: every answer is shown.
NewestOrNot(l) == TRUE
\* Out-of-order answers must not overwrite the palette for newer input.
NewestLookup(l) == l.seq = paletteSeq /\ typed = l.query

LookupAnswers(l) ==
  /\ l \in slashLookups
  /\ slashLookups' = slashLookups \ {l} /\ commandsKnown' = commandsKnown \cup {l.chat}
  /\ palette' = IF NewestLookup(l) THEN [shows |-> "commands", query |-> l.query] ELSE palette
  /\ UNCHANGED <<slashChat, typed, paletteSeq, slash, submitted, ran>>

\* A failure is shown whatever was typed since.
LookupFails(l) ==
  /\ l \in slashLookups /\ l.chat \notin commandsKnown
  /\ slashLookups' = slashLookups \ {l}
  /\ palette' = [shows |-> "error", query |-> Plain]
  /\ UNCHANGED <<slashChat, typed, paletteSeq, commandsKnown, slash, submitted, ran>>

-----------------------------------------------------------------------------
(* bindSlashCommands *)

\* insertCommand: its input event looks the palette up again.
InsertCommand(t) ==
  /\ palette.shows = "commands" /\ paletteSeq < MaxTyped
  /\ Input(t)
  /\ palette' = ClosedPalette
  /\ UNCHANGED <<slashChat, commandsKnown, slash, submitted, ran>>

\* Escape, or a click elsewhere
ClosePalette ==
  /\ palette # ClosedPalette
  /\ palette' = ClosedPalette
  /\ UNCHANGED <<slashChat, typed, paletteSeq, slashLookups, commandsKnown, slash,
                 submitted, ran>>

\* hashchange: the cache is dropped, the lookups under way are not.  The page
\* may put another text into the input.
ShowChat(c, t) ==
  /\ c # slashChat /\ t \in {typed, Plain}
  /\ slashChat' = c /\ typed' = t /\ commandsKnown' = {} /\ palette' = ClosedPalette
  /\ UNCHANGED <<paletteSeq, slashLookups, slash, submitted, ran>>

-----------------------------------------------------------------------------
(* executeSlash *)

\* The text is cleared before the command is posted.
SubmitSlash ==
  /\ typed \in Slashes /\ slash.stage = "none" /\ Len(submitted) < MaxRan
  /\ slash' = [stage |-> IF slashChat = NoCommandChat THEN "making" ELSE "posting",
               command |-> typed, chat |-> slashChat]
  /\ submitted' = Append(submitted,
                          <<typed, IF slashChat = NoCommandChat THEN QuickChat ELSE slashChat>>)
  /\ Input(Plain) /\ palette' = ClosedPalette
  /\ UNCHANGED <<slashChat, commandsKnown, ran>>

\* Faulty variant: the command goes to the chat that is open by now.
MadeOrOpen == IF slashChat = NoCommandChat THEN QuickChat ELSE slashChat
\* ensureQuickSession
Made == QuickChat

QuickSessionMade ==
  /\ slash.stage = "making"
  /\ slash' = [slash EXCEPT !.stage = "posting", !.chat = Made]
  /\ slashChat' = QuickChat
  /\ commandsKnown' = {}
  /\ palette' = ClosedPalette
  /\ UNCHANGED <<typed, paletteSeq, slashLookups, submitted, ran>>

CommandPosted ==
  /\ slash.stage = "posting"
  /\ ran' = Append(ran, <<slash.command, slash.chat>>)
  /\ slash' = [slash EXCEPT !.stage = "posted"]
  /\ UNCHANGED <<slashChat, typed, paletteSeq, slashLookups, commandsKnown, palette,
                 submitted>>

CommandAnswers ==
  /\ slash.stage = "posted"
  /\ slash' = NoSlash
  /\ UNCHANGED <<slashChat, typed, paletteSeq, slashLookups, commandsKnown, palette,
                 submitted, ran>>

\* The session is not made, the post does not arrive or its answer is lost: the
\* text returns to an empty input, whichever chat is open.
CommandFails ==
  /\ slash.stage # "none"
  /\ slash' = NoSlash
  /\ IF typed = Plain THEN Input(slash.command) ELSE UNCHANGED <<typed, paletteSeq,
                                                                 slashLookups>>
  /\ UNCHANGED <<slashChat, commandsKnown, palette, submitted, ran>>

-----------------------------------------------------------------------------
SlashInit ==
  /\ slashChat = NoCommandChat /\ typed = Plain /\ paletteSeq = 0 /\ slashLookups = {} /\ commandsKnown = {}
  /\ palette = ClosedPalette /\ slash = NoSlash
  /\ submitted = <<>> /\ ran = <<>>

SlashNext ==
  \/ \E t \in Slashes \cup {Plain} : Type(t)
  \/ \E l \in slashLookups : LookupAnswers(l) \/ LookupFails(l)
  \/ \E t \in Slashes : InsertCommand(t)
  \/ \E c \in CommandChats \cup {NoCommandChat} : \E t \in {typed, Plain} : ShowChat(c, t)
  \/ ClosePalette \/ SubmitSlash \/ QuickSessionMade
  \/ CommandPosted \/ CommandAnswers \/ CommandFails

SlashSpec == SlashInit /\ [][SlashNext]_slashVars

\* The commands keep values of their types.
SlashTypeOK ==
  /\ slashChat \in CommandChats \cup {NoCommandChat, QuickChat} /\ typed \in Slashes \cup {Plain}
  /\ paletteSeq \in Nat
  /\ slashLookups \subseteq [seq : Nat, query : Slashes, chat : CommandChats \cup {NoCommandChat, QuickChat}]
  /\ palette \in [shows : {"nothing", "commands", "error"}, query : Slashes \cup {Plain}]
  /\ slash.stage \in {"none", "making", "posting", "posted"}

\* Every command that ran was submitted once, in that order, and ran in the chat
\* it was submitted in, wherever the user went meanwhile.
RanAsSubmitted ==
  \E f \in [DOMAIN ran -> DOMAIN submitted] :
    /\ \A n \in DOMAIN ran : ran[n] = submitted[f[n]]
    /\ \A m, n \in DOMAIN ran : m < n => f[m] < f[n]

\* The palette lists the commands of what is typed, or the newest lookup is
\* still under way.
PaletteIsNewest ==
  palette.shows = "commands" =>
    palette.query = typed \/ \E l \in slashLookups : l.seq = paletteSeq

\* Slash commands: what runs is what was submitted, what is shown is what is typed.
SlashSound == RanAsSubmitted /\ PaletteIsNewest
=============================================================================
