-------------------------- MODULE FallbackBodies --------------------------
(***************************************************************************)
(* Fallback bodies of provider requests: the registry of                   *)
(* config/plugins/tui/lib/pending-provider-requests.js and the two plugins *)
(* that use it, typed-output.js and dnd-fast-tier.js.  A hook shapes an    *)
(* outgoing body and keeps the unshaped one; when the provider answers 400 *)
(* because of the shape, the unshaped body is sent once.                   *)
(*                                                                         *)
(* Each attempt is one http.request event.  Attempts of one origin reuse   *)
(* the same input Request object.  A response names its request by the     *)
(* outgoing Request itself, by a linked replacement, by the origin, by an  *)
(* object nobody knows, or not at all (older adapters).                    *)
(***************************************************************************)
EXTENDS Naturals, Sequences, SequencesExt

CONSTANTS Attempts,     \* each is a record [session, origin, id]
          MaxEntries    \* capacity of the registry

ASSUME FallbackAssumption == MaxEntries \in Nat \ {0}

VARIABLES kept,      \* pending: the attempts whose body is held, oldest first
          shaped,    \* attempts that were added to the registry
          claimed,   \* entries a response has claimed
          reply,     \* reply[x]: stage of x's response and the entry it claimed
          resentBy,  \* resentBy[e]: responses for which e's body was sent
          replacedBy, \* replacedBy[e]: responses answered by the resend of e
          refused    \* the provider's refusal of the shape is remembered

fallbackVars == <<kept, shaped, claimed, reply, resentBy, replacedBy, refused>>

Nobody == [session |-> "", origin |-> "", id |-> 0]
Identities == {"own", "linked", "origin", "unknown", "absent"}
Kept == {e \in Attempts : Contains(kept, e)}
Drop(entries) == SelectSeq(kept, LAMBDA e : e \notin entries)
ReplyGoto(x, stage, e) == reply' = [reply EXCEPT ![x] = [stage |-> stage, entry |-> e]]

\* http.request.  A shape the provider is known to refuse is not applied, nor
\* is one whose unshaped body would not be kept (too large, or aborted).  At
\* capacity the oldest entry is evicted.
FbSend(x) ==
  /\ reply[x].stage = "idle"
  /\ ReplyGoto(x, "sent", Nobody)
  /\ \/ /\ ~refused
        /\ kept' = Append(IF Len(kept) >= MaxEntries THEN Tail(kept) ELSE kept, x)
        /\ shaped' = shaped \cup {x}
     \/ UNCHANGED <<kept, shaped>>
  /\ UNCHANGED <<claimed, resentBy, replacedBy, refused>>

SameOrigin(x) == {e \in shaped : e.origin = x.origin}

\* Faulty variant: an alias of several attempts names the newest of them.
NamedByNewest(x, identity, e) ==
  CASE identity = "own" -> e = x /\ x \in shaped
    [] identity \in {"linked", "origin"} ->
         e \in SameOrigin(x) /\ \A o \in SameOrigin(x) : o.id <= e.id
    [] identity = "absent" -> {o \in Kept : o.session = x.session} = {e}
    [] OTHER -> FALSE

\* The entry an event names.  An alias of several attempts names none; without
\* a Request only the single entry of the session can be meant.
NamedBy(x, identity, e) ==
  CASE identity = "own" -> e = x /\ x \in shaped
    [] identity \in {"linked", "origin"} -> SameOrigin(x) = {e}
    [] identity = "absent" -> {o \in Kept : o.session = x.session} = {e}
    [] OTHER -> FALSE

CanClaim(x, identity, e) ==
  NamedBy(x, identity, e) /\ e \in Kept /\ e.session = x.session /\ e \notin claimed

\* claim, up to the read of the error body.  Only a 400 with a Request is read;
\* any other response releases its entry.
FbRespond(x, identity) ==
  /\ reply[x].stage = "sent"
  /\ identity \in {"own", "linked"} => x \in shaped
  /\ \/ \E e \in Attempts :
          /\ CanClaim(x, identity, e)
          /\ claimed' = claimed \cup {e}
          /\ \/ identity # "absent" /\ ReplyGoto(x, "reading", e) /\ UNCHANGED kept
             \/ ReplyGoto(x, "settled", Nobody) /\ kept' = Drop({e})
     \/ /\ \A e \in Attempts : ~CanClaim(x, identity, e)
        /\ ReplyGoto(x, "settled", Nobody)
        /\ UNCHANGED <<claimed, kept>>
  /\ UNCHANGED <<shaped, resentBy, replacedBy, refused>>

\* The prefix of the error body is there: a shape error of an entry that is
\* still kept is remembered and the unshaped body sent.
FbResend(x) ==
  /\ reply[x].stage = "reading"
  /\ LET e == reply[x].entry IN
       \/ /\ e \in Kept
          /\ refused' = TRUE
          /\ resentBy' = [resentBy EXCEPT ![e] = @ \cup {x}]
          /\ ReplyGoto(x, "resending", e)
          /\ UNCHANGED kept
       \/ /\ ReplyGoto(x, "settled", Nobody)
          /\ kept' = Drop({e})
          /\ UNCHANGED <<refused, resentBy>>
  /\ UNCHANGED <<shaped, claimed, replacedBy>>

\* The resend answers (or fails).  Its response is used unless the entry was
\* invalidated meanwhile; the entry is released.
FbResent(x) ==
  /\ reply[x].stage = "resending"
  /\ LET e == reply[x].entry IN
       /\ replacedBy' = [replacedBy EXCEPT ![e] = IF e \in Kept THEN @ \cup {x} ELSE @]
       /\ kept' = Drop({e})
  /\ ReplyGoto(x, "settled", Nobody)
  /\ UNCHANGED <<shaped, claimed, resentBy, refused>>

\* forget on a reset event of the session, prune at the TTL of the oldest
\* entry, and the abort of a request: the entry is removed, its body cleared
\* and its controller aborted.
FbInvalidate ==
  /\ \/ \E x \in Kept : kept' = Drop({e \in Attempts : e.session = x.session})
     \/ kept # <<>> /\ kept' = Tail(kept)
     \/ \E x \in Kept : kept' = Drop({x})
  /\ UNCHANGED <<shaped, claimed, reply, resentBy, replacedBy, refused>>

\* rejectedModels forgets a refusal after a day, fast tier after an hour.
FbRefusalAges ==
  /\ refused
  /\ refused' = FALSE
  /\ UNCHANGED <<kept, shaped, claimed, reply, resentBy, replacedBy>>

FbInit ==
  /\ kept = <<>> /\ shaped = {} /\ claimed = {}
  /\ reply = [x \in Attempts |-> [stage |-> "idle", entry |-> Nobody]]
  /\ resentBy = [e \in Attempts |-> {}]
  /\ replacedBy = [e \in Attempts |-> {}]
  /\ refused = FALSE

FbNext ==
  \/ \E x \in Attempts : FbSend(x) \/ FbResend(x) \/ FbResent(x)
  \/ \E x \in Attempts, identity \in Identities : FbRespond(x, identity)
  \/ FbInvalidate \/ FbRefusalAges

FbSpec == FbInit /\ [][FbNext]_fallbackVars

-----------------------------------------------------------------------------
(* Properties *)

\* The registry keeps values of their types, in a queue without repetition.
FbTypeOK ==
  /\ kept \in Seq(Attempts) /\ Len(kept) <= MaxEntries
  /\ shaped \subseteq Attempts /\ claimed \subseteq shaped
  /\ \A x \in Attempts :
       /\ reply[x].stage \in {"idle", "sent", "reading", "resending", "settled"}
       /\ reply[x].entry \in Attempts \cup {Nobody}
       /\ reply[x].stage \in {"reading", "resending"} => reply[x].entry \in claimed
  /\ resentBy \in [Attempts -> SUBSET Attempts]
  /\ replacedBy \in [Attempts -> SUBSET Attempts]
  /\ refused \in BOOLEAN

\* A body is sent again at most once and for a response of its own request: a
\* late or replaced response never takes the fallback of another attempt.  The
\* one exception is an attempt that was not shaped and reused the same Request.
FallbackIsOwn ==
  \A e \in Attempts : \A x \in resentBy[e] :
    /\ resentBy[e] = {x} /\ replacedBy[e] \subseteq {x}
    /\ x # e => x \notin shaped /\ x.origin = e.origin
=============================================================================
