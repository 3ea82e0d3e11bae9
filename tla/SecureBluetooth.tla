--------------------------- MODULE SecureBluetooth ---------------------------
(***************************************************************************)
(* Pairing and frames of src/secure_bluetooth.rs between devices whose     *)
(* bearer loses, repeats, delays, reorders and garbles.  An endpoint is    *)
(* one pairing object with what it turns into: pairing, pending session,   *)
(* confirmed session.  Every endpoint has fresh random values, so it       *)
(* stands for its own public key and contribution, and an initiator for    *)
(* its session identifier.  Cryptography is ideal: keys, prefixes and the  *)
(* authentication string are the transcript they are derived from.         *)
(***************************************************************************)
EXTENDS Naturals, Sequences

CONSTANTS
  Endpoints,             \* the pairing objects created, on all devices
  Devices,               \* device identifiers
  NoPeer,                \* before derive()
  Garbled,               \* any hello that no endpoint sent as it is
  Mistyped,              \* a string that is not one of those shown
  Messages,              \* message types with their payloads
  MaxFrames,             \* MAX_BLUETOOTH_FRAMES_PER_DIRECTION
  ConfirmationTimeout,   \* BLUETOOTH_CONFIRMATION_TIMEOUT
  SessionLifetime,       \* BLUETOOTH_SESSION_LIFETIME
  MaxTime                \* the last clock reading (a bound)

Roles == {"Initiator", "Responder"}

\* A hello as it was received: the endpoint's that sent it, or garbled.
Views == Endpoints \cup {Garbled}

Transcripts == [initiator : Views, responder : Views]

ASSUME BluetoothAssumption ==
  /\ NoPeer \notin Views
  /\ Garbled \notin Endpoints /\ Mistyped \notin Transcripts
  /\ {MaxFrames, ConfirmationTimeout, SessionLifetime, MaxTime} \subseteq Nat

VARIABLES
  stage,          \* what the endpoint is now; "gone" once consumed in vain
  hello,          \* its own hello
  peer,           \* the hello it derived its keys with
  derived_at,     \* PendingBluetoothSession::created_at
  confirmed_at,   \* SecureBluetoothSession::created_at
  tx_counter, rx_counter,
  bearer,         \* every frame ever put on the bearer
  now,
  sent, received  \* history: the messages of each endpoint's session

pairing  == <<hello, peer, derived_at>>
counters == <<tx_counter, rx_counter>>
traffic  == <<bearer, sent, received>>
vars     == <<stage, pairing, confirmed_at, counters, traffic, now>>

Opposite(role) == IF role = "Initiator" THEN "Responder" ELSE "Initiator"

IsPublished(e) == stage[e] # "unused"

\* What the bearer can bring as a hello, at any time and any number of times.
Hellos == {p \in Endpoints : IsPublished(p)} \cup {Garbled}

HasDerived(e) == peer[e] # NoPeer

\* handshake_transcript(): both hellos as this endpoint knows them.
Transcript(e) ==
  IF hello[e].role = "Initiator"
  THEN [initiator |-> e, responder |-> peer[e]]
  ELSE [initiator |-> peer[e], responder |-> e]

\* Mutated form: the number comes from the session identifier.
SasOfSession(e) == hello[e].session_id

\* The short authentication string the endpoint shows.
Sas(e) == Transcript(e)

\* The keys with their nonce prefixes: one per transcript and sending role.
TxKey(e) == [transcript |-> Transcript(e), from |-> hello[e].role]
RxKey(e) == [transcript |-> Transcript(e), from |-> Opposite(hello[e].role)]

Keys == [transcript : Transcripts, from : Roles]

Frames == [key : Keys, counter : 1..MaxFrames, message : Messages]

TypeOK ==
  /\ stage \in [Endpoints -> {"unused", "pairing", "pending", "session", "gone"}]
  /\ hello \in [Endpoints -> [role : Roles, session_id : Endpoints, device : Devices]]
  /\ peer \in [Endpoints -> Views \cup {NoPeer}]
  /\ derived_at \in [Endpoints -> 0..MaxTime] /\ confirmed_at \in [Endpoints -> 0..MaxTime]
  /\ tx_counter \in [Endpoints -> 0..MaxFrames] /\ rx_counter \in [Endpoints -> 0..MaxFrames]
  /\ bearer \subseteq Frames
  /\ now \in 0..MaxTime
  /\ sent \in [Endpoints -> Seq(Messages)] /\ received \in [Endpoints -> Seq(Messages)]

\* What an unused endpoint's hello says does not matter.
Init ==
  /\ stage = [e \in Endpoints |-> "unused"]
  /\ \E d \in Devices :
       hello = [e \in Endpoints |-> [role |-> "Initiator", session_id |-> e, device |-> d]]
  /\ peer = [e \in Endpoints |-> NoPeer]
  /\ derived_at = [e \in Endpoints |-> 0] /\ confirmed_at = [e \in Endpoints |-> 0]
  /\ tx_counter = [e \in Endpoints |-> 0] /\ rx_counter = [e \in Endpoints |-> 0]
  /\ bearer = {} /\ now = 0
  /\ sent = [e \in Endpoints |-> <<>>] /\ received = [e \in Endpoints |-> <<>>]

-----------------------------------------------------------------------------
(* Pairing.                                                                *)

\* BluetoothPairing::new()
Create(e, role, session_id, device) ==
  /\ stage[e] = "unused"
  /\ stage' = [stage EXCEPT ![e] = "pairing"]
  /\ hello' = [hello EXCEPT ![e] = [role |-> role, session_id |-> session_id,
                                    device |-> device]]
  /\ UNCHANGED <<peer, derived_at, confirmed_at, counters, traffic, now>>

\* BluetoothPairing::initiator()
Initiate(e, device) == Create(e, "Initiator", e, device)

\* BluetoothPairing::responder(), on the hello of an initiator.
Respond(e, device, i) ==
  /\ IsPublished(i) /\ hello[i].role = "Initiator"
  /\ Create(e, "Responder", hello[i].session_id, device)

\* Mutated form: the secret is not consumed.
CanDeriveAgain(e) == stage[e] \in {"pairing", "pending", "session"}

CanDerive(e) == stage[e] = "pairing"

\* The hello is a counterpart's.
IsCounterpart(e, p) ==
  /\ p \in Endpoints
  /\ hello[p].role = Opposite(hello[e].role)
  /\ hello[p].session_id = hello[e].session_id
  /\ hello[p].device # hello[e].device

\* derive(), on any hello the bearer brings: the pairing is consumed even when it
\* is refused.  A garbled hello that decode() takes may pass for a counterpart's.
Derive(e, view) ==
  /\ CanDerive(e)
  /\ \/ /\ view = Garbled \/ IsCounterpart(e, view)
        /\ stage' = [stage EXCEPT ![e] = "pending"]
        /\ peer' = [peer EXCEPT ![e] = view]
        /\ derived_at' = [derived_at EXCEPT ![e] = now]
     \/ /\ ~IsCounterpart(e, view)
        /\ stage' = [stage EXCEPT ![e] = "gone"]
        /\ UNCHANGED <<peer, derived_at>>
  /\ UNCHANGED <<hello, confirmed_at, counters, traffic, now>>

\* The strings the user can read on another device, now or when it showed them.
Observable(e) ==
  {Sas(p) : p \in {q \in Endpoints : HasDerived(q) /\ hello[q].device # hello[e].device}}

\* Mutated form: the user may take any time.
ConfirmsAnyTime(e, observed) == observed = Sas(e)

Confirms(e, observed) ==
  /\ now - derived_at[e] <= ConfirmationTimeout
  /\ observed = Sas(e)

\* confirm(): the pending session is consumed even when it is refused.
Confirm(e, observed) ==
  /\ stage[e] = "pending"
  /\ IF Confirms(e, observed)
     THEN /\ stage' = [stage EXCEPT ![e] = "session"]
          /\ confirmed_at' = [confirmed_at EXCEPT ![e] = now]
          /\ tx_counter' = [tx_counter EXCEPT ![e] = 0]
          /\ rx_counter' = [rx_counter EXCEPT ![e] = 0]
     ELSE /\ stage' = [stage EXCEPT ![e] = "gone"]
          /\ UNCHANGED <<confirmed_at, counters>>
  /\ UNCHANGED <<pairing, traffic, now>>

-----------------------------------------------------------------------------
(* Frames.                                                                 *)

\* ensure_active()
IsActive(e) ==
  /\ stage[e] = "session"
  /\ now - confirmed_at[e] <= SessionLifetime

\* Mutated form: the limit is looked at after the frame that reaches it.
EncryptOneMore(e, message) ==
  /\ IsActive(e) /\ tx_counter[e] <= MaxFrames
  /\ tx_counter' = [tx_counter EXCEPT ![e] = @ + 1]
  /\ bearer' = bearer \cup {[key |-> TxKey(e), counter |-> tx_counter'[e],
                             message |-> message]}
  /\ sent' = [sent EXCEPT ![e] = Append(@, message)]
  /\ UNCHANGED <<stage, pairing, confirmed_at, rx_counter, received, now>>

\* encrypt()
Encrypt(e, message) ==
  /\ IsActive(e) /\ tx_counter[e] < MaxFrames
  /\ tx_counter' = [tx_counter EXCEPT ![e] = @ + 1]
  /\ bearer' = bearer \cup {[key |-> TxKey(e), counter |-> tx_counter'[e],
                             message |-> message]}
  /\ sent' = [sent EXCEPT ![e] = Append(@, message)]
  /\ UNCHANGED <<stage, pairing, confirmed_at, rx_counter, received, now>>

\* Mutated form: any newer frame is taken.
IsNextNewer(e, counter) == counter > rx_counter[e]

IsNext(e, counter) == counter = rx_counter[e] + 1

\* The tag covers key, nonce, header and payload.
Authenticates(e, f, intact) == intact /\ f.key = RxKey(e)

\* decrypt(), on any frame the bearer brings, garbled or not; a garbled one may
\* claim any counter.  The counter advances once the frame has authenticated; one
\* that does not changes nothing.
Decrypt(e, f, intact) ==
  /\ IsActive(e) /\ f.counter <= MaxFrames
  /\ IsNext(e, f.counter) /\ Authenticates(e, f, intact)
  /\ rx_counter' = [rx_counter EXCEPT ![e] = f.counter]
  /\ received' = [received EXCEPT ![e] = Append(@, f.message)]
  /\ UNCHANGED <<stage, pairing, confirmed_at, tx_counter, bearer, sent, now>>

Tick ==
  /\ now < MaxTime /\ now' = now + 1
  /\ UNCHANGED <<stage, pairing, confirmed_at, counters, traffic>>

Next ==
  \/ \E e \in Endpoints, d \in Devices :
       Initiate(e, d) \/ \E i \in Endpoints : Respond(e, d, i)
  \/ \E e \in Endpoints, view \in Hellos : Derive(e, view)
  \/ \E e \in Endpoints :
       \E observed \in Observable(e) \cup {Mistyped} : Confirm(e, observed)
  \/ \E e \in Endpoints :
       \/ \E m \in Messages : Encrypt(e, m)
       \/ \E f \in bearer, intact \in BOOLEAN : Decrypt(e, f, intact)
  \/ Tick

Spec == Init /\ [][Next]_vars

-----------------------------------------------------------------------------
\* Two ends of a session have the same keys: a confirmed endpoint derived with the
\* hello its peer sent and its peer derived with this endpoint's, whatever older,
\* crossed or garbled hellos went about.
SessionsAgree ==
  \A e \in Endpoints :
    stage[e] = "session" => peer[e] \in Endpoints /\ peer[peer[e]] = e

\* No key ever protects two messages under one nonce.
NonceUsedOnce ==
  \A f, g \in bearer : f.key = g.key /\ f.counter = g.counter => f = g

\* Keys are short-lived: no message is sent or taken later than the confirmation
\* window and the lifetime of a session after the keys were derived.
KeysExpire ==
  [][ \A e \in Endpoints :
        (sent'[e] # sent[e] \/ received'[e] # received[e]) =>
          now - derived_at[e] <= ConfirmationTimeout + SessionLifetime ]_vars

\* What was received of what an endpoint sent, by the other end of its session.
ReceivedFrom(e) ==
  IF stage[e] = "session" /\ stage[peer[e]] = "session"
  THEN received[peer[e]] ELSE <<>>

Channel ==
  INSTANCE PrefixChannel WITH
    Senders <- Endpoints, Capacity <- MaxFrames,
    received <- [e \in Endpoints |-> ReceivedFrom(e)]

\* A session is a channel that delivers a prefix of what was sent, whatever the
\* bearer does.
ImplementsChannel == Channel!Spec
=============================================================================
