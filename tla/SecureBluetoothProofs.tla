------------------------ MODULE SecureBluetoothProofs ------------------------
(***************************************************************************)
(* Proofs about SecureBluetooth, for any number of endpoints, devices and  *)
(* messages and every limit of frames and time.                            *)
(***************************************************************************)
EXTENDS SecureBluetooth, TLAPS

\* An endpoint derived with nothing, or with a published counterpart's hello, or
\* with a garbled one; keys are held only after that.
PairingOK ==
  \A e \in Endpoints :
    /\ stage[e] \in {"unused", "pairing"} => peer[e] = NoPeer
    /\ stage[e] \in {"pending", "session"} => peer[e] \in Views
    /\ peer[e] \in Endpoints => IsCounterpart(e, peer[e]) /\ IsPublished(peer[e])

\* The counters count what the session sent and took.
CountersOK ==
  \A e \in Endpoints :
    /\ tx_counter[e] = Len(sent[e]) /\ rx_counter[e] = Len(received[e])
    /\ stage[e] # "session" => sent[e] = <<>> /\ received[e] = <<>>

\* Frame f is the one that e put on the bearer with its counter.
IsFrameOf(f, e) ==
  /\ stage[e] = "session" /\ f.key = TxKey(e)
  /\ f.counter \in 1..Len(sent[e]) /\ f.message = sent[e][f.counter]

FramesOK == \A f \in bearer : \E e \in Endpoints : IsFrameOf(f, e)

\* What was received is, message by message, what the peer sent.
PrefixOK ==
  \A e \in Endpoints : \A i \in 1..Len(received[e]) :
    /\ stage[e] = "session" /\ stage[peer[e]] = "session"
    /\ i \in 1..Len(sent[peer[e]]) /\ received[e][i] = sent[peer[e]][i]

\* Sessions were confirmed within the window.
AgeOK ==
  \A e \in Endpoints :
    stage[e] = "session" => confirmed_at[e] - derived_at[e] <= ConfirmationTimeout

IInv ==
  TypeOK /\ PairingOK /\ SessionsAgree /\ CountersOK /\ FramesOK /\ PrefixOK /\ AgeOK

-----------------------------------------------------------------------------
\* Keys are derived from what only their owner's hello contributes.
LEMMA KeyOwner ==
  ASSUME NEW d \in Endpoints, NEW e \in Endpoints, TypeOK, TxKey(d) = TxKey(e)
  PROVE  d = e
<1>1. hello[d].role = hello[e].role /\ Transcript(d) = Transcript(e)
  BY DEF TxKey
<1> QED
  BY <1>1 DEF Transcript

\* What one end sends with is what the other end receives with only when each of
\* them derived with the other's hello.
LEMMA KeyPair ==
  ASSUME NEW d \in Endpoints, NEW e \in Endpoints, TypeOK, TxKey(d) = RxKey(e)
  PROVE  peer[e] = d /\ peer[d] = e
<1>1. hello[d].role = Opposite(hello[e].role) /\ Transcript(d) = Transcript(e)
  BY DEF TxKey, RxKey
<1>2. hello[e].role \in Roles
  BY DEF TypeOK
<1> QED
  BY <1>1, <1>2 DEF Transcript, Opposite, Roles

\* The string that confirms an endpoint is shown by the endpoint it derived with,
\* which derived with this one.
LEMMA SasPair ==
  ASSUME NEW d \in Endpoints, NEW e \in Endpoints, TypeOK,
         Sas(d) = Sas(e), d # e
  PROVE  peer[e] = d /\ peer[d] = e
<1>1. hello[d].role \in Roles /\ hello[e].role \in Roles
  BY DEF TypeOK
<1> QED
  BY <1>1 DEF Sas, Transcript, Roles

LEMMA KeyType ==
  ASSUME NEW e \in Endpoints, TypeOK, peer[e] \in Views
  PROVE  TxKey(e) \in Keys
<1>1. hello[e].role \in Roles
  BY DEF TypeOK
<1>2. Transcript(e) \in Transcripts
  BY DEF Transcript, Transcripts, Views
<1> QED
  BY <1>1, <1>2 DEF TxKey, Keys

-----------------------------------------------------------------------------
\* The steps, with Initiate and Respond as the Create they amount to.
LEMMA Steps ==
  ASSUME TypeOK, [Next]_vars
  PROVE  \/ \E e \in Endpoints, role \in Roles, i \in Endpoints, d \in Devices :
              Create(e, role, i, d)
         \/ \E e \in Endpoints : \E view \in Hellos : Derive(e, view)
         \/ \E e \in Endpoints : \E observed \in Observable(e) \cup {Mistyped} :
              Confirm(e, observed)
         \/ \E e \in Endpoints : \E m \in Messages : Encrypt(e, m)
         \/ \E e \in Endpoints : \E f \in bearer, intact \in BOOLEAN : Decrypt(e, f, intact)
         \/ Tick
         \/ UNCHANGED vars
<1>1. ASSUME NEW e \in Endpoints, NEW d \in Devices, Initiate(e, d)
      PROVE  \E role \in Roles, i \in Endpoints : Create(e, role, i, d)
  BY <1>1 DEF Initiate, Roles
<1>2. ASSUME NEW e \in Endpoints, NEW d \in Devices, NEW i \in Endpoints, Respond(e, d, i)
      PROVE  \E role \in Roles, j \in Endpoints : Create(e, role, j, d)
  <2>1. hello[i].session_id \in Endpoints
    BY DEF TypeOK
  <2> QED
    BY <1>2, <2>1 DEF Respond, Roles
<1> QED
  BY <1>1, <1>2, Zenon DEF Next

LEMMA TypeStep == TypeOK /\ PairingOK /\ [Next]_vars => TypeOK'
<1> SUFFICES ASSUME TypeOK, PairingOK, [Next]_vars PROVE TypeOK'
  OBVIOUS
<1> USE BluetoothAssumption DEF TypeOK
<1>1. ASSUME NEW e \in Endpoints, NEW role \in Roles, NEW i \in Endpoints,
             NEW d \in Devices, Create(e, role, i, d)
      PROVE  TypeOK'
  <2>1. hello' \in [Endpoints -> [role : Roles, session_id : Endpoints, device : Devices]]
    BY <1>1 DEF Create
  <2>2. stage' \in [Endpoints -> {"unused", "pairing", "pending", "session", "gone"}]
    BY <1>1 DEF Create
  <2> QED
    BY <1>1, <2>1, <2>2 DEF Create, counters, traffic
<1>2. ASSUME NEW e \in Endpoints, NEW view \in Hellos, Derive(e, view)
      PROVE  TypeOK'
  <2>1. stage' \in [Endpoints -> {"unused", "pairing", "pending", "session", "gone"}]
    BY <1>2 DEF Derive
  <2>2. peer' \in [Endpoints -> Views \cup {NoPeer}]
    BY <1>2 DEF Derive, Hellos, Views
  <2>3. derived_at' = [derived_at EXCEPT ![e] = now] \/ derived_at' = derived_at
    BY <1>2 DEF Derive
  <2>4. derived_at' \in [Endpoints -> 0..MaxTime]
    BY <2>3
  <2> QED
    BY <1>2, <2>1, <2>2, <2>4 DEF Derive, counters, traffic
<1>3. ASSUME NEW e \in Endpoints, NEW observed, Confirm(e, observed)
      PROVE  TypeOK'
  <2>1. stage' \in [Endpoints -> {"unused", "pairing", "pending", "session", "gone"}]
    BY <1>3 DEF Confirm
  <2>2. confirmed_at' \in [Endpoints -> 0..MaxTime]
    BY <1>3 DEF Confirm
  <2>3. \/ /\ tx_counter' = [tx_counter EXCEPT ![e] = 0]
           /\ rx_counter' = [rx_counter EXCEPT ![e] = 0]
        \/ tx_counter' = tx_counter /\ rx_counter' = rx_counter
    BY <1>3 DEF Confirm, counters
  <2>4. 0 \in 0..MaxFrames
    OBVIOUS
  <2>5. tx_counter' \in [Endpoints -> 0..MaxFrames]
    BY <2>3, <2>4
  <2>6. rx_counter' \in [Endpoints -> 0..MaxFrames]
    BY <2>3, <2>4
  <2> QED
    BY <1>3, <2>1, <2>2, <2>5, <2>6 DEF Confirm, pairing, traffic
<1>4. ASSUME NEW e \in Endpoints, NEW m \in Messages, Encrypt(e, m)
      PROVE  TypeOK'
  <2>1. TxKey(e) \in Keys
    BY <1>4, KeyType DEF Encrypt, IsActive, PairingOK
  <2>2. tx_counter[e] + 1 \in 1..MaxFrames /\ tx_counter'[e] = tx_counter[e] + 1
    BY <1>4 DEF Encrypt
  <2>3. [key |-> TxKey(e), counter |-> tx_counter'[e], message |-> m] \in Frames
    BY <2>1, <2>2 DEF Frames
  <2>4. bearer' \subseteq Frames
    BY <1>4, <2>3 DEF Encrypt
  <2>5. sent' \in [Endpoints -> Seq(Messages)]
    BY <1>4 DEF Encrypt
  <2>6. tx_counter' \in [Endpoints -> 0..MaxFrames]
    BY <1>4, <2>2 DEF Encrypt
  <2> QED
    BY <1>4, <2>4, <2>5, <2>6 DEF Encrypt, pairing
<1>5. ASSUME NEW e \in Endpoints, NEW f \in bearer, NEW intact \in BOOLEAN,
             Decrypt(e, f, intact)
      PROVE  TypeOK'
  <2>1. f.message \in Messages /\ f.counter \in 0..MaxFrames
    BY DEF Frames
  <2>2. received' \in [Endpoints -> Seq(Messages)]
    BY <1>5, <2>1 DEF Decrypt
  <2>3. rx_counter' \in [Endpoints -> 0..MaxFrames]
    BY <1>5, <2>1 DEF Decrypt
  <2> QED
    BY <1>5, <2>2, <2>3 DEF Decrypt, pairing
<1>6. CASE Tick
  BY <1>6 DEF Tick, pairing, counters, traffic
<1>7. CASE UNCHANGED vars
  BY <1>7 DEF vars, pairing, counters, traffic
<1> HIDE DEF TypeOK
<1> QED
  BY <1>1, <1>2, <1>3, <1>4, <1>5, <1>6, <1>7, Steps, Zenon

\* A published hello stays what it is, and a session keeps its peer and the times
\* it was derived and confirmed at.
LEMMA Steady ==
  ASSUME TypeOK, [Next]_vars, NEW e \in Endpoints
  PROVE  /\ stage[e] # "unused" => stage'[e] # "unused" /\ hello'[e] = hello[e]
         /\ stage[e] # "pairing" => peer'[e] = peer[e] /\ derived_at'[e] = derived_at[e]
         /\ stage[e] = "session" => stage'[e] = "session" /\ confirmed_at'[e] = confirmed_at[e]
<1> USE DEF TypeOK
<1>1. CASE \E d \in Endpoints, role \in Roles, i \in Endpoints, device \in Devices :
             Create(d, role, i, device)
  BY <1>1 DEF Create
<1>2. CASE \E d \in Endpoints : \E view \in Hellos : Derive(d, view)
  BY <1>2 DEF Derive, CanDerive
<1>3. CASE \E d \in Endpoints : \E observed \in Observable(d) \cup {Mistyped} :
             Confirm(d, observed)
  BY <1>3 DEF Confirm, pairing
<1>4. CASE \E d \in Endpoints : \E m \in Messages : Encrypt(d, m)
  BY <1>4 DEF Encrypt, pairing
<1>5. CASE \E d \in Endpoints : \E f \in bearer, intact \in BOOLEAN : Decrypt(d, f, intact)
  BY <1>5 DEF Decrypt, pairing
<1>6. CASE Tick \/ UNCHANGED vars
  BY <1>6 DEF Tick, vars, pairing
<1> HIDE DEF TypeOK
<1> QED
  BY <1>1, <1>2, <1>3, <1>4, <1>5, <1>6, Steps, Zenon

\* Sessions begin where the user confirms.
LEMMA SessionStart ==
  ASSUME TypeOK, [Next]_vars, NEW e \in Endpoints, stage[e] # "session", stage'[e] = "session"
  PROVE  \E observed \in Observable(e) \cup {Mistyped} :
           Confirm(e, observed) /\ Confirms(e, observed)
<1> USE DEF TypeOK
<1>1. CASE \E d \in Endpoints, role \in Roles, i \in Endpoints, device \in Devices :
             Create(d, role, i, device)
  BY <1>1 DEF Create
<1>2. CASE \E d \in Endpoints : \E view \in Hellos : Derive(d, view)
  BY <1>2 DEF Derive
<1>3. CASE \E d \in Endpoints : \E observed \in Observable(d) \cup {Mistyped} :
             Confirm(d, observed)
  <2>1. PICK d \in Endpoints : \E observed \in Observable(d) \cup {Mistyped} : Confirm(d, observed)
    BY <1>3
  <2>2. PICK observed \in Observable(d) \cup {Mistyped} : Confirm(d, observed)
    BY <2>1
  <2>3. d = e /\ Confirms(d, observed)
    BY <2>2 DEF Confirm
  <2> QED
    BY <2>2, <2>3
<1>4. CASE stage' = stage
  BY <1>4
<1> HIDE DEF TypeOK
<1> QED
  BY <1>1, <1>2, <1>3, <1>4, Steps DEF Encrypt, Decrypt, Tick, vars

\* Derivation and confirmation keep the pairing facts and pair the ends of every
\* session: the string that confirms an endpoint is its own peer's.
LEMMA PairingStep ==
  TypeOK /\ PairingOK /\ SessionsAgree /\ [Next]_vars => PairingOK' /\ SessionsAgree'
<1> SUFFICES ASSUME TypeOK, PairingOK, SessionsAgree, [Next]_vars
             PROVE  PairingOK' /\ SessionsAgree'
  OBVIOUS
<1>1. PairingOK'
  <2> SUFFICES ASSUME NEW e \in Endpoints
               PROVE  /\ stage'[e] \in {"unused", "pairing"} => peer'[e] = NoPeer
                      /\ stage'[e] \in {"pending", "session"} => peer'[e] \in Views
                      /\ peer'[e] \in Endpoints =>
                           IsCounterpart(e, peer[e])' /\ stage'[peer'[e]] # "unused"
    BY DEF PairingOK, IsPublished
  <2>1. NoPeer \notin Endpoints
    BY BluetoothAssumption DEF Views
  <2>2. IsPublished(e) \/ peer[e] = NoPeer
    BY DEF PairingOK, IsPublished
  <2>3. ASSUME NEW p \in Endpoints, IsPublished(p), IsPublished(e), IsCounterpart(e, p)
        PROVE  /\ hello'[p] = hello[p] /\ hello'[e] = hello[e] /\ stage'[p] # "unused"
    BY <2>3, Steady DEF IsPublished
  <2>4. ASSUME peer'[e] = peer[e], peer[e] \in Endpoints
        PROVE  IsCounterpart(e, peer[e])' /\ stage'[peer'[e]] # "unused"
    BY <2>1, <2>2, <2>3, <2>4 DEF PairingOK, IsCounterpart
  <2>5. CASE \E d \in Endpoints, role \in Roles, i \in Endpoints, device \in Devices :
               Create(d, role, i, device)
    <3>1. PICK d \in Endpoints : /\ peer' = peer /\ stage[d] = "unused"
                                 /\ stage' = [stage EXCEPT ![d] = "pairing"]
      BY <2>5 DEF Create
    <3>2. stage'[e] = IF e = d THEN "pairing" ELSE stage[e]
      BY <3>1 DEF TypeOK
    <3> QED
      BY <2>4, <3>1, <3>2 DEF PairingOK
  <2>6. CASE \E d \in Endpoints : \E view \in Hellos : Derive(d, view)
    <3>1. PICK d \in Endpoints, view \in Hellos : Derive(d, view)
      BY <2>6
    <3>2. CASE e # d
      <4>1. peer'[e] = peer[e] /\ stage'[e] = stage[e]
        BY <3>1, <3>2 DEF Derive, TypeOK
      <4> QED
        BY <4>1, <2>4 DEF PairingOK
    <3>3. CASE e = d /\ stage'[e] = "gone" /\ peer' = peer
      BY <3>3, <2>4
    <3>4. CASE e = d /\ stage'[e] # "gone"
      <4>1. stage'[e] = "pending" /\ peer'[e] = view
            /\ (view = Garbled \/ IsCounterpart(e, view)) /\ stage[e] = "pairing"
        BY <3>1, <3>4 DEF Derive, CanDerive, TypeOK
      <4>2. view \in Views /\ (view \in Endpoints => IsPublished(view))
        BY BluetoothAssumption DEF Hellos, Views
      <4>3. view \in Endpoints => IsCounterpart(e, view)
        BY <4>1, BluetoothAssumption
      <4> QED
        BY <4>1, <4>2, <4>3, <2>3 DEF IsCounterpart, IsPublished
    <3> QED
      BY <3>1, <3>2, <3>3, <3>4 DEF Derive, TypeOK
  <2>7. CASE \E d \in Endpoints : \E observed \in Observable(d) \cup {Mistyped} :
               Confirm(d, observed)
    <3>1. PICK d \in Endpoints : /\ stage[d] = "pending" /\ peer' = peer
                                 /\ \/ stage' = [stage EXCEPT ![d] = "session"]
                                    \/ stage' = [stage EXCEPT ![d] = "gone"]
      BY <2>7 DEF Confirm, pairing
    <3>2. stage'[e] \notin {"session", "gone"} => stage'[e] = stage[e]
      BY <3>1 DEF TypeOK
    <3>3. stage'[e] = "session" => stage[e] \in {"pending", "session"}
      BY <3>1 DEF TypeOK
    <3> QED
      BY <2>4, <3>1, <3>2, <3>3 DEF PairingOK
  <2>8. CASE stage' = stage /\ peer' = peer
    BY <2>4, <2>8 DEF PairingOK
  <2> QED
    BY <2>5, <2>6, <2>7, <2>8, Steps DEF Encrypt, Decrypt, Tick, vars, pairing
<1>2. SessionsAgree'
  <2> SUFFICES ASSUME NEW e \in Endpoints, stage'[e] = "session"
               PROVE  peer'[e] \in Endpoints /\ peer'[peer'[e]] = e
    BY DEF SessionsAgree
  <2>1. CASE stage[e] = "session"
    <3>1. peer'[e] = peer[e] /\ peer[e] \in Endpoints /\ peer[peer[e]] = e
      BY <2>1, Steady DEF SessionsAgree
    <3>2. stage[peer[e]] # "pairing"
      BY <3>1, BluetoothAssumption DEF PairingOK, Views
    <3> QED
      BY <3>1, <3>2, Steady
  <2>2. CASE stage[e] # "session"
    <3>1. PICK observed \in Observable(e) \cup {Mistyped} :
            Confirm(e, observed) /\ Confirms(e, observed)
      BY <2>2, SessionStart
    <3>2. peer[e] \in Views /\ peer' = peer
      BY <3>1 DEF Confirm, PairingOK, pairing
    <3>3. Sas(e) \in Transcripts
      BY <3>2 DEF Sas, Transcript, Transcripts, Views
    <3>4. PICK p \in Endpoints : HasDerived(p) /\ hello[p].device # hello[e].device
                                 /\ Sas(p) = Sas(e)
      BY <3>1, <3>3, BluetoothAssumption DEF Confirms, Observable
    <3>5. peer[e] = p /\ peer[p] = e
      BY <3>4, SasPair
    <3> QED
      BY <3>2, <3>5
  <2> QED
    BY <2>1, <2>2
<1> QED
  BY <1>1, <1>2

\* What was sent only grows, in sessions only.
LEMMA SentGrows ==
  ASSUME TypeOK, [Next]_vars, NEW e \in Endpoints
  PROVE  /\ Len(sent[e]) <= Len(sent'[e])
         /\ \A i \in 1..Len(sent[e]) : sent'[e][i] = sent[e][i]
<1> USE DEF TypeOK
<1>1. sent' = sent \/ \E d \in Endpoints, m \in Messages :
                        sent' = [sent EXCEPT ![d] = Append(@, m)]
  BY Steps DEF Create, Derive, Confirm, Encrypt, Decrypt, Tick, vars, traffic
<1>2. CASE sent' = sent
  BY <1>2
<1>3. ASSUME NEW d \in Endpoints, NEW m \in Messages,
             sent' = [sent EXCEPT ![d] = Append(@, m)]
      PROVE  /\ Len(sent[e]) <= Len(sent'[e])
             /\ \A i \in 1..Len(sent[e]) : sent'[e][i] = sent[e][i]
  <2>1. sent[e] \in Seq(Messages)
    OBVIOUS
  <2>2. sent'[e] = sent[e] \/ sent'[e] = Append(sent[e], m)
    BY <1>3
  <2> HIDE DEF TypeOK
  <2> QED
    BY <2>1, <2>2
<1> QED
  BY <1>1, <1>2, <1>3

\* The keys of a session never change.
LEMMA KeysStay ==
  ASSUME TypeOK, [Next]_vars, NEW e \in Endpoints, stage[e] = "session"
  PROVE  stage'[e] = "session" /\ TxKey(e)' = TxKey(e) /\ peer'[e] = peer[e]
  BY Steady DEF TxKey, Transcript

LEMMA CountersStep == TypeOK /\ CountersOK /\ [Next]_vars => CountersOK'
<1> SUFFICES ASSUME TypeOK, CountersOK, [Next]_vars, NEW e \in Endpoints
             PROVE  /\ tx_counter'[e] = Len(sent'[e]) /\ rx_counter'[e] = Len(received'[e])
                    /\ stage'[e] # "session" => sent'[e] = <<>> /\ received'[e] = <<>>
  BY DEF CountersOK
<1>1. tx_counter[e] = Len(sent[e]) /\ rx_counter[e] = Len(received[e])
      /\ (stage[e] # "session" => sent[e] = <<>> /\ received[e] = <<>>)
  BY DEF CountersOK
<1>2. sent[e] \in Seq(Messages) /\ received[e] \in Seq(Messages)
      /\ (stage[e] = "session" => stage'[e] = "session")
  BY Steady DEF TypeOK
<1>3. CASE UNCHANGED <<sent, received, tx_counter, rx_counter>>
  BY <1>1, <1>2, <1>3
<1>4. ASSUME NEW d \in Endpoints, NEW observed, Confirm(d, observed)
      PROVE  tx_counter'[e] = Len(sent'[e]) /\ rx_counter'[e] = Len(received'[e])
             /\ sent' = sent /\ received' = received
  <2>1. sent' = sent /\ received' = received /\ stage[d] = "pending"
    BY <1>4 DEF Confirm, traffic
  <2>2. \/ /\ tx_counter' = [tx_counter EXCEPT ![d] = 0]
           /\ rx_counter' = [rx_counter EXCEPT ![d] = 0]
        \/ tx_counter' = tx_counter /\ rx_counter' = rx_counter
    BY <1>4 DEF Confirm, counters
  <2>3. stage[e] # "session" => tx_counter[e] = 0 /\ rx_counter[e] = 0
    BY <1>1
  <2> QED
    BY <1>1, <2>1, <2>2, <2>3 DEF TypeOK
<1>5. ASSUME NEW d \in Endpoints, NEW m \in Messages, Encrypt(d, m)
      PROVE  /\ tx_counter'[e] = Len(sent'[e]) /\ rx_counter'[e] = Len(received'[e])
             /\ stage'[e] # "session" => sent'[e] = <<>> /\ received'[e] = <<>>
  <2>1. rx_counter' = rx_counter /\ received' = received /\ stage' = stage
        /\ stage[d] = "session"
    BY <1>5 DEF Encrypt, IsActive
  <2>2. IF e = d THEN tx_counter'[e] = tx_counter[e] + 1 /\ sent'[e] = Append(sent[e], m)
                 ELSE tx_counter'[e] = tx_counter[e] /\ sent'[e] = sent[e]
    BY <1>5 DEF Encrypt, TypeOK
  <2> QED
    BY <1>1, <1>2, <2>1, <2>2
<1>6. ASSUME NEW d \in Endpoints, NEW f \in bearer, NEW intact \in BOOLEAN, Decrypt(d, f, intact)
      PROVE  /\ tx_counter'[e] = Len(sent'[e]) /\ rx_counter'[e] = Len(received'[e])
             /\ stage'[e] # "session" => sent'[e] = <<>> /\ received'[e] = <<>>
  <2>1. tx_counter' = tx_counter /\ sent' = sent /\ stage' = stage
        /\ stage[d] = "session" /\ f.message \in Messages
    BY <1>6 DEF Decrypt, IsActive, TypeOK, Frames
  <2>2. IF e = d
        THEN rx_counter'[e] = rx_counter[e] + 1 /\ received'[e] = Append(received[e], f.message)
        ELSE rx_counter'[e] = rx_counter[e] /\ received'[e] = received[e]
    BY <1>6 DEF Decrypt, IsNext, TypeOK
  <2> QED
    BY <1>1, <1>2, <2>1, <2>2
<1>7. CASE \E d \in Endpoints : \E observed \in Observable(d) \cup {Mistyped} :
             Confirm(d, observed)
  BY <1>1, <1>2, <1>4, <1>7
<1> QED
  BY <1>3, <1>5, <1>6, <1>7, Steps
     DEF Create, Derive, Tick, vars, counters, traffic

LEMMA FramesStep == TypeOK /\ CountersOK /\ FramesOK /\ [Next]_vars => FramesOK'
<1> SUFFICES ASSUME TypeOK, CountersOK, FramesOK, [Next]_vars, NEW f \in bearer'
             PROVE  \E e \in Endpoints : IsFrameOf(f, e)'
  BY DEF FramesOK
<1>1. CASE f \in bearer
  <2>1. PICK e \in Endpoints : IsFrameOf(f, e)
    BY <1>1 DEF FramesOK
  <2>2. sent[e] \in Seq(Messages)
    BY DEF TypeOK
  <2> QED
    BY <2>1, <2>2, KeysStay, SentGrows DEF IsFrameOf
<1>2. CASE f \notin bearer
  <2>1. PICK e \in Endpoints, m \in Messages : Encrypt(e, m)
    BY <1>2, Steps DEF Create, Derive, Confirm, Decrypt, Tick, vars, traffic
  <2>2. f = [key |-> TxKey(e), counter |-> tx_counter'[e], message |-> m]
    BY <1>2, <2>1 DEF Encrypt
  <2>3. sent[e] \in Seq(Messages) /\ tx_counter[e] = Len(sent[e])
        /\ tx_counter'[e] = tx_counter[e] + 1 /\ sent'[e] = Append(sent[e], m)
    BY <2>1 DEF Encrypt, TypeOK, CountersOK
  <2>4. stage[e] = "session" /\ stage'[e] = "session" /\ TxKey(e)' = TxKey(e)
    BY <2>1, KeysStay DEF Encrypt, IsActive
  <2> QED
    BY <2>2, <2>3, <2>4 DEF IsFrameOf
<1> QED
  BY <1>1, <1>2

\* The frame that an endpoint takes is the next one of its peer.
LEMMA TakesNext ==
  ASSUME TypeOK, CountersOK, FramesOK, NEW e \in Endpoints, NEW f \in bearer,
         NEW intact \in BOOLEAN, Decrypt(e, f, intact)
  PROVE  /\ peer[e] \in Endpoints /\ peer[peer[e]] = e
         /\ stage[e] = "session" /\ stage[peer[e]] = "session"
         /\ Len(received[e]) + 1 \in 1..Len(sent[peer[e]])
         /\ received' = [received EXCEPT ![e] =
                           Append(@, sent[peer[e]][Len(received[e]) + 1])]
<1>1. PICK d \in Endpoints : IsFrameOf(f, d)
  BY DEF FramesOK
<1>2. TxKey(d) = RxKey(e)
  BY <1>1 DEF IsFrameOf, Decrypt, Authenticates
<1>3. peer[e] = d /\ peer[d] = e
  BY <1>2, KeyPair
<1>4. f.counter = Len(received[e]) + 1 /\ stage[e] = "session"
  BY DEF Decrypt, IsNext, IsActive, CountersOK
<1> QED
  BY <1>1, <1>3, <1>4 DEF IsFrameOf, Decrypt

LEMMA PrefixStep ==
  TypeOK /\ PairingOK /\ SessionsAgree /\ CountersOK /\ FramesOK /\ PrefixOK /\ [Next]_vars
    => PrefixOK'
<1> SUFFICES ASSUME TypeOK, PairingOK, SessionsAgree, CountersOK, FramesOK, PrefixOK,
                    [Next]_vars,
                    NEW e \in Endpoints, NEW i \in 1..Len(received'[e])
             PROVE  /\ stage'[e] = "session" /\ stage'[peer'[e]] = "session"
                    /\ i \in 1..Len(sent'[peer'[e]])
                    /\ received'[e][i] = sent'[peer'[e]][i]
  BY DEF PrefixOK
<1>1. ASSUME stage[e] = "session", peer[e] \in Endpoints, stage[peer[e]] = "session",
             i \in 1..Len(sent[peer[e]]), received'[e][i] = sent[peer[e]][i]
      PROVE  /\ stage'[e] = "session" /\ stage'[peer'[e]] = "session"
             /\ i \in 1..Len(sent'[peer'[e]])
             /\ received'[e][i] = sent'[peer'[e]][i]
  <2>1. peer'[e] = peer[e] /\ stage'[e] = "session" /\ stage'[peer[e]] = "session"
    BY <1>1, Steady
  <2>2. sent[peer[e]] \in Seq(Messages) /\ sent'[peer[e]] \in Seq(Messages)
    BY <1>1, TypeStep DEF TypeOK
  <2> QED
    BY <1>1, <2>1, <2>2, SentGrows
<1>2. ASSUME i \in 1..Len(received[e]), received'[e][i] = received[e][i]
      PROVE  /\ stage[e] = "session" /\ peer[e] \in Endpoints /\ stage[peer[e]] = "session"
             /\ i \in 1..Len(sent[peer[e]]) /\ received'[e][i] = sent[peer[e]][i]
  BY <1>2 DEF PrefixOK, SessionsAgree
<1>3. CASE received'[e] = received[e]
  BY <1>1, <1>2, <1>3
<1>4. ASSUME NEW f \in bearer, NEW intact \in BOOLEAN, Decrypt(e, f, intact)
      PROVE  /\ stage'[e] = "session" /\ stage'[peer'[e]] = "session"
             /\ i \in 1..Len(sent'[peer'[e]])
             /\ received'[e][i] = sent'[peer'[e]][i]
  <2>1. received' = [received EXCEPT ![e] =
                       Append(@, sent[peer[e]][Len(received[e]) + 1])]
    BY <1>4, TakesNext
  <2>2. received \in [Endpoints -> Seq(Messages)]
    BY DEF TypeOK
  <2>3. received'[e] = Append(received[e], sent[peer[e]][Len(received[e]) + 1])
        /\ received[e] \in Seq(Messages)
    BY <2>1, <2>2
  <2>4. peer[e] \in Endpoints /\ stage[e] = "session" /\ stage[peer[e]] = "session"
        /\ Len(received[e]) + 1 \in 1..Len(sent[peer[e]])
    BY <1>4, TakesNext
  <2>5. sent[peer[e]][Len(received[e]) + 1] \in Messages
    BY <2>4 DEF TypeOK
  <2>6. CASE i \in 1..Len(received[e])
    BY <1>1, <1>2, <2>3, <2>5, <2>6
  <2>7. CASE i = Len(received[e]) + 1
    BY <1>1, <2>3, <2>4, <2>5, <2>7
  <2> QED
    BY <2>3, <2>5, <2>6, <2>7
<1>5. received'[e] = received[e] \/ \E f \in bearer, intact \in BOOLEAN : Decrypt(e, f, intact)
  BY Steps DEF Create, Derive, Confirm, Encrypt, Decrypt, Tick, vars, traffic, TypeOK
<1> QED
  BY <1>3, <1>4, <1>5

LEMMA AgeStep == TypeOK /\ AgeOK /\ [Next]_vars => AgeOK'
<1> SUFFICES ASSUME TypeOK, AgeOK, [Next]_vars, NEW e \in Endpoints, stage'[e] = "session"
             PROVE  confirmed_at'[e] - derived_at'[e] <= ConfirmationTimeout
  BY DEF AgeOK
<1>1. CASE stage[e] = "session"
  BY <1>1, Steady DEF AgeOK
<1>2. CASE stage[e] # "session"
  <2>1. PICK observed \in Observable(e) \cup {Mistyped} :
          Confirm(e, observed) /\ Confirms(e, observed)
    BY <1>2, SessionStart
  <2>2. derived_at' = derived_at /\ confirmed_at'[e] = now
    BY <2>1 DEF Confirm, pairing, TypeOK
  <2> QED
    BY <2>1, <2>2 DEF Confirms
<1> QED
  BY <1>1, <1>2

LEMMA InitInv == Init => IInv
<1> SUFFICES ASSUME Init PROVE IInv
  OBVIOUS
<1>1. TypeOK
  BY BluetoothAssumption DEF Init, TypeOK, Roles
<1> QED
  BY <1>1, BluetoothAssumption
     DEF Init, IInv, PairingOK, SessionsAgree, CountersOK, FramesOK, PrefixOK, AgeOK, Views

LEMMA NextInv == IInv /\ [Next]_vars => IInv'
  BY TypeStep, PairingStep, CountersStep, FramesStep, PrefixStep, AgeStep DEF IInv

\* The invariant of the specification.
THEOREM Invariance == Spec => []IInv
  BY InitInv, NextInv, PTL DEF Spec

-----------------------------------------------------------------------------
\* Every variable keeps its type; no counter passes MAX_BLUETOOTH_FRAMES_PER_DIRECTION.
THEOREM TypeCorrect == Spec => []TypeOK
<1>1. IInv => TypeOK
  BY DEF IInv
<1> QED
  BY <1>1, Invariance, PTL

\* derive() and confirm() give the two ends of a session the same keys, for any
\* number of pairings that go on at once.
THEOREM SessionsArePaired == Spec => []SessionsAgree
<1>1. IInv => SessionsAgree
  BY DEF IInv
<1> QED
  BY <1>1, Invariance, PTL

\* encrypt() never protects two messages with one key and nonce.
THEOREM NoncesAreUsedOnce == Spec => []NonceUsedOnce
<1>1. IInv => NonceUsedOnce
  <2> SUFFICES ASSUME IInv, NEW f \in bearer, NEW g \in bearer,
                      f.key = g.key, f.counter = g.counter
               PROVE  f = g
    BY DEF NonceUsedOnce
  <2>1. PICK d \in Endpoints : IsFrameOf(f, d)
    BY DEF IInv, FramesOK
  <2>2. PICK e \in Endpoints : IsFrameOf(g, e)
    BY DEF IInv, FramesOK
  <2>3. d = e
    BY <2>1, <2>2, KeyOwner DEF IsFrameOf, IInv
  <2>4. f.message = g.message
    BY <2>1, <2>2, <2>3 DEF IsFrameOf
  <2>5. f \in Frames /\ g \in Frames
    BY DEF IInv, TypeOK
  <2> QED
    BY <2>4, <2>5 DEF Frames
<1> QED
  BY <1>1, Invariance, PTL

\* encrypt() and decrypt() do nothing with keys older than the confirmation window
\* and the lifetime of a session.
THEOREM KeysAreShortLived == Spec => KeysExpire
<1> DEFINE Fresh ==
      \A e \in Endpoints :
        (sent'[e] # sent[e] \/ received'[e] # received[e]) =>
          now - derived_at[e] <= ConfirmationTimeout + SessionLifetime
<1>1. IInv /\ [Next]_vars => [Fresh]_vars
  <2> SUFFICES ASSUME IInv, [Next]_vars, NEW e \in Endpoints,
                      sent'[e] # sent[e] \/ received'[e] # received[e]
               PROVE  now - derived_at[e] <= ConfirmationTimeout + SessionLifetime
    OBVIOUS
  <2>1. IsActive(e)
    BY Steps DEF IInv, TypeOK, Create, Derive, Confirm, Encrypt, Decrypt, Tick, vars, traffic
  <2> QED
    BY <2>1, BluetoothAssumption DEF IsActive, IInv, AgeOK, TypeOK
<1> QED
  BY <1>1, Invariance, PTL DEF Spec, KeysExpire

-----------------------------------------------------------------------------
\* Only an endpoint that takes a frame changes what was received of anyone.
LEMMA ReceivedStays ==
  ASSUME IInv, [Next]_vars, NEW e \in Endpoints, received' = received
  PROVE  ReceivedFrom(e)' = ReceivedFrom(e)
<1> USE DEF IInv
<1>1. CASE stage[e] = "session" /\ stage[peer[e]] = "session"
  BY <1>1, Steady DEF ReceivedFrom, SessionsAgree
<1>2. CASE stage'[e] # "session" \/ stage'[peer'[e]] # "session"
  <2>1. ReceivedFrom(e)' = <<>>
    BY <1>2 DEF ReceivedFrom
  <2>2. ~(stage[e] = "session" /\ stage[peer[e]] = "session")
    BY <1>2, Steady DEF SessionsAgree
  <2> QED
    BY <2>1, <2>2 DEF ReceivedFrom
<1>3. CASE /\ stage'[e] = "session" /\ stage'[peer'[e]] = "session"
           /\ ~(stage[e] = "session" /\ stage[peer[e]] = "session")
  <2>1. peer'[e] \in Endpoints /\ peer'[peer'[e]] = e
    BY <1>3, NextInv DEF SessionsAgree
  <2>2. stage[e] # "session" \/ stage[peer'[e]] # "session"
    BY <1>3, Steady
  <2>3. received'[peer'[e]] = <<>>
    <3>1. PrefixOK' /\ CountersOK
      BY NextInv
    <3>2. CASE stage[peer'[e]] # "session"
      BY <2>1, <3>1, <3>2 DEF CountersOK
    <3>3. CASE stage[peer'[e]] = "session" /\ stage[e] # "session"
      <4>1. peer[peer'[e]] = e
        BY <2>1, <3>3, Steady
      <4>2. received[peer'[e]] \in Seq(Messages)
        BY <2>1 DEF TypeOK
      <4>3. Len(received[peer'[e]]) = 0
        <5>1. ~(1 \in 1..Len(received[peer'[e]]))
          BY <2>1, <3>3, <4>1 DEF PrefixOK
        <5> QED
          BY <4>2, <5>1
      <4> QED
        BY <4>2, <4>3
    <3> QED
      BY <2>2, <3>2, <3>3
  <2> QED
    BY <1>3, <2>3 DEF ReceivedFrom
<1> QED
  BY <1>1, <1>2, <1>3

\* Sessions implement the channel: whatever is lost, repeated, reordered or garbled,
\* the other end receives a prefix of what was sent.
THEOREM Refinement == Spec => ImplementsChannel
<1> DEFINE R == [e \in Endpoints |-> ReceivedFrom(e)]
<1>1. Init => Channel!Init
  BY DEF Init, Channel!Init, ReceivedFrom
<1>2. IInv /\ [Next]_vars => [Channel!Next]_(Channel!channel)
  <2> SUFFICES ASSUME IInv, [Next]_vars
               PROVE  Channel!Next \/ (sent' = sent /\ R' = R)
    BY DEF Channel!channel
  <2> USE DEF IInv
  <2>1. ASSUME received' = received
        PROVE  R' = R
    BY <2>1, ReceivedStays
  <2>2. ASSUME NEW e \in Endpoints, NEW m \in Messages, Encrypt(e, m)
        PROVE  Channel!Send(e, m)
    <3>1. Len(sent[e]) < MaxFrames /\ sent' = [sent EXCEPT ![e] = Append(@, m)]
      BY <2>2 DEF Encrypt, CountersOK
    <3>2. R' = R
      BY <2>1, <2>2 DEF Encrypt
    <3> QED
      BY <3>1, <3>2 DEF Channel!Send
  <2>3. ASSUME NEW e \in Endpoints, NEW f \in bearer, NEW intact \in BOOLEAN,
               Decrypt(e, f, intact)
        PROVE  Channel!Receive(peer[e])
    <3>1. /\ peer[e] \in Endpoints /\ peer[peer[e]] = e
          /\ stage[e] = "session" /\ stage[peer[e]] = "session"
          /\ Len(received[e]) + 1 \in 1..Len(sent[peer[e]])
          /\ received' = [received EXCEPT ![e] =
                            Append(@, sent[peer[e]][Len(received[e]) + 1])]
      BY <2>3, TakesNext
    <3>2. stage' = stage /\ peer' = peer /\ sent' = sent
      BY <2>3 DEF Decrypt, pairing
    <3>3. R[peer[e]] = received[e]
      BY <3>1 DEF ReceivedFrom
    <3>4. R'[peer[e]] = Append(received[e], sent[peer[e]][Len(received[e]) + 1])
      BY <3>1, <3>2 DEF ReceivedFrom, TypeOK
    <3>5. ASSUME NEW d \in Endpoints, d # peer[e]
          PROVE  R'[d] = R[d]
      <4>1. ~(stage[d] = "session" /\ peer[d] = e)
        BY <3>1, <3>5 DEF SessionsAgree
      <4>2. peer[d] # e => received'[peer[d]] = received[peer[d]] \/ peer[d] \notin Endpoints
        BY <3>1 DEF TypeOK
      <4> QED
        BY <3>2, <4>1, <4>2 DEF ReceivedFrom, SessionsAgree
    <3>6. R' = [R EXCEPT ![peer[e]] = Append(@, sent[peer[e]][Len(R[peer[e]]) + 1])]
      BY <3>1, <3>3, <3>4, <3>5
    <3>7. Len(R[peer[e]]) < Len(sent[peer[e]])
      BY <3>1, <3>3 DEF TypeOK
    <3> HIDE DEF R
    <3> QED
      BY <3>2, <3>6, <3>7 DEF Channel!Receive, R
  <2>4. CASE UNCHANGED <<sent, received>>
    BY <2>1, <2>4
  <2> QED
    BY <2>2, <2>3, <2>4, Steps, TakesNext
       DEF Channel!Next, Create, Derive, Confirm, Tick, vars, traffic
<1> QED
  BY <1>1, <1>2, Invariance, PTL DEF Spec, ImplementsChannel, Channel!Spec
=============================================================================
