----------------------------- MODULE ByteStream -----------------------------
(***************************************************************************)
(* What a BufferedFsWriter promises its caller: the bytes given to it form *)
(* one stream, and when it says the stream is saved, the card is what it   *)
(* was before with exactly that stream laid over its beginning.  Until     *)
(* then, and after a failure, the card may hold anything.                  *)
(***************************************************************************)
EXTENDS Integers

CONSTANTS
  Addr,         \* addresses of the card
  Cell,         \* what a cell may hold
  Zero,         \* the byte fill appends
  Payload       \* the byte a caller writes at each position

VARIABLES
  state,        \* "new", "open", "failed", "saved"
  stream,       \* the bytes taken so far, a function on 0 .. length - 1
  base,         \* the card before the first byte
  media         \* the card now

vars == <<state, stream, base, media>>

Init ==
  /\ state = "new"
  /\ stream = [a \in {} |-> Zero]
  /\ base \in [Addr -> Cell]
  /\ media = base

Open ==
  /\ state = "new"
  /\ state' \in {"open", "failed"}
  /\ UNCHANGED <<stream, base, media>>

\* fill appends zeros, write appends the caller's bytes.
Append ==
  /\ state = "open"
  /\ DOMAIN stream \subseteq DOMAIN stream'
  /\ \A a \in DOMAIN stream : stream'[a] = stream[a]
  /\ \/ \A a \in DOMAIN stream' \ DOMAIN stream : stream'[a] = Zero
     \/ \A a \in DOMAIN stream' \ DOMAIN stream : stream'[a] = Payload[a]
  /\ UNCHANGED <<state, base, media>>

\* The card is discarded before anything is written.
Erase ==
  /\ state = "open" /\ stream = [a \in {} |-> Zero]
  /\ state' \in {"open", "failed"}
  /\ media' \in [Addr -> Cell]
  /\ base' = media'
  /\ UNCHANGED stream

\* Blocks go to the card ahead of the flush; a write may fail.
Spill ==
  /\ state \in {"open", "failed"}
  /\ state' \in {state, "failed"}
  /\ media' \in [Addr -> Cell]
  /\ UNCHANGED <<stream, base>>

\* The writer reports success: this is the promise.
Save ==
  /\ state = "open"
  /\ state' = "saved"
  /\ DOMAIN stream \subseteq Addr
  /\ media' = [a \in Addr |-> IF a \in DOMAIN stream THEN stream[a] ELSE base[a]]
  /\ UNCHANGED <<stream, base>>

Next == Open \/ Append \/ Erase \/ Spill \/ Save

Spec == Init /\ [][Next]_vars
=============================================================================
