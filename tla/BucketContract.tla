--------------------------- MODULE BucketContract ---------------------------
(***************************************************************************)
(* CreateDdcBucketContract in src/contract/pkg/bucket/ddc_bucket_contract.go *)
(* (lines 266-606), the only way to obtain a ddcBucketContract.  It hex-     *)
(* decodes every method selector constant in a fixed order, calling         *)
(* log.Fatal (which exits the process) on the first one that does not       *)
(* decode; then it parses every event id of eventDispatchTable into a Hash, *)
(* in Go's unspecified map order, again with log.Fatalf on a failure; then  *)
(* it returns the client.                                                   *)
(*                                                                         *)
(* A hex text is abstracted to what the decoders look at: its length and   *)
(* whether every character is a hex digit.                                 *)
(***************************************************************************)
EXTENDS Naturals, Sequences

HexText(n) == [len |-> n, digits |-> TRUE]

\* The selector constants in the order the constructor decodes them:
\* thirty-two 8-digit selectors (bucketGetMethod ... adminTransferCdnNode-
\* OwnershipMethod), the seven account selectors "1" ... "7", and fifteen
\* empty bucket selectors (the betBucketWriters field decodes
\* bucketSetResourceCapMethod, which is also empty).
DecodeOrder ==
  [i \in 1 .. 54 |-> IF i <= 32 THEN HexText(8)
                     ELSE IF i <= 39 THEN HexText(1)
                     ELSE HexText(0)]

\* The thirty event ids of eventDispatchTable, each 64 hex digits.
EventTable == [i \in 1 .. 30 |-> HexText(64)]

\* encoding/hex.DecodeString fails on an odd length (ErrLength) and on a
\* character that is not a hex digit (InvalidByteError).
HexDecodes(t) == t.len % 2 = 0 /\ t.digits

\* types.NewHashFromHexString pads an odd-length text with a leading zero,
\* decodes it and requires exactly 32 bytes.
HashDecodes(t) == t.digits /\ (t.len + 1) \div 2 = 32

VARIABLES
  pc,          \* "decode", "events", "returned" or "fatal" (process exited)
  next,        \* index in DecodeOrder of the next selector to decode
  methodIds,   \* byte lengths of the selectors decoded so far
  dispatcher,  \* indices of the event ids entered in eventDispatcher
  pending      \* indices of the event ids the range loop has not visited

vars == <<pc, next, methodIds, dispatcher, pending>>

Init ==
  /\ pc = "decode"
  /\ next = 1
  /\ methodIds = <<>>
  /\ dispatcher = {}
  /\ pending = DOMAIN EventTable

\* `xMethodId, err := hex.DecodeString(xMethod); if err != nil { Fatal }`.
DecodeSelector ==
  /\ pc = "decode"
  /\ next <= Len(DecodeOrder)
  /\ IF HexDecodes(DecodeOrder[next])
       THEN /\ methodIds' = Append(methodIds, DecodeOrder[next].len \div 2)
            /\ next' = next + 1
            /\ UNCHANGED pc
       ELSE /\ pc' = "fatal"
            /\ UNCHANGED <<next, methodIds>>
  /\ UNCHANGED <<dispatcher, pending>>

\* `eventDispatcher := make(...)` once every selector has decoded.
StartEvents ==
  /\ pc = "decode"
  /\ next > Len(DecodeOrder)
  /\ pc' = "events"
  /\ UNCHANGED <<next, methodIds, dispatcher, pending>>

\* One iteration of `for k, v := range eventDispatchTable`, in any order.
AddEvent ==
  /\ pc = "events"
  /\ \E e \in pending :
       IF HashDecodes(EventTable[e])
         THEN /\ dispatcher' = dispatcher \cup {e}
              /\ pending' = pending \ {e}
              /\ UNCHANGED pc
         ELSE /\ pc' = "fatal"
              /\ UNCHANGED <<dispatcher, pending>>
  /\ UNCHANGED <<next, methodIds>>

\* `return &ddcBucketContract{...}`.
Return ==
  /\ pc = "events"
  /\ pending = {}
  /\ pc' = "returned"
  /\ UNCHANGED <<next, methodIds, dispatcher, pending>>

Next == DecodeSelector \/ StartEvents \/ AddEvent \/ Return

Spec == Init /\ [][Next]_vars

\* The log.Fatal calls of CreateDdcBucketContract assert that every method
\* selector and every event id decodes: the constructor never exits the
\* process.
ConstructorNeverExits == pc # "fatal"

=============================================================================
