---------------------------- MODULE CommandProofs ----------------------------
(***************************************************************************)
(* Proofs about the CommandObj encoding of a migration file line.          *)
(***************************************************************************)
EXTENDS Command, TLAPS

(* The JSON round trip of Writer.WriteLine and Reader.ReadLine gives back  *)
(* the CommandObj that was written, whatever fields it has set.           *)
THEOREM RoundTrip ==
    ASSUME NEW S, NEW c \in [Kinds -> S]
    PROVE  Unmarshal(Marshal(c)) = c
<1>1. DOMAIN Marshal(c) = {g \in Kinds : c[g] # Nil}
  BY DEF Marshal
<1>2. ASSUME NEW k \in Kinds PROVE Unmarshal(Marshal(c))[k] = c[k]
  BY <1>1 DEF Unmarshal, Marshal
<1>3. QED
  BY <1>2 DEF Unmarshal

(* The order of Dispatch's switch names every kind exactly once.           *)
LEMMA OrderCoversKinds ==
    /\ \A k \in Kinds : \E i \in 1..6 : DispatchOrder[i] = k
    /\ \A i, j \in 1..6 : DispatchOrder[i] = DispatchOrder[j] => i = j
    /\ \A i \in 1..6 : DispatchOrder[i] \in Kinds
BY DEF DispatchOrder, Kinds

(* A line the Processor writes with a non-nil argument object holds that   *)
(* one command: read back by the Migrator, Dispatch finds it and sends     *)
(* the transaction of the kind it was written as.                          *)
THEOREM LineDispatchedAsWritten ==
    ASSUME NEW k \in Kinds, NEW obj, obj # Nil
    PROVE  LET c == Unmarshal(Line(k, obj))
           IN  /\ Dispatchable(c)
               /\ DispatchKind(c) = k
<1>. DEFINE e == With(EmptyCommand, k, obj)
            c == Unmarshal(Line(k, obj))
<1>1. EmptyCommand \in [Kinds -> {Nil}]
  BY DEF EmptyCommand
<1>2. c = e
  <2>1. e \in [Kinds -> {Nil, obj}]
    BY <1>1 DEF With
  <2>2. QED
    BY <2>1, RoundTrip DEF Line
<1>3. \A f \in Kinds : Has(c, f) <=> f = k
  <2>1. e[k] = obj /\ \A f \in Kinds \ {k} : e[f] = Nil
    BY DEF With, EmptyCommand
  <2>2. QED
    BY <1>2, <2>1 DEF Has
<1>4. PICK i \in 1..6 : DispatchOrder[i] = k
  BY OrderCoversKinds
<1>5. \A j \in 1..6 : Has(c, DispatchOrder[j]) <=> j = i
  BY <1>3, <1>4, OrderCoversKinds
<1>6. Dispatchable(c)
  BY <1>5 DEF Dispatchable
<1>7. DispatchKind(c) = k
  <2>1. \A m \in 1..6 :
          (/\ Has(c, DispatchOrder[m])
           /\ \A j \in 1..(m - 1) : ~Has(c, DispatchOrder[j])) <=> m = i
    BY <1>5
  <2>2. QED
    BY <1>4, <2>1 DEF DispatchKind
<1>8. QED
  BY <1>6, <1>7

=============================================================================
