---------------------------- MODULE RewardsProofs ----------------------------
(***************************************************************************)
(* Proof that RewardsFromLastMigration holds for every set of validators,  *)
(* MadIDs, epochs and deposits.  Before Finalize the file holds no         *)
(* SetBalancesFor line, a validator has a start epoch in finalValidators   *)
(* iff an AddValidatorImmediate line names it, and its start epoch is that *)
(* of the first Migrate line after the last such line: NextEpoch writes    *)
(* the AddValidatorImmediate lines of a migration and then its Migrate     *)
(* line, and records the migration's epoch for exactly those validators.   *)
(* Finalize then writes one SetBalancesFor per started validator (its      *)
(* order is a bijection onto them), and nothing is written after it.       *)
(***************************************************************************)
EXTENDS ProcessorProofs

USE EpochAssumption, DepositAssumption, WordAssumption, ValidatorsAssumption

(* The lines of kind k of a sequence of lines f.                           *)
LinesIn(f, k) == {i \in 1..Len(f) : k \in DOMAIN f[i]}

(* f has no line of kind k.                                                *)
NoLines(f, k) == LinesIn(f, k) = {}

(* The AddValidatorImmediate lines of f naming validator v.                *)
AddedIn(f, v) ==
    {i \in LinesIn(f, "AddValidatorImmediate") :
        f[i]["AddValidatorImmediate"].validator = v}

(* In f, line a is v's last AddValidatorImmediate line and m the first     *)
(* Migrate line after it, of epoch ep.                                     *)
NextMigrateIs(f, v, ep) ==
    \E a \in AddedIn(f, v), m \in LinesIn(f, "Migrate") :
        /\ a < m
        /\ \A i \in AddedIn(f, v) : i <= a
        /\ \A j \in LinesIn(f, "Migrate") : j > a => j >= m
        /\ f[m]["Migrate"].epoch = ep

NoBalances == NoLines(file, "SetBalancesFor")

AddedIffStarted ==
    \A v \in Validators : finalValidators[v] = Nil <=> AddedIn(file, v) = {}

(* Each started validator started at the epoch of the first Migrate line   *)
(* after its last AddValidatorImmediate line.                              *)
StartedAtNextMigrate ==
    \A v \in Validators : finalValidators[v] # Nil =>
        NextMigrateIs(file, v, finalValidators[v])

(* A pending migration carries its own epoch and lists each validator     *)
(* once (ValidatorSet orders a set of validators).                         *)
PendingMigrations ==
    \A e \in EpochKeys : migrations[e] # Nil =>
        /\ migrations[e].epoch = e
        /\ IsInjective(validatorCmdMap[e])

(* MigrateEpochAfter(i) of the file f.                                     *)
MigrateAfterIn(f, i) == f[Min({j \in LinesIn(f, "Migrate") : j > i})]["Migrate"].epoch

(* RewardsFromLastMigration of the file f, epoch ep and flag fin.         *)
RewardsIn(f, ep, fin) ==
    fin =>
        \A v \in Validators :
            LET added == AddedIn(f, v)
                paid == {i \in LinesIn(f, "SetBalancesFor") :
                            f[i]["SetBalancesFor"].who = v}
            IN  /\ added = {} => paid = {}
                /\ added # {} =>
                     \E b \in paid :
                        /\ paid = {b}
                        /\ f[b]["SetBalancesFor"].epochs
                             = ep - MigrateAfterIn(f, Max(added))

StartsBehind ==
    \A v \in Validators : finalValidators[v] # Nil => finalValidators[v] < epoch

RInv ==
    /\ TInv
    /\ PendingMigrations
    /\ StartsBehind
    /\ ~finalized => NoBalances /\ AddedIffStarted /\ StartedAtNextMigrate
    /\ finalized => RewardsFromLastMigration

-----------------------------------------------------------------------------

(* A line written for field k has no other key.                            *)
LEMMA LineDomain ==
    ASSUME NEW k \in Kinds, NEW obj
    PROVE  DOMAIN Line(k, obj) \subseteq {k}
BY DEF Line, Marshal, With, EmptyCommand

(* The greatest and least element of a set of integers.                    *)
LEMMA MaxIs ==
    ASSUME NEW S \in SUBSET Int, NEW a \in S, \A i \in S : i <= a
    PROVE  Max(S) = a
<1>1. Max(S) \in S /\ \A y \in S : Max(S) >= y
  BY Zenon DEF Max
<1>. DEFINE x == Max(S)
<1>2. x \in Int
  BY <1>1, Zenon
<1>3. x >= a
  BY <1>1
<1>4. x <= a
  BY <1>1, Zenon
<1>5. QED
  BY <1>2, <1>3, <1>4

LEMMA MinIs ==
    ASSUME NEW S \in SUBSET Int, NEW a \in S, \A i \in S : a <= i
    PROVE  Min(S) = a
<1>1. Min(S) \in S /\ \A y \in S : Min(S) <= y
  BY Zenon DEF Min
<1>. DEFINE x == Min(S)
<1>2. x \in Int
  BY <1>1, Zenon
<1>3. x <= a
  BY <1>1
<1>4. x >= a
  BY <1>1, Zenon
<1>5. QED
  BY <1>2, <1>3, <1>4

(* Indexing into a concatenation of two files.                             *)
LEMMA ConcatIndex ==
    ASSUME NEW s \in Seq(CommandLines), NEW t \in Seq(CommandLines)
    PROVE  /\ s \o t \in Seq(CommandLines)
           /\ Len(s \o t) = Len(s) + Len(t)
           /\ \A i \in 1..Len(s) : (s \o t)[i] = s[i]
           /\ \A i \in (Len(s) + 1)..(Len(s) + Len(t)) :
                (s \o t)[i] = t[i - Len(s)]
BY ConcatProperties

(* The lines of kind k of a concatenation: those of the first part, and    *)
(* those of the second shifted by its length.                              *)
LEMMA LinesInConcat ==
    ASSUME NEW s \in Seq(CommandLines), NEW t \in Seq(CommandLines), NEW k
    PROVE  LinesIn(s \o t, k) = LinesIn(s, k) \cup {Len(s) + i : i \in LinesIn(t, k)}
<1>1. Len(s) \in Nat /\ Len(t) \in Nat
  BY LenProperties
<1>2. ASSUME NEW i \in LinesIn(s \o t, k)
      PROVE  i \in LinesIn(s, k) \cup {Len(s) + j : j \in LinesIn(t, k)}
  <2>1. i \in 1..(Len(s) + Len(t)) /\ k \in DOMAIN (s \o t)[i]
    BY ConcatIndex DEF LinesIn
  <2>2. CASE i <= Len(s)
    BY <1>1, <2>1, <2>2, ConcatIndex DEF LinesIn
  <2>3. CASE i > Len(s)
    <3>1. i - Len(s) \in 1..Len(t) /\ i = Len(s) + (i - Len(s))
      BY <1>1, <2>1, <2>3
    <3>2. k \in DOMAIN t[i - Len(s)]
      BY <1>1, <2>1, <2>3, ConcatIndex
    <3>3. QED
      BY <3>1, <3>2 DEF LinesIn
  <2>4. QED
    BY <1>1, <2>1, <2>2, <2>3
<1>3. ASSUME NEW i \in LinesIn(s, k) PROVE i \in LinesIn(s \o t, k)
  BY <1>1, ConcatIndex DEF LinesIn
<1>4. ASSUME NEW j \in LinesIn(t, k) PROVE Len(s) + j \in LinesIn(s \o t, k)
  <2>1. j \in 1..Len(t) /\ k \in DOMAIN t[j]
    BY DEF LinesIn
  <2>2. (s \o t)[Len(s) + j] = t[j]
    BY <1>1, <2>1, ConcatIndex
  <2>3. QED
    BY <1>1, <2>1, <2>2, ConcatIndex DEF LinesIn
<1>5. QED
  BY <1>2, <1>3, <1>4

(* Appending lines none of which is of kind k keeps the lines of kind k.  *)
LEMMA LinesInConcatNone ==
    ASSUME NEW s \in Seq(CommandLines), NEW t \in Seq(CommandLines), NEW k,
           NoLines(t, k)
    PROVE  LinesIn(s \o t, k) = LinesIn(s, k)
<1>1. LinesIn(s \o t, k) = LinesIn(s, k) \cup {Len(s) + i : i \in LinesIn(t, k)}
  BY LinesInConcat, Zenon
<1>2. {Len(s) + i : i \in LinesIn(t, k)} = {}
  BY Zenon DEF NoLines
<1>3. QED
  BY <1>1, <1>2, Zenon

(* Two sequences without lines of kind k concatenate to one without.      *)
LEMMA NoLinesConcat ==
    ASSUME NEW s \in Seq(CommandLines), NEW t \in Seq(CommandLines), NEW k,
           NoLines(s, k), NoLines(t, k)
    PROVE  NoLines(s \o t, k)
<1>1. LinesIn(s \o t, k) = LinesIn(s, k)
  BY LinesInConcatNone
<1>2. QED
  BY <1>1 DEF NoLines

(* A sequence of lines of kind k0 only has no line of another kind.       *)
LEMMA NoOtherKind ==
    ASSUME NEW f \in Seq(CommandLines), NEW k0, NEW k, k # k0,
           \A i \in 1..Len(f) : DOMAIN f[i] \subseteq {k0}
    PROVE  NoLines(f, k)
BY DEF NoLines, LinesIn

(* The lines of each block NextEpoch and Finalize write.                   *)
LEMMA AddValidatorBlock ==
    ASSUME TInv, NEW e \in EpochKeys
    PROVE  /\ \A k \in Kinds \ {"AddValidatorImmediate"} :
                NoLines(AddValidatorLines(e), k)
           /\ migrations[e] # Nil =>
                /\ Len(AddValidatorLines(e)) = Len(validatorCmdMap[e])
                /\ \A i \in 1..Len(validatorCmdMap[e]) :
                     /\ "AddValidatorImmediate" \in DOMAIN AddValidatorLines(e)[i]
                     /\ AddValidatorLines(e)[i]["AddValidatorImmediate"].validator
                          = validatorCmdMap[e][i]
           /\ migrations[e] = Nil => AddValidatorLines(e) = << >>
<1>1. AddValidatorLines(e) \in Seq(CommandLines)
  BY AddValidatorLinesType
<1>2. \A i \in 1..Len(AddValidatorLines(e)) :
        DOMAIN AddValidatorLines(e)[i] \subseteq {"AddValidatorImmediate"}
  <2>1. CASE migrations[e] = Nil
    BY <2>1 DEF AddValidatorLines
  <2>2. CASE migrations[e] # Nil
    <3>1. validatorCmdMap[e] \in Seq(Validators)
      BY <2>2 DEF TInv, CmdMapPaired
    <3>2. QED
      BY <2>2, <3>1, LineDomain DEF AddValidatorLines, Kinds
  <2>3. QED
    BY <2>1, <2>2
<1>3. \A k \in Kinds \ {"AddValidatorImmediate"} :
        NoLines(AddValidatorLines(e), k)
  BY <1>1, <1>2, NoOtherKind, Zenon
<1>4. ASSUME migrations[e] # Nil, NEW i \in 1..Len(validatorCmdMap[e])
      PROVE  /\ "AddValidatorImmediate" \in DOMAIN AddValidatorLines(e)[i]
             /\ AddValidatorLines(e)[i]["AddValidatorImmediate"].validator
                  = validatorCmdMap[e][i]
  <2>. DEFINE r == [validator |-> validatorCmdMap[e][i],
                    madID |-> validatorIDMap[validatorCmdMap[e][i]]]
  <2>1. r # Nil
    <3>1. validatorCmdMap[e] \in Seq(Validators)
      BY <1>4 DEF TInv, CmdMapPaired
    <3>2. r \in ArgType["AddValidatorImmediate"]
      BY <3>1 DEF TInv, TypeOK, ArgType, AddValidatorImmediateArg
    <3>3. QED
      BY <3>2, NilAssumption DEF Kinds
  <2>2. AddValidatorLines(e)[i] = [f \in {"AddValidatorImmediate"} |-> r]
    BY <1>4, <2>1, LineOfArg DEF AddValidatorLines, Kinds
  <2>3. QED
    BY <2>2
<1>5. migrations[e] # Nil => Len(AddValidatorLines(e)) = Len(validatorCmdMap[e])
  <2>1. migrations[e] # Nil => Len(validatorCmdMap[e]) \in Nat
    BY LenProperties DEF TInv, CmdMapPaired
  <2>2. QED
    BY <2>1 DEF AddValidatorLines
<1>6. migrations[e] = Nil => AddValidatorLines(e) = << >>
  BY DEF AddValidatorLines
<1>7. QED
  BY <1>3, <1>4, <1>5, <1>6

LEMMA MigrateBlock ==
    ASSUME TInv, NEW e \in EpochKeys
    PROVE  /\ \A k \in Kinds \ {"Migrate"} : NoLines(MigrateLines(e), k)
           /\ migrations[e] # Nil =>
                /\ Len(MigrateLines(e)) = 1
                /\ "Migrate" \in DOMAIN MigrateLines(e)[1]
                /\ MigrateLines(e)[1]["Migrate"] = migrations[e]
           /\ migrations[e] = Nil => MigrateLines(e) = << >>
<1>1. MigrateLines(e) \in Seq(CommandLines)
  BY MigrateLinesType
<1>2. \A i \in 1..Len(MigrateLines(e)) :
        DOMAIN MigrateLines(e)[i] \subseteq {"Migrate"}
  BY LineDomain DEF MigrateLines, Kinds
<1>3. migrations[e] # Nil =>
        MigrateLines(e)[1] = [f \in {"Migrate"} |-> migrations[e]]
  <2>1. migrations[e] # Nil => migrations[e] \in ArgType["Migrate"]
    BY DEF TInv, TypeOK, ArgType
  <2>2. QED
    BY <2>1, NilAssumption, LineOfArg DEF MigrateLines, Kinds
<1>4. \A k \in Kinds \ {"Migrate"} : NoLines(MigrateLines(e), k)
  BY <1>1, <1>2, NoOtherKind, Zenon
<1>5. migrations[e] # Nil => Len(MigrateLines(e)) = 1
  BY DEF MigrateLines
<1>6. migrations[e] = Nil => MigrateLines(e) = << >>
  BY DEF MigrateLines
<1>7. QED
  BY <1>3, <1>4, <1>5, <1>6

LEMMA DepositBlock ==
    ASSUME TInv, NEW e \in EpochKeys, DepositLoopInRange(e)
    PROVE  \A k \in Kinds \ {"DirectDeposit"} : NoLines(DepositLines(e), k)
<1>1. DepositLines(e) \in Seq(CommandLines)
  BY DepositLinesType
<1>2. \A i \in 1..Len(DepositLines(e)) :
        DOMAIN DepositLines(e)[i] \subseteq {"DirectDeposit"}
  BY PendingType, LineDomain DEF DepositLines, Kinds
<1>3. QED
  BY <1>1, <1>2, NoOtherKind, Zenon

LEMMA BalanceBlock ==
    ASSUME TInv,
           NEW order \in SetToSeqs({v \in Validators : finalValidators[v] # Nil})
    PROVE  /\ \A k \in Kinds \ {"SetBalancesFor"} :
                NoLines(BalanceLines(order), k)
           /\ LinesIn(BalanceLines(order), "SetBalancesFor") = 1..Len(order)
           /\ Len(BalanceLines(order)) = Len(order)
           /\ \A i \in 1..Len(order) :
                BalanceLines(order)[i]["SetBalancesFor"]
                  = [who |-> order[i],
                     epochs |-> (epoch - finalValidators[order[i]]) % Word]
<1>1. BalanceLines(order) \in Seq(CommandLines) /\ order \in Seq(Validators)
  BY BalanceLinesType, OrderType
<1>2. \A i \in 1..Len(order) :
        BalanceLines(order)[i]
          = [f \in {"SetBalancesFor"} |->
               [who |-> order[i],
                epochs |-> (epoch - finalValidators[order[i]]) % Word]]
  <2>1. SUFFICES ASSUME NEW i \in 1..Len(order)
                 PROVE  BalanceLines(order)[i]
                          = [f \in {"SetBalancesFor"} |->
                               [who |-> order[i],
                                epochs |-> (epoch - finalValidators[order[i]]) % Word]]
    BY Zenon
  <2>. DEFINE r == [who |-> order[i],
                    epochs |-> (epoch - finalValidators[order[i]]) % Word]
  <2>2. order[i] \in Validators /\ finalValidators[order[i]] \in Epochs
    <3>1. order[i] \in Validators /\ finalValidators[order[i]] # Nil
      BY OrderType
    <3>2. QED
      BY <3>1 DEF TInv, TypeOK
  <2>3. r \in ArgType["SetBalancesFor"]
    <3>1. epoch \in Int /\ finalValidators[order[i]] \in Int
      BY <2>2 DEF TInv, TypeOK, EpochKeys, Epochs
    <3>2. (epoch - finalValidators[order[i]]) % Word \in 0..(Word - 1)
      <4>1. Word \in Nat /\ Word > 0
        BY WordAssumption, EpochAssumption
      <4>2. QED
        BY <3>1, <4>1
    <3>3. r \in SetBalancesForArg
      BY <2>2, <3>2 DEF SetBalancesForArg
    <3>4. QED
      BY <3>3 DEF ArgType
  <2>4. r # Nil
    BY <2>3, NilAssumption DEF Kinds
  <2>5. QED
    BY <2>4, LineOfArg DEF BalanceLines, Kinds
<1>3. Len(BalanceLines(order)) = Len(order)
  BY <1>1 DEF BalanceLines
<1>4. \A k \in Kinds \ {"SetBalancesFor"} : NoLines(BalanceLines(order), k)
  <2>1. \A i \in 1..Len(BalanceLines(order)) :
          DOMAIN BalanceLines(order)[i] \subseteq {"SetBalancesFor"}
    BY <1>2, <1>3
  <2>2. QED
    BY <1>1, <2>1, NoOtherKind, Zenon
<1>5. LinesIn(BalanceLines(order), "SetBalancesFor") = 1..Len(order)
  BY <1>2, <1>3 DEF LinesIn
<1>6. \A i \in 1..Len(order) :
        BalanceLines(order)[i]["SetBalancesFor"]
          = [who |-> order[i],
             epochs |-> (epoch - finalValidators[order[i]]) % Word]
  BY <1>2, Zenon
<1>7. QED
  BY <1>3, <1>4, <1>5, <1>6

(* The Snapshot and SetEpoch lines that end the file.                      *)
LEMMA TailBlock ==
    ASSUME TInv
    PROVE  \A k \in {"AddValidatorImmediate", "Migrate", "SetBalancesFor"} :
              /\ NoLines(SnapshotLines, k)
              /\ NoLines(<<Line("SetEpoch", [number |-> epoch])>>, k)
<1>1. SnapshotLines \in Seq(CommandLines)
      /\ <<Line("SetEpoch", [number |-> epoch])>> \in Seq(CommandLines)
  BY SnapshotLinesType
<1>2. \A i \in 1..Len(SnapshotLines) : DOMAIN SnapshotLines[i] \subseteq {"Snapshot"}
  BY LineDomain DEF SnapshotLines, Kinds
<1>3. DOMAIN Line("SetEpoch", [number |-> epoch]) \subseteq {"SetEpoch"}
  BY LineDomain DEF Kinds
<1>4. ASSUME NEW k \in {"AddValidatorImmediate", "Migrate", "SetBalancesFor"}
      PROVE  NoLines(SnapshotLines, k)
  <2>1. k # "Snapshot"
    OBVIOUS
  <2>2. QED
    BY <1>1, <1>2, <2>1, NoOtherKind, Zenon
<1>5. ASSUME NEW k \in {"AddValidatorImmediate", "Migrate", "SetBalancesFor"}
      PROVE  NoLines(<<Line("SetEpoch", [number |-> epoch])>>, k)
  BY <1>3 DEF NoLines, LinesIn
<1>6. QED
  BY <1>4, <1>5

(* Appending lines of other kinds keeps v's lines and its next Migrate.    *)
LEMMA AppendOthers ==
    ASSUME NEW F \in Seq(CommandLines), NEW T \in Seq(CommandLines),
           NoLines(T, "AddValidatorImmediate"),
           NoLines(T, "Migrate"),
           NEW v, NEW ep
    PROVE  /\ LinesIn(F \o T, "AddValidatorImmediate")
                = LinesIn(F, "AddValidatorImmediate")
           /\ LinesIn(F \o T, "Migrate") = LinesIn(F, "Migrate")
           /\ AddedIn(F \o T, v) = AddedIn(F, v)
           /\ NextMigrateIs(F, v, ep) => NextMigrateIs(F \o T, v, ep)
<1>1. /\ LinesIn(F \o T, "AddValidatorImmediate")
           = LinesIn(F, "AddValidatorImmediate")
      /\ LinesIn(F \o T, "Migrate") = LinesIn(F, "Migrate")
  BY LinesInConcatNone, Zenon
<1>2. \A i \in 1..Len(F) : (F \o T)[i] = F[i]
  BY ConcatIndex
<1>3. AddedIn(F \o T, v) = AddedIn(F, v)
  BY <1>1, <1>2 DEF AddedIn, LinesIn
<1>4. NextMigrateIs(F, v, ep) => NextMigrateIs(F \o T, v, ep)
  BY <1>1, <1>2, <1>3 DEF NextMigrateIs, LinesIn
<1>5. QED
  BY <1>1, <1>3, <1>4

(* Appending a migration's AddValidatorImmediate lines for the list s and *)
(* then its Migrate line of epoch e: each validator of s now has its last  *)
(* line in the block and starts at e; any other keeps its lines and its    *)
(* next Migrate line.                                                      *)
IsMigrationBlock(A, M, s, e) ==
    /\ Len(A) = Len(s)
    /\ \A i \in 1..Len(s) :
          /\ "AddValidatorImmediate" \in DOMAIN A[i]
          /\ A[i]["AddValidatorImmediate"].validator = s[i]
    /\ NoLines(A, "Migrate")
    /\ Len(M) = 1 /\ "Migrate" \in DOMAIN M[1] /\ M[1]["Migrate"].epoch = e
    /\ NoLines(M, "AddValidatorImmediate")

LEMMA AppendMigration ==
    ASSUME NEW F \in Seq(CommandLines), NEW A \in Seq(CommandLines),
           NEW M \in Seq(CommandLines), NEW s \in Seq(Validators), NEW e,
           IsInjective(s), IsMigrationBlock(A, M, s, e),
           NEW v
    PROVE  /\ (\E i \in 1..Len(s) : s[i] = v) =>
                 /\ AddedIn((F \o A) \o M, v) # {}
                 /\ NextMigrateIs((F \o A) \o M, v, e)
           /\ ~(\E i \in 1..Len(s) : s[i] = v) =>
                 /\ AddedIn((F \o A) \o M, v) = AddedIn(F, v)
                 /\ \A ep : NextMigrateIs(F, v, ep)
                              => NextMigrateIs((F \o A) \o M, v, ep)
<1>. DEFINE L == Len(F)
            n == Len(s)
            FA == F \o A
            G == FA \o M
<1>0. /\ Len(A) = n
      /\ \A i \in 1..n :
            /\ "AddValidatorImmediate" \in DOMAIN A[i]
            /\ A[i]["AddValidatorImmediate"].validator = s[i]
      /\ NoLines(A, "Migrate")
      /\ Len(M) = 1 /\ "Migrate" \in DOMAIN M[1] /\ M[1]["Migrate"].epoch = e
      /\ NoLines(M, "AddValidatorImmediate")
  BY DEF IsMigrationBlock
<1>1. L \in Nat /\ n \in Nat
  BY LenProperties
<1>2. /\ FA \in Seq(CommandLines) /\ Len(FA) = L + n
      /\ \A i \in 1..L : FA[i] = F[i]
      /\ \A i \in (L + 1)..(L + n) : FA[i] = A[i - L]
  <2>1. /\ FA \in Seq(CommandLines) /\ Len(FA) = Len(F) + Len(A)
        /\ \A i \in 1..Len(F) : FA[i] = F[i]
        /\ \A i \in (Len(F) + 1)..(Len(F) + Len(A)) : FA[i] = A[i - Len(F)]
    BY ConcatIndex, Zenon
  <2>2. QED
    BY <1>0, <2>1
<1>3. /\ G \in Seq(CommandLines) /\ Len(G) = L + n + 1
      /\ \A i \in 1..L : G[i] = F[i]
      /\ \A i \in 1..n : G[L + i] = A[i]
      /\ G[L + n + 1] = M[1]
  <2>1. /\ G \in Seq(CommandLines) /\ Len(G) = Len(FA) + Len(M)
        /\ \A i \in 1..Len(FA) : G[i] = FA[i]
        /\ \A i \in (Len(FA) + 1)..(Len(FA) + Len(M)) : G[i] = M[i - Len(FA)]
    BY <1>2, ConcatIndex, Zenon
  <2>2. QED
    BY <1>0, <1>1, <1>2, <2>1
<1>4. LinesIn(A, "AddValidatorImmediate") = 1..n
  BY <1>0 DEF LinesIn
<1>5. /\ LinesIn(G, "AddValidatorImmediate")
           = LinesIn(F, "AddValidatorImmediate") \cup {L + i : i \in 1..n}
      /\ LinesIn(G, "Migrate") = LinesIn(F, "Migrate") \cup {L + n + 1}
  <2>1. /\ LinesIn(FA, "AddValidatorImmediate")
             = LinesIn(F, "AddValidatorImmediate")
               \cup {L + i : i \in LinesIn(A, "AddValidatorImmediate")}
        /\ LinesIn(FA, "Migrate")
             = LinesIn(F, "Migrate") \cup {L + i : i \in LinesIn(A, "Migrate")}
    BY LinesInConcat, Zenon
  <2>2. LinesIn(M, "Migrate") = {1}
    BY <1>0 DEF LinesIn
  <2>0. FA \in Seq(CommandLines)
    BY <1>2
  <2>3. LinesIn(G, "AddValidatorImmediate")
          = LinesIn(FA, "AddValidatorImmediate")
            \cup {Len(FA) + i : i \in LinesIn(M, "AddValidatorImmediate")}
    BY <2>0, LinesInConcat, Zenon
  <2>4. LinesIn(G, "Migrate")
          = LinesIn(FA, "Migrate") \cup {Len(FA) + i : i \in LinesIn(M, "Migrate")}
    BY <2>0, LinesInConcat, Zenon
  <2>5. LinesIn(G, "AddValidatorImmediate") = LinesIn(FA, "AddValidatorImmediate")
    BY <1>0, <2>0, LinesInConcatNone, Zenon
  <2>6. LinesIn(G, "Migrate") = LinesIn(F, "Migrate") \cup {L + n + 1}
    <3>1. LinesIn(FA, "Migrate") = LinesIn(F, "Migrate")
      BY <1>0, LinesInConcatNone, Zenon
    <3>2. {Len(FA) + i : i \in LinesIn(M, "Migrate")} = {Len(FA) + 1}
      BY <2>2, Zenon
    <3>3. Len(FA) + 1 = L + n + 1
      BY <1>2
    <3>4. QED
      BY <2>4, <3>1, <3>2, <3>3, Zenon
  <2>7. QED
    BY <1>0, <1>4, <2>1, <2>5, <2>6, SMTT(20)
<1>6. AddedIn(G, v) = AddedIn(F, v) \cup {L + i : i \in {j \in 1..n : s[j] = v}}
  <2>. DEFINE R == {L + i : i \in {j \in 1..n : s[j] = v}}
  <2>1. LinesIn(F, "AddValidatorImmediate") \subseteq 1..L
    BY DEF LinesIn
  <2>2. ASSUME NEW x \in LinesIn(F, "AddValidatorImmediate")
        PROVE  x \in LinesIn(G, "AddValidatorImmediate") /\ G[x] = F[x]
    BY <1>3, <1>5, <2>1
  <2>3. ASSUME NEW i \in 1..n
        PROVE  /\ L + i \in LinesIn(G, "AddValidatorImmediate")
               /\ G[L + i]["AddValidatorImmediate"].validator = s[i]
    BY <1>0, <1>3, <1>5
  <2>4. ASSUME NEW x \in AddedIn(G, v) PROVE x \in AddedIn(F, v) \cup R
    <3>1. x \in LinesIn(G, "AddValidatorImmediate")
          /\ G[x]["AddValidatorImmediate"].validator = v
      BY Zenon DEF AddedIn
    <3>2. x \in LinesIn(F, "AddValidatorImmediate") \/ \E i \in 1..n : x = L + i
      BY <1>5, <3>1
    <3>3. CASE x \in LinesIn(F, "AddValidatorImmediate")
      BY <2>2, <3>1, <3>3, Zenon DEF AddedIn
    <3>4. CASE \E i \in 1..n : x = L + i
      <4>1. PICK i \in 1..n : x = L + i
        BY <3>4
      <4>2. s[i] = v
        BY <2>3, <3>1, <4>1, Zenon
      <4>3. QED
        BY <4>1, <4>2
    <3>5. QED
      BY <3>2, <3>3, <3>4
  <2>5. ASSUME NEW x \in AddedIn(F, v) \cup R PROVE x \in AddedIn(G, v)
    <3>1. CASE x \in AddedIn(F, v)
      <4>1. x \in LinesIn(F, "AddValidatorImmediate")
            /\ F[x]["AddValidatorImmediate"].validator = v
        BY <3>1 DEF AddedIn
      <4>2. QED
        BY <2>2, <4>1, Zenon DEF AddedIn
    <3>2. CASE x \in R
      <4>1. PICK i \in 1..n : s[i] = v /\ x = L + i
        BY <3>2
      <4>2. QED
        BY <2>3, <4>1, Zenon DEF AddedIn
    <3>3. QED
      BY <3>1, <3>2
  <2>6. QED
    BY <2>4, <2>5, Zenon
<1>7. LinesIn(F, "Migrate") \subseteq 1..L /\ AddedIn(F, v) \subseteq 1..L
  BY DEF LinesIn, AddedIn
<1>8. ASSUME NEW i0 \in 1..n, s[i0] = v
      PROVE  AddedIn(G, v) # {} /\ NextMigrateIs(G, v, e)
  <2>1. L + i0 \in AddedIn(G, v)
    BY <1>6, <1>8
  <2>2. \A i \in AddedIn(G, v) : i <= L + i0
    <3>1. \A j \in 1..n : s[j] = v => j = i0
      BY <1>8 DEF IsInjective
    <3>2. QED
      BY <1>1, <1>6, <1>7, <3>1, SMTT(20)
  <2>3. L + n + 1 \in LinesIn(G, "Migrate")
    BY <1>5
  <2>4. \A j \in LinesIn(G, "Migrate") : j > L + i0 => j >= L + n + 1
    BY <1>1, <1>5, <1>7
  <2>5. G[L + n + 1]["Migrate"].epoch = e
    BY <1>0, <1>3
  <2>6. L + i0 < L + n + 1
    BY <1>1
  <2>7. QED
    BY <2>1, <2>2, <2>3, <2>4, <2>5, <2>6, Zenon DEF NextMigrateIs
<1>9. ASSUME ~(\E i \in 1..n : s[i] = v)
      PROVE  /\ AddedIn(G, v) = AddedIn(F, v)
             /\ \A ep : NextMigrateIs(F, v, ep) => NextMigrateIs(G, v, ep)
  <2>1. AddedIn(G, v) = AddedIn(F, v)
    BY <1>6, <1>9
  <2>2. ASSUME NEW ep, NextMigrateIs(F, v, ep) PROVE NextMigrateIs(G, v, ep)
    <3>1. PICK a \in AddedIn(F, v), m \in LinesIn(F, "Migrate") :
            /\ a < m
            /\ \A i \in AddedIn(F, v) : i <= a
            /\ \A j \in LinesIn(F, "Migrate") : j > a => j >= m
            /\ F[m]["Migrate"].epoch = ep
      BY <2>2 DEF NextMigrateIs
    <3>2. m \in LinesIn(G, "Migrate") /\ G[m] = F[m]
      BY <1>3, <1>5, <1>7, <3>1, SMTT(20)
    <3>3. \A j \in LinesIn(G, "Migrate") : j > a => j >= m
      BY <1>1, <1>5, <1>7, <3>1
    <3>4. QED
      BY <2>1, <3>1, <3>2, <3>3, Zenon DEF NextMigrateIs
  <2>3. QED
    BY <2>1, <2>2
<1>10. QED
  BY <1>8, <1>9

(* NextEpoch keeps the file free of SetBalancesFor lines and records, for *)
(* each validator of the epoch's migration, the start its lines show.     *)
LEMMA SnapshotStarts ==
    ASSUME RInv, Snapshot
    PROVE  NoBalances' /\ AddedIffStarted' /\ StartedAtNextMigrate'
<1>. DEFINE cur == epoch
            A == AddValidatorLines(cur)
            M == MigrateLines(cur)
            D == DepositLines(cur)
            FA == file \o A
            FAM == FA \o M
<1>1. /\ cur \in Epochs /\ cur \in EpochKeys /\ DepositLoopInRange(cur)
      /\ ~finalized /\ TInv
  <2>1. cur \in Epochs /\ DepositLoopInRange(cur) /\ ~finalized
    BY DEF Snapshot
  <2>2. cur \in EpochKeys
    BY <2>1 DEF Epochs, EpochKeys
  <2>3. QED
    BY <2>1, <2>2 DEF RInv
<1>2. /\ file \in Seq(CommandLines) /\ A \in Seq(CommandLines)
      /\ M \in Seq(CommandLines) /\ D \in Seq(CommandLines)
  BY <1>1, AddValidatorLinesType, MigrateLinesType, DepositLinesType, SMTT(20) DEF TInv, TypeOK
<1>3. FA \in Seq(CommandLines) /\ FAM \in Seq(CommandLines)
  BY <1>2, ConcatProperties
<1>4. file' = FAM \o D
  BY DEF Snapshot
<1>5. NoBalances'
  <2>1. NoLines(file, "SetBalancesFor")
    BY <1>1 DEF RInv, NoBalances
  <2>2. NoLines(A, "SetBalancesFor")
    BY <1>1, AddValidatorBlock DEF Kinds
  <2>3. NoLines(M, "SetBalancesFor")
    BY <1>1, MigrateBlock DEF Kinds
  <2>4. NoLines(D, "SetBalancesFor")
    BY <1>1, DepositBlock DEF Kinds
  <2>5. NoLines(FA, "SetBalancesFor")
    BY <1>2, <2>1, <2>2, NoLinesConcat
  <2>6. NoLines(FAM, "SetBalancesFor")
    BY <1>2, <1>3, <2>3, <2>5, NoLinesConcat, Zenon
  <2>7. NoLines(FAM \o D, "SetBalancesFor")
    BY <1>2, <1>3, <2>4, <2>6, NoLinesConcat, Zenon
  <2>8. QED
    BY <1>4, <2>7 DEF NoBalances
<1>6. ASSUME NEW v \in Validators, NEW ep
      PROVE  /\ AddedIn(file', v) = AddedIn(FAM, v)
             /\ NextMigrateIs(FAM, v, ep) => NextMigrateIs(file', v, ep)
  <2>1. NoLines(D, "AddValidatorImmediate") /\ NoLines(D, "Migrate")
    BY <1>1, DepositBlock DEF Kinds
  <2>2. /\ AddedIn(FAM \o D, v) = AddedIn(FAM, v)
        /\ NextMigrateIs(FAM, v, ep) => NextMigrateIs(FAM \o D, v, ep)
    BY <1>2, <1>3, <2>1, AppendOthers, ZenonT(30)
  <2>3. QED
    BY <1>4, <2>2
<1>7. CASE migrations[cur] = Nil
  <2>1. FAM = file /\ finalValidators' = finalValidators
    <3>1. A = << >> /\ M = << >>
      BY <1>1, <1>7, AddValidatorBlock, MigrateBlock
    <3>2. FA = file /\ FAM = file
      BY <1>2, <3>1, ConcatEmptySeq
    <3>3. finalValidators' = Started(cur)
      BY DEF Snapshot
    <3>4. QED
      BY <1>7, <3>2, <3>3 DEF Started
  <2>2. /\ AddedIffStarted
        /\ StartedAtNextMigrate
    BY <1>1 DEF RInv
  <2>3. ASSUME NEW v \in Validators
        PROVE  /\ finalValidators'[v] = Nil <=> AddedIn(file', v) = {}
               /\ finalValidators'[v] # Nil =>
                    NextMigrateIs(file', v, finalValidators'[v])
    <3>1. AddedIn(file', v) = AddedIn(file, v)
      BY <1>6, <2>1
    <3>2. NextMigrateIs(file, v, finalValidators[v])
            => NextMigrateIs(file', v, finalValidators[v])
      BY <1>6, <2>1
    <3>3. QED
      BY <2>1, <2>2, <3>1, <3>2 DEF AddedIffStarted, StartedAtNextMigrate
  <2>4. QED
    BY <1>5, <2>3, Zenon DEF AddedIffStarted, StartedAtNextMigrate, AddedIn,
                      NextMigrateIs, LinesIn
<1>8. CASE migrations[cur] # Nil
  <2>. DEFINE s == validatorCmdMap[cur]
  <2>1. s \in Seq(Validators) /\ IsInjective(s) /\ migrations[cur].epoch = cur
    BY <1>1, <1>8 DEF RInv, TInv, CmdMapPaired, PendingMigrations
  <2>2. /\ Len(A) = Len(s)
        /\ \A i \in 1..Len(s) :
              /\ "AddValidatorImmediate" \in DOMAIN A[i]
              /\ A[i]["AddValidatorImmediate"].validator = s[i]
        /\ NoLines(A, "Migrate")
    BY <1>1, <1>8, AddValidatorBlock DEF Kinds
  <2>3. /\ Len(M) = 1 /\ "Migrate" \in DOMAIN M[1] /\ M[1]["Migrate"].epoch = cur
        /\ NoLines(M, "AddValidatorImmediate")
    BY <1>1, <1>8, <2>1, MigrateBlock DEF Kinds
  <2>4. IsMigrationBlock(A, M, s, cur)
    BY <2>2, <2>3 DEF IsMigrationBlock
  <2>5. finalValidators' =
          [v \in Validators |->
             IF \E i \in 1..Len(s) : s[i] = v THEN cur ELSE finalValidators[v]]
    <3>1. finalValidators' = Started(cur)
      BY DEF Snapshot
    <3>2. QED
      BY <1>8, <3>1 DEF Started
  <2>6. ASSUME NEW v \in Validators
        PROVE  /\ finalValidators'[v] = Nil <=> AddedIn(file', v) = {}
               /\ finalValidators'[v] # Nil =>
                    NextMigrateIs(file', v, finalValidators'[v])
    <3>1. CASE \E i \in 1..Len(s) : s[i] = v
      <4>1. AddedIn(FAM, v) # {} /\ NextMigrateIs(FAM, v, cur)
        BY <1>2, <2>1, <2>4, <3>1, AppendMigration, Zenon
      <4>2. finalValidators'[v] = cur /\ cur # Nil
        BY <1>1, <2>5, <3>1, NilEpochAssumption
      <4>3. QED
        BY <1>6, <4>1, <4>2
    <3>2. CASE ~\E i \in 1..Len(s) : s[i] = v
      <4>1. /\ AddedIn(FAM, v) = AddedIn(file, v)
            /\ \A ep : NextMigrateIs(file, v, ep) => NextMigrateIs(FAM, v, ep)
        BY <1>2, <2>1, <2>4, <3>2, AppendMigration, Zenon
      <4>2. finalValidators'[v] = finalValidators[v]
        BY <2>5, <3>2
      <4>3. /\ finalValidators[v] = Nil <=> AddedIn(file, v) = {}
            /\ finalValidators[v] # Nil =>
                 NextMigrateIs(file, v, finalValidators[v])
        BY <1>1 DEF RInv, AddedIffStarted, StartedAtNextMigrate
      <4>4. QED
        BY <1>6, <4>1, <4>2, <4>3
    <3>3. QED
      BY <3>1, <3>2
  <2>7. QED
    BY <1>5, <2>6, Zenon DEF AddedIffStarted, StartedAtNextMigrate, AddedIn,
                      NextMigrateIs, LinesIn
<1>9. QED
  BY <1>5, <1>7, <1>8

(* The part of RInv that reads only the file, the start epochs, p.epoch   *)
(* and the finalized flag.                                                 *)
FileRInv ==
    /\ StartsBehind
    /\ ~finalized => NoBalances /\ AddedIffStarted /\ StartedAtNextMigrate
    /\ finalized => RewardsFromLastMigration

(* A step that leaves the file, the start epochs, p.epoch and the flag    *)
(* alone keeps FileRInv.                                                   *)
LEMMA FileFrame ==
    ASSUME FileRInv,
           file' = file, finalValidators' = finalValidators, epoch' = epoch,
           finalized' = finalized
    PROVE  FileRInv'
<1>1. StartsBehind'
  BY DEF FileRInv, StartsBehind
<1>2. (~finalized => NoBalances)'
  BY DEF FileRInv, NoBalances, LinesIn
<1>3. (~finalized => AddedIffStarted)'
  BY DEF FileRInv, AddedIffStarted, AddedIn, LinesIn
<1>4. (~finalized => StartedAtNextMigrate)'
  BY DEF FileRInv, StartedAtNextMigrate, NextMigrateIs, AddedIn, LinesIn
<1>5. (finalized => RewardsFromLastMigration)'
  <2>1. RewardsFromLastMigration = RewardsIn(file, epoch, finalized)
    BY DEF RewardsFromLastMigration, RewardsIn, LinesOf, IsLine, MigrateEpochAfter,
           MigrateAfterIn, LinesIn, AddedIn
  <2>2. RewardsFromLastMigration' = RewardsIn(file', epoch', finalized')
    BY DEF RewardsFromLastMigration, RewardsIn, LinesOf, IsLine, MigrateEpochAfter,
           MigrateAfterIn, LinesIn, AddedIn
  <2>3. RewardsIn(file', epoch', finalized') = RewardsIn(file, epoch, finalized)
    BY Zenon
  <2>4. finalized => RewardsFromLastMigration
    BY DEF FileRInv
  <2>5. QED
    BY <2>1, <2>2, <2>3, <2>4, Zenon
<1>6. QED
  BY <1>1, <1>2, <1>3, <1>4, <1>5 DEF FileRInv

LEMMA RInvSplit == RInv <=> TInv /\ PendingMigrations /\ FileRInv
BY DEF RInv, FileRInv

LEMMA JoinedRInv ==
    ASSUME RInv, ValidatorJoined
    PROVE  RInv'
<1>1. TInv'
  BY JoinedTInv DEF RInv
<1>2. PendingMigrations'
  BY DEF RInv, ValidatorJoined, PendingMigrations
<1>3. FileRInv'
  BY RInvSplit, FileFrame, SMTT(20) DEF ValidatorJoined
<1>4. QED
  BY <1>1, <1>2, <1>3, Zenon DEF RInv, FileRInv

LEMMA DepositRInv ==
    ASSUME RInv, Deposit
    PROVE  RInv'
<1>1. TInv'
  BY DepositTInv DEF RInv
<1>2. PendingMigrations'
  BY DEF RInv, Deposit, PendingMigrations
<1>3. FileRInv'
  BY RInvSplit, FileFrame DEF Deposit
<1>4. QED
  BY <1>1, <1>2, <1>3, Zenon DEF RInv, FileRInv

(* ValidatorSet records a migration of its own epoch over an ordering of   *)
(* a set, which names each validator once.                                 *)
LEMMA SetRInv ==
    ASSUME RInv, ValidatorSet
    PROVE  RInv'
<1>1. TInv'
  BY SetTInv DEF RInv
<1>2. PICK e \in epoch..(epoch + SetHorizon), S \in SUBSET Validators :
        \E addrs \in SetToSeqs(S) :
          /\ e \in Epochs
          /\ migrations[e] = Nil
          /\ validatorCmdMap' = [validatorCmdMap EXCEPT ![e] = addrs]
          /\ migrations' = [migrations EXCEPT ![e] = [epoch |-> e, addresses |-> addrs]]
  BY Zenon DEF ValidatorSet
<1>8. PICK addrs \in SetToSeqs(S) :
          /\ e \in Epochs
          /\ migrations[e] = Nil
          /\ validatorCmdMap' = [validatorCmdMap EXCEPT ![e] = addrs]
          /\ migrations' = [migrations EXCEPT ![e] = [epoch |-> e, addresses |-> addrs]]
  BY <1>2, Zenon
<1>3. IsInjective(addrs)
  BY <1>8, Zenon DEF SetToSeqs, IsInjective
<1>4. e \in EpochKeys /\ migrations \in [EpochKeys -> {Nil} \cup MigrateArg]
      /\ validatorCmdMap \in [EpochKeys -> {Nil} \cup Seq(Validators)]
  BY <1>8 DEF Epochs, EpochKeys, RInv, TInv, TypeOK
<1>5. PendingMigrations'
  <2>1. ASSUME NEW k \in EpochKeys, migrations'[k] # Nil
        PROVE  migrations'[k].epoch = k /\ IsInjective(validatorCmdMap'[k])
    <3>1. CASE k = e
      BY <1>8, <1>3, <1>4, <3>1
    <3>2. CASE k # e
      BY <1>8, <1>4, <2>1, <3>2 DEF RInv, PendingMigrations
    <3>3. QED
      BY <3>1, <3>2
  <2>2. QED
    BY <2>1 DEF PendingMigrations
<1>6. FileRInv'
  BY RInvSplit, FileFrame DEF ValidatorSet
<1>7. QED
  BY <1>1, <1>5, <1>6, Zenon DEF RInv, FileRInv

(* NextEpoch keeps every start behind the next epoch and drops the         *)
(* migration it wrote.                                                     *)
LEMMA SnapshotRInv ==
    ASSUME RInv, Snapshot
    PROVE  RInv'
<1>1. TInv'
  BY SnapshotTInv DEF RInv
<1>2. /\ epoch \in EpochKeys /\ TypeOK
      /\ migrations \in [EpochKeys -> {Nil} \cup MigrateArg]
  BY DEF Snapshot, Epochs, EpochKeys, RInv, TInv, TypeOK
<1>3. PendingMigrations'
  BY <1>2 DEF Snapshot, RInv, PendingMigrations
<1>4. StartsBehind'
  <2>1. finalValidators \in [Validators -> {Nil} \cup Epochs]
    BY <1>2 DEF TypeOK
  <2>2. QED
    BY <2>1 DEF Snapshot, Started, RInv, StartsBehind, Epochs
<1>5. ~finalized'
  BY DEF Snapshot
<1>6. QED
  BY <1>1, <1>3, <1>4, <1>5, SnapshotStarts, SMTT(20) DEF RInv

(* An ordering of a set of validators names each of them.                  *)
LEMMA OrderOnto ==
    ASSUME NEW S \in SUBSET Validators, NEW order \in SetToSeqs(S), NEW x \in S
    PROVE  \E i \in 1..Len(order) : order[i] = x
<1>. DEFINE D == 1..Cardinality(S)
<1>1. IsFiniteSet(S) /\ Cardinality(S) \in Nat
  BY ValidatorsAssumption, FS_Subset, FS_CardinalityType
<1>2. order \in Injection(D, S)
  BY Zenon DEF SetToSeqs, Injection, IsInjective
<1>3. IsFiniteSet(D) /\ Cardinality(D) = Cardinality(S)
  BY <1>1, FS_Interval
<1>4. order \in Surjection(D, S)
  BY <1>1, <1>2, <1>3, FS_Injection, SMTT(20)
<1>5. DOMAIN order = D /\ DOMAIN order = 1..Len(order)
  BY <1>2, OrderType DEF Injection
<1>6. PICK d \in D : order[d] = x
  BY <1>4, Zenon DEF Surjection
<1>7. d \in 1..Len(order)
  BY <1>5, Zenon
<1>8. QED
  BY <1>6, <1>7, Zenon

(* The lines Finalize writes: the AddValidatorImmediate and Migrate lines  *)
(* stay those of NextEpoch, and the SetBalancesFor lines are the block of  *)
(* BalanceLines right after them.                                          *)
LEMMA FinalizeFile ==
    ASSUME TInv, NoBalances,
           NEW order \in SetToSeqs({v \in Validators : finalValidators[v] # Nil}),
           NEW F2, F2 = file \o BalanceLines(order) \o SnapshotLines
                             \o <<Line("SetEpoch", [number |-> epoch])>>
    PROVE  /\ \A v, ep : NextMigrateIs(file, v, ep) => NextMigrateIs(F2, v, ep)
           /\ \A v : AddedIn(F2, v) = AddedIn(file, v)
           /\ LinesIn(F2, "SetBalancesFor") = {Len(file) + i : i \in 1..Len(order)}
           /\ \A i \in 1..Len(order) : F2[Len(file) + i] = BalanceLines(order)[i]
<1>. DEFINE B == BalanceLines(order)
            S == SnapshotLines
            E == <<Line("SetEpoch", [number |-> epoch])>>
            FB == file \o B
            FBS == FB \o S
<1>1. /\ file \in Seq(CommandLines) /\ B \in Seq(CommandLines)
      /\ S \in Seq(CommandLines) /\ E \in Seq(CommandLines)
  <2>1. file \in Seq(CommandLines)
    BY DEF TInv, TypeOK
  <2>2. B \in Seq(CommandLines)
    BY BalanceLinesType, Zenon
  <2>3. S \in Seq(CommandLines) /\ E \in Seq(CommandLines)
    BY SnapshotLinesType, Zenon
  <2>4. QED
    BY <2>1, <2>2, <2>3
<1>2. FB \in Seq(CommandLines) /\ FBS \in Seq(CommandLines)
  BY <1>1, ConcatProperties
<1>11. F2 = FBS \o E
  OBVIOUS
<1>3. NoLines(B, "AddValidatorImmediate") /\ NoLines(B, "Migrate")
  <2>1. "AddValidatorImmediate" \in Kinds \ {"SetBalancesFor"}
        /\ "Migrate" \in Kinds \ {"SetBalancesFor"}
    BY DEF Kinds
  <2>2. QED
    BY <2>1, BalanceBlock, Zenon
<1>4. LinesIn(B, "SetBalancesFor") = 1..Len(order) /\ Len(B) = Len(order)
  BY BalanceBlock, Zenon
<1>5. /\ NoLines(S, "AddValidatorImmediate") /\ NoLines(S, "Migrate")
      /\ NoLines(S, "SetBalancesFor")
  BY TailBlock, Zenon
<1>6. /\ NoLines(E, "AddValidatorImmediate") /\ NoLines(E, "Migrate")
      /\ NoLines(E, "SetBalancesFor")
  BY TailBlock, Zenon
<1>7. ASSUME NEW v, NEW ep
      PROVE  /\ NextMigrateIs(file, v, ep) => NextMigrateIs(F2, v, ep)
             /\ AddedIn(F2, v) = AddedIn(file, v)
  <2>1. /\ NextMigrateIs(file, v, ep) => NextMigrateIs(FB, v, ep)
        /\ AddedIn(FB, v) = AddedIn(file, v)
    BY <1>1, <1>3, AppendOthers, Zenon
  <2>2. /\ NextMigrateIs(FB, v, ep) => NextMigrateIs(FBS, v, ep)
        /\ AddedIn(FBS, v) = AddedIn(FB, v)
    BY <1>1, <1>2, <1>5, AppendOthers, ZenonT(60)
  <2>3. /\ NextMigrateIs(FBS, v, ep) => NextMigrateIs(FBS \o E, v, ep)
        /\ AddedIn(FBS \o E, v) = AddedIn(FBS, v)
    BY <1>1, <1>2, <1>6, AppendOthers, ZenonT(60)
  <2>4. QED
    BY <1>11, <2>1, <2>2, <2>3
<1>8. LinesIn(F2, "SetBalancesFor") = {Len(file) + i : i \in 1..Len(order)}
  <2>1. NoLines(file, "SetBalancesFor")
    BY DEF NoBalances
  <2>2. LinesIn(FB, "SetBalancesFor")
          = LinesIn(file, "SetBalancesFor")
            \cup {Len(file) + i : i \in LinesIn(B, "SetBalancesFor")}
    BY <1>1, LinesInConcat, ZenonT(60)
  <2>3. LinesIn(FB, "SetBalancesFor") = {Len(file) + i : i \in 1..Len(order)}
    <3>1. LinesIn(file, "SetBalancesFor") = {}
      BY <2>1 DEF NoLines
    <3>2. QED
      BY <1>4, <2>2, <3>1, Zenon
  <2>4. LinesIn(FBS, "SetBalancesFor") = LinesIn(FB, "SetBalancesFor")
    BY <1>1, <1>2, <1>5, LinesInConcatNone, ZenonT(60)
  <2>5. LinesIn(FBS \o E, "SetBalancesFor") = LinesIn(FBS, "SetBalancesFor")
    BY <1>1, <1>2, <1>6, LinesInConcatNone, ZenonT(60)
  <2>6. QED
    BY <1>11, <2>3, <2>4, <2>5, SMTT(20)
<1>9. ASSUME NEW i \in 1..Len(order) PROVE F2[Len(file) + i] = B[i]
  <2>1. Len(file) \in Nat /\ Len(B) \in Nat /\ Len(S) \in Nat
    BY <1>1, LenProperties
  <2>2. i \in 1..Len(B)
    BY <1>4
  <2>3. FB[Len(file) + i] = B[i]
    BY <1>1, <2>2, ConcatRight, Zenon
  <2>4. Len(FB) = Len(file) + Len(B) /\ Len(FBS) = Len(FB) + Len(S)
    BY <1>1, <1>2, ConcatProperties, Zenon
  <2>5. Len(file) + i \in 1..Len(FB) /\ Len(file) + i \in 1..Len(FBS)
    BY <2>1, <2>2, <2>4
  <2>6. FBS[Len(file) + i] = FB[Len(file) + i]
    BY <1>1, <1>2, <2>5, ConcatLeft, Zenon
  <2>7. (FBS \o E)[Len(file) + i] = FBS[Len(file) + i]
    BY <1>1, <1>2, <2>5, ConcatLeft, ZenonT(30)
  <2>8. QED
    BY <1>11, <2>3, <2>6, <2>7, Zenon
<1>10. QED
  BY <1>7, <1>8, <1>9, Zenon

(* Finalize pays each started validator once, for the epochs since the    *)
(* Migrate line after its last AddValidatorImmediate line, and no other.  *)
LEMMA FinalizeRewards ==
    ASSUME RInv, Finalize
    PROVE  RewardsFromLastMigration'
<1>. DEFINE started == {v \in Validators : finalValidators[v] # Nil}
<1>1. PICK order \in SetToSeqs(started) :
        file' = file \o BalanceLines(order) \o SnapshotLines
                     \o <<Line("SetEpoch", [number |-> epoch])>>
  BY Zenon DEF Finalize
<1>2. /\ TInv /\ ~finalized /\ NoBalances /\ AddedIffStarted
      /\ StartedAtNextMigrate /\ StartsBehind
  BY DEF Finalize, RInv
<1>3. /\ \A v, ep : NextMigrateIs(file, v, ep) => NextMigrateIs(file', v, ep)
      /\ \A v : AddedIn(file', v) = AddedIn(file, v)
      /\ LinesIn(file', "SetBalancesFor") = {Len(file) + i : i \in 1..Len(order)}
      /\ \A i \in 1..Len(order) : file'[Len(file) + i] = BalanceLines(order)[i]
  BY <1>1, <1>2, FinalizeFile, ZenonT(60)
<1>4. /\ order \in Seq(Validators) /\ \A i \in 1..Len(order) : order[i] \in started
      /\ \A i, j \in 1..Len(order) : order[i] = order[j] => i = j
  <2>1. order \in Seq(Validators) /\ \A i \in 1..Len(order) : order[i] \in started
    BY OrderType
  <2>2. /\ order \in [1..Cardinality(started) -> started]
        /\ \A i, j \in 1..Cardinality(started) : i # j => order[i] # order[j]
    BY Zenon DEF SetToSeqs
  <2>3. 1..Len(order) = 1..Cardinality(started)
    <3>1. DOMAIN order = 1..Len(order)
      BY <2>1, LenProperties, ZenonT(30)
    <3>2. QED
      BY <2>2, <3>1, Zenon
  <2>4. QED
    BY <2>1, <2>2, <2>3, Zenon
<1>5. /\ \A i \in 1..Len(order) :
           file'[Len(file) + i]["SetBalancesFor"]
             = [who |-> order[i],
                epochs |-> (epoch - finalValidators[order[i]]) % Word]
      /\ Len(file) \in Nat
  BY <1>2, <1>3, BalanceBlock, LenProperties, SMTT(20) DEF TInv, TypeOK
<1>6. finalValidators' = finalValidators /\ epoch' = epoch /\ finalized'
  BY DEF Finalize
<1>7. RewardsFromLastMigration' = RewardsIn(file', epoch', finalized')
  BY DEF RewardsFromLastMigration, RewardsIn, LinesOf, IsLine, MigrateEpochAfter,
         MigrateAfterIn, LinesIn, AddedIn
<1>8. SUFFICES ASSUME NEW v \in Validators
               PROVE  LET added == AddedIn(file', v)
                          paid == {i \in LinesIn(file', "SetBalancesFor") :
                                     file'[i]["SetBalancesFor"].who = v}
                      IN  /\ added = {} => paid = {}
                          /\ added # {} =>
                               \E b \in paid :
                                  /\ paid = {b}
                                  /\ file'[b]["SetBalancesFor"].epochs
                                       = epoch' - MigrateAfterIn(file', Max(added))
  BY <1>7, Zenon DEF RewardsIn
<1>. DEFINE added == AddedIn(file', v)
            paid == {i \in LinesIn(file', "SetBalancesFor") :
                       file'[i]["SetBalancesFor"].who = v}
            mine == {j \in 1..Len(order) : order[j] = v}
<1>9. paid = {Len(file) + i : i \in mine}
  <2>1. ASSUME NEW x \in paid PROVE x \in {Len(file) + i : i \in mine}
    <3>1. x \in LinesIn(file', "SetBalancesFor") /\ file'[x]["SetBalancesFor"].who = v
      OBVIOUS
    <3>2. PICK i \in 1..Len(order) : x = Len(file) + i
      BY <1>3, <3>1
    <3>3. file'[x]["SetBalancesFor"]
            = [who |-> order[i], epochs |-> (epoch - finalValidators[order[i]]) % Word]
      BY <1>5, <3>2, Zenon
    <3>4. order[i] = v
      BY <3>1, <3>3
    <3>5. QED
      BY <3>2, <3>4
  <2>2. ASSUME NEW i \in mine PROVE Len(file) + i \in paid
    <3>1. Len(file) + i \in LinesIn(file', "SetBalancesFor")
      BY <1>3
    <3>2. file'[Len(file) + i]["SetBalancesFor"]
            = [who |-> order[i], epochs |-> (epoch - finalValidators[order[i]]) % Word]
      BY <1>5, Zenon
    <3>3. order[i] = v
      OBVIOUS
    <3>4. file'[Len(file) + i]["SetBalancesFor"].who = v
      BY <3>2, <3>3
    <3>5. QED
      BY <3>1, <3>4
  <2>3. QED
    BY <2>1, <2>2, Zenon
<1>10. CASE finalValidators[v] = Nil
  <2>1. added = {}
    BY <1>2, <1>3, <1>10, SMTT(20) DEF AddedIffStarted
  <2>2. mine = {}
    BY <1>4, <1>10, SMTT(20)
  <2>3. QED
    BY <1>9, <2>1, <2>2, SMTT(20)
<1>11. CASE finalValidators[v] # Nil
  <2>1. NextMigrateIs(file', v, finalValidators[v]) /\ added # {}
    BY <1>2, <1>3, <1>11 DEF StartedAtNextMigrate, AddedIffStarted
  <2>2. PICK a \in added, m \in LinesIn(file', "Migrate") :
          /\ a < m
          /\ \A i \in added : i <= a
          /\ \A j \in LinesIn(file', "Migrate") : j > a => j >= m
          /\ file'[m]["Migrate"].epoch = finalValidators[v]
    BY <2>1, Zenon DEF NextMigrateIs
  <2>3. Max(added) = a
    <3>1. added \subseteq Int
      BY DEF AddedIn, LinesIn
    <3>2. QED
      BY <2>2, <3>1, MaxIs, Zenon
  <2>4. Min({j \in LinesIn(file', "Migrate") : j > a}) = m
    <3>1. LinesIn(file', "Migrate") \subseteq Int
      BY DEF LinesIn
    <3>2. a \in Int
      BY <3>1 DEF AddedIn, LinesIn
    <3>3. \A j \in {j \in LinesIn(file', "Migrate") : j > a} : m <= j
      BY <2>2, <3>1, <3>2, SMTT(20)
    <3>4. QED
      BY <2>2, <3>1, <3>3, MinIs, Zenon
  <2>5. MigrateAfterIn(file', Max(added)) = finalValidators[v]
    BY <2>2, <2>3, <2>4 DEF MigrateAfterIn
  <2>6. PICK i0 \in 1..Len(order) : order[i0] = v
    BY <1>11, OrderOnto
  <2>7. paid = {Len(file) + i0}
    <3>1. mine = {i0}
      BY <1>4, <2>6
    <3>2. QED
      BY <1>9, <3>1
  <2>8. finalValidators[v] \in Epochs /\ finalValidators[v] < epoch
        /\ epoch \in EpochKeys
    BY <1>2, <1>11 DEF TInv, TypeOK, StartsBehind
  <2>9. (epoch - finalValidators[v]) % Word = epoch - finalValidators[v]
    BY <2>8, WordAssumption, SMTT(20) DEF Epochs, EpochKeys
  <2>10. file'[Len(file) + i0]["SetBalancesFor"].epochs
           = epoch' - MigrateAfterIn(file', Max(added))
    <3>1. file'[Len(file) + i0]["SetBalancesFor"].epochs
            = (epoch - finalValidators[v]) % Word
      <4>1. file'[Len(file) + i0]["SetBalancesFor"]
              = [who |-> order[i0],
                 epochs |-> (epoch - finalValidators[order[i0]]) % Word]
        BY <1>5, Zenon
      <4>2. QED
        BY <2>6, <4>1
    <3>2. QED
      BY <1>6, <2>5, <2>9, <3>1
  <2>11. QED
    BY <2>1, <2>7, <2>10, SMTT(20)
<1>12. QED
  BY <1>10, <1>11

LEMMA FinalizeRInv ==
    ASSUME RInv, Finalize
    PROVE  RInv'
<1>1. TInv'
  BY FinalizeTInv DEF RInv
<1>2. PendingMigrations' /\ StartsBehind'
  BY DEF Finalize, RInv, PendingMigrations, StartsBehind
<1>3. finalized'
  BY DEF Finalize
<1>4. QED
  BY <1>1, <1>2, <1>3, FinalizeRewards, SMTT(20) DEF RInv

LEMMA InitRInv == PInit => RInv
<1> SUFFICES ASSUME PInit PROVE RInv
  OBVIOUS
<1>1. TInv
  BY InitTInv
<1>2. PendingMigrations /\ StartsBehind
  BY DEF PInit, PendingMigrations, StartsBehind
<1>3. NoBalances /\ AddedIffStarted /\ StartedAtNextMigrate
  BY DEF PInit, NoBalances, NoLines, AddedIffStarted, StartedAtNextMigrate, AddedIn, LinesIn
<1>4. QED
  BY <1>1, <1>2, <1>3 DEF PInit, RInv

LEMMA NextRInv == RInv /\ [PNext]_pvars => RInv'
<1> SUFFICES ASSUME RInv, [PNext]_pvars PROVE RInv'
  OBVIOUS
<1>1. CASE ValidatorJoined
  BY <1>1, JoinedRInv
<1>2. CASE ValidatorSet
  BY <1>2, SetRInv
<1>3. CASE Deposit
  BY <1>3, DepositRInv
<1>4. CASE Snapshot
  BY <1>4, SnapshotRInv
<1>5. CASE Finalize
  BY <1>5, FinalizeRInv
<1>6. CASE UNCHANGED pvars
  <2>1. TInv' /\ PendingMigrations'
    BY <1>6 DEF pvars, RInv, TInv, TypeOK, CmdMapPaired, PendingMigrations
  <2>2. FileRInv'
    BY <1>6, RInvSplit, FileFrame DEF pvars
  <2>3. QED
    BY <2>1, <2>2, Zenon DEF RInv, FileRInv
<1>7. QED
  BY <1>1, <1>2, <1>3, <1>4, <1>5, <1>6 DEF PNext

(* Finalize pays every validator that a migration added exactly once, for  *)
(* the epochs since the migration that last added it, and pays no other   *)
(* validator: RewardsFromLastMigration holds in every reachable state, for *)
(* every set of validators and every number of epochs and deposits.       *)
THEOREM RewardsHolds == PSpec => []RewardsFromLastMigration
<1>1. PInit => RInv
  BY InitRInv
<1>2. RInv /\ [PNext]_pvars => RInv'
  BY NextRInv
<1>3. RInv => RewardsFromLastMigration
  BY DEF RInv, RewardsFromLastMigration
<1>4. QED
  BY <1>1, <1>2, <1>3, PTL DEF PSpec

=============================================================================
