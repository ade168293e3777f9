------------------------------- MODULE Command -------------------------------
(***************************************************************************)
(* CommandObj (src/cmd/utils/command.go): the generic argument object of  *)
(* one line of the migration file.  It has six optional fields, one per   *)
(* command; a With setter clears all of them and sets one, the Has tests  *)
(* check one field for nil, and a line is the JSON text of the object.    *)
(* The argument objects are abstracted to records of what the properties  *)
(* tell apart.                                                             *)
(***************************************************************************)
EXTENDS Naturals

(* The six fields of CommandObj, named by their JSON keys' Go fields.      *)
Kinds ==
    {"SetBalancesFor", "AddValidatorImmediate", "DirectDeposit", "Migrate",
     "Snapshot", "SetEpoch"}

(* A nil pointer (a map lookup of a missing key gives one too): a value    *)
(* different from every argument object.                                   *)
CONSTANT Nil

(* &CommandObj{}: every field nil.                                         *)
EmptyCommand == [k \in Kinds |-> Nil]

(* WithSetBalancesFor .. WithSetEpoch: every field of c is set to nil,     *)
(* then field k is set to obj.                                             *)
With(c, k, obj) == [[f \in DOMAIN c |-> Nil] EXCEPT ![k] = obj]

(* HasSetBalancesFor .. HasSetEpoch.                                       *)
Has(c, k) == c[k] # Nil

(* Marshal: json.Marshal writes an object whose keys are the non-nil       *)
(* fields (every field is tagged omitempty).                               *)
Marshal(c) == [f \in {g \in DOMAIN c : c[g] # Nil} |-> c[f]]

(* Unmarshal into a fresh &CommandObj{}: a key of the line sets its field, *)
(* a field without a key stays nil.                                        *)
Unmarshal(line) ==
    [k \in Kinds |-> IF k \in DOMAIN line THEN line[k] ELSE Nil]

(* The switch of Migrator.Dispatch tests the fields in this order and      *)
(* panics ("no type for command") when none is set.                        *)
DispatchOrder ==
    <<"SetBalancesFor", "AddValidatorImmediate", "DirectDeposit", "Snapshot",
      "Migrate", "SetEpoch">>

Dispatchable(c) == \E i \in 1..6 : Has(c, DispatchOrder[i])

DispatchKind(c) ==
    DispatchOrder[CHOOSE i \in 1..6 :
                     /\ Has(c, DispatchOrder[i])
                     /\ \A j \in 1..(i - 1) : ~Has(c, DispatchOrder[j])]

(* A command line written by the Processor: cmd := &CommandObj{}, one      *)
(* With setter, then Marshal in Writer.WriteLine.                          *)
Line(k, obj) == Marshal(With(EmptyCommand, k, obj))

=============================================================================
