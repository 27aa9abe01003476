------------------------------- MODULE MCIdMaps -------------------------------
(* Two programs that permute records, one at a time: chains of remapping jobs, *)
(* or the server's load of the code rows under every one-to-one map of five    *)
(* rows, some with an id outside the table.                                    *)
EXTENDS MCPageRemap, PqCodes

VARIABLE program

MCMaps == {f \in [0 .. Rows - 1 -> 0 .. Rows] : IsInjective(f)}

IdMapsInit ==
  /\ Init /\ CodesInit
  /\ \/ program = "remap" /\ new_to_old = [k \in RowIds |-> k]
     \/ program = "server" /\ src = CHOOSE s \in Sources : TRUE

IdMapsNext ==
  /\ \/ program = "remap" /\ Next /\ UNCHANGED codesVars
     \/ program = "server" /\ CodesNext /\ UNCHANGED vars
  /\ UNCHANGED program

IdMapsSpec == IdMapsInit /\ [][IdMapsNext]_<<vars, codesVars, program>>
===============================================================================
