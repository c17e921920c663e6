---------------------------- MODULE MCServerParts ----------------------------
(***************************************************************************)
(* Parts of the servers that share no state, checked side by side: a       *)
(* behaviour belongs to one of them, chosen at the start, and the others   *)
(* stay as they were.                                                      *)
(***************************************************************************)
EXTENDS LoginServer, SocketFifo, DbMap, MapFifo, TableSave,
        Boards, Ers, TLC

VARIABLE part

serverPartsVars ==
  <<part, loginVars, fifoVars, dbVars, mapFifoVars, tableVars, boardVars,
    ersVars>>

ValueSymmetry == Permutations(Values)

\* One bucket that grows to a tree of three levels and one with a single key.
TwoBuckets == [k \in Keys |-> IF k < 6 THEN 0 ELSE 1]

\* One character's number is also a descriptor.
Numbers == [n \in Authors |-> IF n = "ann" THEN 1 ELSE 9]

ServerPartsInit ==
  /\ LoginInit /\ FifoInit /\ DbInit /\ MapFifoInit /\ TableInit /\ BoardInit
  /\ ErsInit
  /\ part \in {"login", "fifo", "db", "mapfifo", "table", "board", "ers"}
  /\ part # "fifo" => reader.max_rdata = rfifo_size
  /\ part # "table" => table = "Banks"

LoginStep ==
  /\ part = "login" /\ LoginNext
  /\ UNCHANGED <<part, fifoVars, dbVars, mapFifoVars, tableVars,
                 boardVars, ersVars>>
FifoStep ==
  /\ part = "fifo" /\ FifoNext
  /\ UNCHANGED <<part, loginVars, dbVars, mapFifoVars, tableVars,
                 boardVars, ersVars>>
DbStep ==
  /\ part = "db" /\ DbNext
  /\ UNCHANGED <<part, loginVars, fifoVars, mapFifoVars, tableVars,
                 boardVars, ersVars>>
MapFifoStep ==
  /\ part = "mapfifo" /\ MapFifoNext
  /\ UNCHANGED <<part, loginVars, fifoVars, dbVars, tableVars,
                 boardVars, ersVars>>
TableStep ==
  /\ part = "table" /\ TableNext
  /\ UNCHANGED <<part, loginVars, fifoVars, dbVars, mapFifoVars,
                 boardVars, ersVars>>
BoardStep ==
  /\ part = "board" /\ BoardNext
  /\ UNCHANGED <<part, loginVars, fifoVars, dbVars, mapFifoVars,
                 tableVars, ersVars>>
ErsStep ==
  /\ part = "ers" /\ ErsNext
  /\ UNCHANGED <<part, loginVars, fifoVars, dbVars, mapFifoVars, tableVars,
                 boardVars>>

ServerPartsNext ==
  \/ LoginStep \/ FifoStep \/ DbStep \/ MapFifoStep \/ TableStep \/ BoardStep
  \/ ErsStep

ServerPartsSpec == ServerPartsInit /\ [][ServerPartsNext]_serverPartsVars

\* The part that moves keeps to its types.
ServerPartsTypeOK ==
  CASE part = "login" -> LoginTypeOK
    [] part = "fifo" -> FifoTypeOK
    [] part = "db" -> DbTypeOK
    [] part = "mapfifo" -> MapFifoTypeOK
    [] part = "table" -> TableTypeOK
    [] part = "board" -> BoardTypeOK
    [] part = "ers" -> ErsTypeOK

\* Containers find what was put into them, in nodes that nobody else has.
StoresSound ==
  /\ part = "db" => ContainerSound
  /\ part = "ers" => EntriesSound
=============================================================================
