------------------------------ MODULE SmallPrograms ------------------------------
(***************************************************************************)
(* The programs that are one page each: the raw sockets, the echo pairs,   *)
(* and the checksum.  A behaviour runs one of them, `program', while the   *)
(* others are off.                                                         *)
(***************************************************************************)
EXTENDS Checksum, Cube, Sequences

CONSTANTS Client, Nobody, Mortal, RawNumber, MaxRounds, MaxTraffic, MaxInterrupts

ASSUME SmallAssumption ==
  Nobody \notin Client /\ Mortal \subseteq Client /\ RawNumber \subseteq Int

VARIABLES
  program,
  server, flag_while, buffer, inbox,
  client, message, answer, serv, queue, rounds, traffic, interrupts, foreign,
  bound, srv, peer, mail, sent, path, cli, linked, got, heard, spoiled

Raw == INSTANCE RawExchange WITH Number <- RawNumber

Echo == INSTANCE EchoPair

rawVars == <<server, flag_while, buffer, inbox, client, message, answer, serv, queue,
             rounds, traffic, interrupts, foreign>>
echoVars == <<bound, srv, peer, mail, sent, path, cli, linked, got, heard, spoiled>>
allVars == <<program, rawVars, echoVars, vars>>

SmallInit == \/ Raw!Init /\ Echo!Off /\ Off
             \/ Raw!Off /\ Echo!Init /\ Off
             \/ program = "my_checksum" /\ Raw!Off /\ Echo!Off /\ Init

SmallNext == \/ Raw!Next /\ UNCHANGED <<echoVars, vars>>
             \/ Echo!Next /\ UNCHANGED <<rawVars, vars>>
             \/ Next /\ UNCHANGED <<program, rawVars, echoVars>>

SmallSpec == SmallInit /\ [][SmallNext]_allVars /\ Raw!Fairness /\ Echo!Fairness

-----------------------------------------------------------------------------
\* See RawExchange: nothing a raw socket reads is taken for the answer but
\* what is for port 7564, and the first client is sent nothing else there.
RawOwnAnswer == Raw!OwnAnswer

\* See RawExchange: the answer comes as long as the server runs and nobody
\* else sends to that port.
RawAnswerComes == Raw!AnswerComes

\* See EchoPair: who hears what, and that nothing is written before a buffer.
EchoHeardInOrder == Echo!HeardInOrder

\* See EchoPair: a conversation ends on both sides.
EchoPairEnds == Echo!PairEnds
=============================================================================
