---------------------------- MODULE MCWsServers ----------------------------
(* The two example servers, of which one runs, with values for constants.  *)
EXTENDS WsFeed, WsCalculator

VARIABLE program

ServerVars == <<program, vars, calcVars>>

MCTexts == {<<"r">>, <<"nl", "nl">>, <<"r", "nl", "r", "nl">>,
            <<"g", "nl", "r", "nl">>, <<"j", "nl", "r">>}

ServerInit ==
  /\ Init /\ CalcInit /\ program \in {"feed", "calculator"}
  /\ program = "calculator" => \A s \in Symbols : infos[s].current = Min(Vals)

ServerNext ==
  \/ program = "feed" /\ Next /\ UNCHANGED <<program, calcVars>>
  \/ program = "calculator" /\ CalcNext /\ UNCHANGED <<program, vars>>

(* In a program that does not run, no step of Fairness is ever enabled. *)
ServerSpec ==
  ServerInit /\ [][ServerNext]_ServerVars /\ Fairness /\ CalcFairness

-----------------------------------------------------------------------------
ServerTypeOK == TypeOK /\ CalcTypeOK

(* Peers get what they should: those of the feed the current value of      *)
(* every stock, those of the calculator one reply to each line.            *)
OutputInSync == InSync /\ EachLineOnce

(* The acceptor serves or resets who waits, the feed forgets who is gone,  *)
(* and the calculator answers every line.                                  *)
ServersSettle == Settles /\ LinesAnswered
=============================================================================
