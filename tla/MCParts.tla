------------------------------- MODULE MCParts -------------------------------
(***************************************************************************)
(* The instance of Parts for TLC, together with the parts of MCFormats:    *)
(* the values of the constants that a configuration cannot write down, and *)
(* the union of both.                                                      *)
(***************************************************************************)
EXTENDS Parts, MCFormats

\* A message of each format; frames of others with the same identifier in both
\* formats, with one in no entry, and an error frame.
OneOfEach == <<[id |-> 1, extended |-> FALSE], [id |-> 2, extended |-> TRUE]>>
Other(error, id, extended) == [error |-> error, id |-> id, extended |-> extended]
Foreign == {Other(FALSE, 1, FALSE), Other(FALSE, 1, TRUE), Other(FALSE, 5, TRUE),
            Other(TRUE, 0, FALSE)}

\* Two runtimes on one host and one on another.
TwoHosts == <<"one", "one", "other">>

\* Requests of others: none to answer, none at all, and for another service.
Stranger(service, type) ==
    [service |-> service, method |-> "GetRpm", version |-> 1, type |-> type, from |-> "other"]
ThreeStrangers == {Stranger("Vehicle", "RequestNoReturn"), Stranger("Vehicle", "Notification"),
                   Stranger("Other", "Request")}

\* Nobody touches what belongs to the other parts.
MCInit == PartsInit \/ (Init /\ DataInit)
MCNext == UNCHANGED part /\ (PartsNext \/ (UNCHANGED vars /\ DataNext))
MCSpec == MCInit /\ [][MCNext]_partsVars
=============================================================================
