-------------------------- MODULE ArtifactPublishing ---------------------------
(***************************************************************************)
(* The publication of results to the shelf of chat-backend (packages/ts-   *)
(* host/src/artifacts/publish-artifact.ts).  A turn may repeat a call      *)
(* whose answer was lost, or make it twice; a request whose caller has     *)
(* given up may still arrive later.                                        *)
(*                                                                         *)
(* External: chat-backend, which keeps one artifact per key and refuses    *)
(* another content under it, perhaps also the same files in another order. *)
(***************************************************************************)
EXTENDS Naturals, Sequences, FiniteSets, SequencesExt

CONSTANTS
  PublishCalls,
  PublishTurns,
  Results,     \* what is published: a text and the files in their order
  OwnKeys      \* the keys that an agent may choose itself

VARIABLES
  publish,     (* publish[c]: a call, its request and how it ended             *)
  travelling,  (* the requests on their way to the service                     *)
  onShelf      (* the service: the artifacts, in the order of their creation   *)

publishingVars == <<publish, travelling, onShelf>>

NoTurn == "no turn"
NoCall == [pc |-> "new", turn |-> NoTurn, result |-> <<>>, key |-> <<>>, artifact |-> 0, code |-> "none"]

Init == publish = [c \in PublishCalls |-> NoCall] /\ travelling = {} /\ onShelf = <<>>

--------------------------------------------------------------------------------
(* The hashes of the files are sorted; a hash stands for its bytes.        *)
Bytes(result) == <<result.text, [f \in ToSet(result.files) |-> Cardinality({i \in DOMAIN result.files : result.files[i] = f})]>>

(* Mutant: the call is part of the key.                                    *)
PerCallKey(c, turn, result) == <<"auto", c, turn, Bytes(result)>>

DefaultIdempotencyKey(c, turn, result) == <<"auto", turn, Bytes(result)>>

(* publishArtifact up to the request.  Without a turn or its token there is *)
(* nobody to publish for.                                                  *)
Publish(c) ==
  /\ publish[c].pc = "new"
  /\ \/ publish' = [publish EXCEPT ![c].pc = "failed", ![c].code = "no_scope"] /\ UNCHANGED travelling
     \/ \E turn \in PublishTurns, result \in Results :
          \E key \in {DefaultIdempotencyKey(c, turn, result)} \cup OwnKeys :
            LET call == [publish[c] EXCEPT !.pc = "sent", !.turn = turn, !.result = result, !.key = key] IN
            /\ publish' = [publish EXCEPT ![c] = call]
            /\ travelling' = travelling \cup {[by |-> c, turn |-> turn, result |-> result, key |-> key]}
  /\ UNCHANGED onShelf

(* send: the connection breaks or the time is up, also after the service has *)
(* taken the request.                                                      *)
NetworkError(c) ==
  /\ publish[c].pc = "sent" /\ publish' = [publish EXCEPT ![c].pc = "failed", ![c].code = "network_error"]
  /\ UNCHANGED <<travelling, onShelf>>

Answers(c, code, artifact) ==
  publish' = IF publish[c].pc # "sent" THEN publish
             ELSE [publish EXCEPT ![c].pc = IF artifact = 0 THEN "failed" ELSE "done", ![c].code = code, ![c].artifact = artifact]

Under(key) == {i \in DOMAIN onShelf : onShelf[i].key = key}

(* External: a request arrives.  The statuses of an answer become the codes *)
(* of the errors (artifactErrorCode), 201 and 200 the artifact; an answer  *)
(* without an artifact is an error though the artifact exists.             *)
Arrives(m) ==
  /\ m \in travelling /\ travelling' = travelling \ {m}
  /\ \/ \E code \in {"invalid_input", "upstream_error"} : Answers(m.by, code, 0) /\ UNCHANGED onShelf
     \/ /\ Under(m.key) = {}
        /\ onShelf' = Append(onShelf, [key |-> m.key, turn |-> m.turn, result |-> m.result])
        /\ Answers(m.by, "created", Len(onShelf')) \/ Answers(m.by, "upstream_error", 0)
     \/ \E i \in Under(m.key) :
          /\ \/ Bytes(onShelf[i].result) = Bytes(m.result) /\ Answers(m.by, "repeated", i)
             \/ onShelf[i].result # m.result /\ Answers(m.by, "conflict", 0)
          /\ UNCHANGED onShelf

Next == (\E c \in PublishCalls : Publish(c) \/ NetworkError(c)) \/ \E m \in travelling : Arrives(m)

--------------------------------------------------------------------------------
(* However often a turn publishes a result, and whatever answers are lost or *)
(* come late, without a key of its own the shelf holds it once; every answer *)
(* names an artifact with the published bytes, one answer at most says that *)
(* it was created, and calls conflict only over a key that was chosen, or  *)
(* over the order of the files.                                            *)
OneArtifactEach ==
  /\ \A i, k \in DOMAIN onShelf :
       i # k => \/ {onShelf[i].key, onShelf[k].key} \cap OwnKeys # {}
                \/ onShelf[i].turn # onShelf[k].turn \/ Bytes(onShelf[i].result) # Bytes(onShelf[k].result)
  /\ \A c \in PublishCalls :
       /\ publish[c].pc = "done" => Bytes(onShelf[publish[c].artifact].result) = Bytes(publish[c].result)
       /\ publish[c].code = "conflict" =>
            publish[c].key \in OwnKeys \/ \E i \in Under(publish[c].key) : onShelf[i].result.files # publish[c].result.files
       /\ \A d \in PublishCalls \ {c} :
            publish[c].code = "created" /\ publish[d].code = "created" => publish[c].artifact # publish[d].artifact
================================================================================
