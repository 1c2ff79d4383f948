----------------------------- MODULE RequestBody -----------------------------
(***************************************************************************)
(* The handler, and the bodies that what it learns of a request comes from: *)
(* in Handler a body is what locateTopLevelModel makes of it, in JsonModel   *)
(* the tokens it is made of.                                                *)
(***************************************************************************)
EXTENDS Handler, JsonModel

CONSTANT Bodies \* what clients send, token by token

ASSUME BodiesAssumption == Bodies \subseteq Seq(Token)

\* What the scanner makes of the bodies it reads in another way than the grammar of JSON.
Misread == {Doc(b) : b \in {c \in Bodies : ~Agrees(c)}}

\* json_model.go finds the model of a body as the grammar of JSON describes it: a name
\* that is missed, found twice or found in a nested object would be answered, routed and
\* rewritten as another request.
LocateExact == \A r \in Request : req[r] = None \/ req[r].doc \notin Misread

=============================================================================
