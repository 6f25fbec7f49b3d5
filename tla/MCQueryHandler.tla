--------------------------- MODULE MCQueryHandler ---------------------------
(* QueryHandler for TLC.  A name with a zone, a name of the blacklist and a  *)
(* prompt, which has no zone.  Records of the zone may bear the first name,  *)
(* or, renamed, that of the prompt.                                          *)
EXTENDS QueryHandler, TLC

CONSTANTS www, version, prompt, example, bind

Domains == (www :> example @@ version :> bind @@ prompt :> NoZone)

Filed == {<<example, www>>, <<example, prompt>>}

\* Texts, for strings of at most three bytes: none, one that fits, a valid one whose first cut
\* would be inside a character and whose second is not, and one that is not valid from its
\* second byte on.
Said == {<<>>, <<1, 1, 1>>, <<1, 3, 0, 0, 2, 0>>, <<1, 0, 2, 0, 1>>}
=============================================================================
