--------------------------- MODULE MCTemplateCache ---------------------------
(* Instances of TemplateCache for TLC. *)
EXTENDS TemplateCache, TLC

CONSTANTS reminder, promise, es_AR, es_MX, t1, t2, r1, w1, w2

\* One text is there, in es_AR.
One == (t1 :> <<reminder, es_AR>>) @@ (t2 :> None)

Named(slot, locale, text, variables) ==
    [slot |-> slot, locale |-> locale, text |-> text, vars |-> variables]

\* A new text, another locale, another code with other variables.
SomePatches == {Named(None, None, TRUE, FALSE), Named(None, es_MX, FALSE, FALSE),
                Named(promise, None, FALSE, TRUE)}
SomePosts == {<<reminder, es_MX>>, <<promise, es_AR>>}
=============================================================================
