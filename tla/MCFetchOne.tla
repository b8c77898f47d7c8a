----------------------------- MODULE MCFetchOne -----------------------------
(***************************************************************************)
(* Two calls, alone or in a batch, over a few urls: a page, one an adapter *)
(* claims that reads pages, one that two probing adapters claim and that   *)
(* is a document, and one that cannot be normalised.                       *)
(***************************************************************************)
EXTENDS FetchOne, TLC

ShapeOf(valid, document, claims) ==
  [valid |-> valid, document |-> document, claims |-> claims]
MCShape == ("page" :> ShapeOf(TRUE, FALSE, {}))
        @@ ("listing" :> ShapeOf(TRUE, FALSE, {"table"}))
        @@ ("product" :> ShapeOf(TRUE, TRUE, {"shopify", "gitlab"}))
        @@ ("bad" :> ShapeOf(FALSE, FALSE, {}))

Wants(url, cached, refresh, raw) ==
  [url |-> url, cached |-> cached, refresh |-> refresh, raw |-> raw]
Plain(url) == Wants(url, TRUE, FALSE, FALSE)
Mix(one, other, together) ==
  [asks |-> ("one" :> one) @@ ("other" :> other), batch |-> together]
Fresh == Wants("page", TRUE, TRUE, FALSE)
Raw == Wants("page", TRUE, FALSE, TRUE)
MCMixes == {Mix(Plain("page"), Fresh, {}), Mix(Plain("page"), Raw, {"other"}),
            Mix(Plain("product"), Plain("listing"), {}),
            Mix(Plain("listing"), Plain("page"), {"one", "other"}),
            Mix(Plain("bad"), Plain("page"), {"one", "other"})}
=============================================================================
