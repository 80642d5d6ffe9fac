---------------------------- MODULE MCLocalStore ----------------------------
(* A small workspace: two sessions whose ids share a plain form, two slugs *)
(* that differ by case, one category, and an old store of each kind.       *)
EXTENDS LocalStore, TLC

Body(t, links, shape, portable) ==
  [text |-> t, updated |-> 0, links |-> links, bare |-> {}, portable |-> portable,
   question |-> TRUE, shape |-> shape]
MCFold == ("deploy" :> "deploy" @@ "Deploy" :> "deploy" @@ "other" :> "other")
MCPlain == <<1, 1>>
Plainly(t) == Body(t, {}, "well formed", TRUE)
MCBodies == {Plainly("t2")}
Ops == <<Category("ops")>>
Write(store, under, name, kind, body) ==
  [store |-> store, under |-> under, name |-> name, kind |-> kind, body |-> body]
MCWrites ==
  {Write("understandings", Ops, "deploy", "unit", Body("t1", {"other"}, "well formed", TRUE)),
   Write("understandings", Ops, "Deploy", "unit", Body("t1", {"other"}, "flow list", TRUE)),
   Write("understandings", << >>, "other", "unit", Plainly("t1")),
   Write("understandings", Ops, "other", "note", Plainly("t1")),
   Write("memories", Ops, "deploy", "unit", Plainly("t1"))}
Legacy == LegacyName(1, 1)
Old(store, dirs, name) == [store |-> store, dirs |-> dirs, name |-> name, kind |-> "unit"]
MCOldStores ==
  {(Old("understandings", <<Legacy>>, "other") :> Body("t1", {"deploy"}, "well formed", FALSE)),
   (Old("understandings", <<Unfiled>>, "other") :> Body("t1", {"deploy"}, "no frontmatter", TRUE)
      @@ Old("memories", << >>, "deploy") :> Body("t1", {}, "bad field", TRUE))}
=============================================================================
