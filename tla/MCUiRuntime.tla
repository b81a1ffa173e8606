----------------------------- MODULE MCUiRuntime -----------------------------
(* A layer, a world, and a world without an entry surface.                 *)
EXTENDS UiRuntime

CONSTANTS root, box, field, l1, l2, w1, w2

Plain == (root :> <<>>)
MCInitial == {Plain, (root :> <<field>>) @@ (field :> <<>>)}

\* Well-formed and ill-formed batches: a field added and removed, named twice as
\* a child, left without a parent, an index past the end, a cycle off the root.
MCBatches ==
    { <<UpsertNode(field, <<>>), InsertChild(root, 0, field)>>,
      <<RemoveChild(root, field), RemoveNode(field)>>,
      <<InsertChild(root, 1, field)>>,
      <<MoveChild(root, field, 0)>>,
      <<MoveChild(root, field, 1)>>,
      <<UpsertNode(box, <<>>), InsertChild(root, 0, box)>>,
      <<UpsertNode(box, <<box>>)>>,
      <<InsertChild(box, 0, field)>>,
      <<RemoveNode(box)>> }
=============================================================================
