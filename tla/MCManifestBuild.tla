-------------------------- MODULE MCManifestBuild ---------------------------
(***************************************************************************)
(* Small manifests for ManifestBuild: a build pipeline with two users, one *)
(* build pipeline above another, two pipelines that begin with the same    *)
(* stage, a diamond of inputs, and a pipeline without stages.              *)
(***************************************************************************)
EXTENDS ManifestBuild

Plain(w, ds) == [what |-> w, dev |-> None, deps |-> ds, checkpoint |-> FALSE]
Saved(w, ds) == [what |-> w, dev |-> None, deps |-> ds, checkpoint |-> TRUE]
OnDevice(w, d) == [what |-> w, dev |-> d, deps |-> {}, checkpoint |-> TRUE]
Pipe(b, st) == [build |-> b, stages |-> st]

Image ==
    <<Pipe(0, <<Saved("build", {})>>),
      Pipe(1, <<Saved("rpm", {}), Plain("users", {})>>),
      Pipe(1, <<Plain("qemu", {2})>>)>>

Nested ==
    <<Pipe(0, <<Plain("bootstrap", {})>>),
      Pipe(1, <<Saved("build", {})>>),
      Pipe(2, <<Plain("rpm", {1}), Saved("users", {})>>)>>

Prefix ==
    <<Pipe(0, <<Saved("rpm", {}), Plain("a", {})>>),
      Pipe(0, <<Plain("rpm", {}), Plain("b", {})>>),
      Pipe(2, <<Plain("tar", {1, 2})>>)>>

Diamond ==
    <<Pipe(0, <<Plain("build", {})>>),
      Pipe(1, <<Plain("left", {1})>>),
      Pipe(0, <<Saved("right", {1}), Plain("more", {2})>>),
      Pipe(3, <<Plain("top", {2, 3})>>)>>

Hollow ==
    <<Pipe(0, <<>>),
      Pipe(1, <<Saved("rpm", {}), Plain("users", {})>>)>>

AllManifests == <<Image, Nested, Prefix, Diamond, Hollow>>
AllExports ==
    <<{<<3>>, <<2, 3>>, <<3, 1>>}, {<<3>>, <<1, 3>>}, {<<3>>, <<1, 3>>, <<2>>},
      {<<4>>, <<1, 4>>, <<2, 3>>}, {<<2>>}>>

\* The same stage with two different devices.
FirstDisk == <<Pipe(0, <<OnDevice("mkfs", "first")>>)>>
SecondDisk == <<Pipe(0, <<OnDevice("mkfs", "second")>>)>>
DiskManifests == <<FirstDisk, SecondDisk>>
DiskExports == <<{<<1>>}, {<<1>>}>>
=============================================================================
