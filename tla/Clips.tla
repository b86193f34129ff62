-------------------------------- MODULE Clips --------------------------------
(***************************************************************************)
(* The animations of a glTF document as src/src/animation.rs bakes them    *)
(* for the Animation component of a scene, and as                          *)
(* src/src/animation_mecanim.rs packs them for the controller of an emote. *)
(* Both name what they move by a path of names, which must be those that   *)
(* src/src/gltf.rs gives the nodes by a rule of its own.  glb is a record, *)
(* with indices from 1 and 0 for what is absent or not in the document:    *)
(*   emote, v38   which of the two is built, v38 compatibility             *)
(*   nodes        <<[name, mesh, kids, collider]>>                         *)
(*   meshes       <<[name, prims]>>, a primitive is [sig, targets]: sig    *)
(*                stands for its accessors, those of targets included      *)
(*   scenes       <<roots>>                                                *)
(*   anims        <<[name, channels, samplers]>>, one at least; a channel  *)
(*                is [sampler, node, path], a sampler [interp, times,      *)
(*                values]                                                  *)
(* A name is a sequence of the words, marks and blanks it consists of, its *)
(* crc32 the name itself.  Times are in frames, values in units of 1e-7, and a   *)
(* slope is a fraction <<value, time>>.  Left out are the weights of keys, *)
(* coefficients that are zero but for rounding, and times closer than 1e-5 *)
(* seconds.                                                                *)
(***************************************************************************)
EXTENDS Integers, Sequences, FiniteSetsExt, SequencesExt, Functions, TLC

CONSTANTS Glbs, Nil
VARIABLES glb,     \* the document
          todo,    \* channels of the first animation in `left` not yet seen
          seen,    \* those taken, without what targets the same
          left,    \* the numbers of the animations not yet done
          clips,   \* the clips
          player   \* the Animation component, or the controller
vars == <<glb, todo, seen, left, clips, player>>

Has(f, k) == k \in DOMAIN f
Put(f, k, v) == (k :> v) @@ f
Nodes == DOMAIN glb.nodes
Children(n) == glb.nodes[n].kids
MeshOf(n) == glb.nodes[n].mesh

-----------------------------------------------------------------------------
(* Names and paths.  A node without a name has that of its mesh.  The k-th *)
(* repeat of a name among siblings gets the number k - 1.                  *)
Parent(n) == LET above == {p \in Nodes : Contains(Children(p), n)}
             IN IF above = {} THEN 0 ELSE Max(above)
Numbered(name, k) == name \o <<"_", ToString(k)>>
OwnName(n) ==
  IF glb.nodes[n].name # <<>> THEN glb.nodes[n].name
  ELSE IF MeshOf(n) # 0 /\ glb.meshes[MeshOf(n)].name # <<>> THEN glb.meshes[MeshOf(n)].name
  ELSE <<"Node-", ToString(n)>>

Disambig(names, order) ==
  FoldLeft(LAMBDA st, n :
             LET base == st.names[n]
                 met  == IF Has(st.met, base) THEN st.met[base] ELSE 0
             IN [names |-> IF met > 0 THEN [st.names EXCEPT ![n] = Numbered(base, met - 1)] ELSE st.names,
                 met |-> Put(st.met, base, met + 1)],
           [names |-> names, met |-> <<>>], order).names
Referenced == UNION {Range(Children(p)) : p \in Nodes} \cup UNION {Range(r) : r \in Range(glb.scenes)}
Names ==
  LET own    == [n \in Nodes |-> OwnName(n)]
      tops   == Disambig(own, SetToSortSeq({n \in Nodes : Parent(n) = 0}, <))
      unique == FoldLeft(LAMBDA names, p : IF Len(Children(p)) > 1 THEN Disambig(names, Children(p)) ELSE names,
                         tops, [p \in Nodes |-> p])
  IN [n \in Nodes |-> IF n \in Referenced THEN unique[n] ELSE <<>>]

RECURSIVE Along(_, _)
Along(names, n) == IF n = 0 THEN <<>> ELSE Append(Along(names, Parent(n)), names[n])
AnimationPath(n) == Along(Names, n)

\* The names of the nodes as they are built.  A blank name is none, and a mesh
\* names its node if it has a primitive; a repeat takes the first number that is
\* free, and colliders keep their names.
Blank(name) == Range(name) \subseteq {" "}
BaseName(n) ==
  IF ~Blank(glb.nodes[n].name) THEN glb.nodes[n].name
  ELSE IF MeshOf(n) # 0 /\ glb.meshes[MeshOf(n)].prims # <<>> /\ ~Blank(glb.meshes[MeshOf(n)].name)
       THEN glb.meshes[MeshOf(n)].name
  ELSE <<"Node-", ToString(n)>>
Assign(names, order) ==
  FoldLeft(LAMBDA st, n :
             LET base == BaseName(n)
                 free == CHOOSE k \in 0..Cardinality(st.taken) :
                           /\ Numbered(base, k) \notin st.taken
                           /\ \A j \in 0..(k - 1) : Numbered(base, j) \in st.taken
                 name == IF base \in st.taken THEN Numbered(base, free) ELSE base
             IN IF glb.nodes[n].collider THEN [st EXCEPT !.names[n] = base]
                ELSE [names |-> [st.names EXCEPT ![n] = name], taken |-> st.taken \cup {name}],
           [names |-> names, taken |-> {}], order).names
UniqueNames ==
  FoldLeft(Assign, [n \in Nodes |-> <<>>], [p \in Nodes |-> Children(p)] \o glb.scenes)

-----------------------------------------------------------------------------
(* The keys of a curve, from times and the values at them.                 *)
Conv(path, v) ==
  CASE path = "translation" -> <<-v[1], v[2], v[3]>>
    [] path = "rotation"    -> <<v[1], -v[2], -v[3], v[4]>>
    [] path = "scale"       -> v
Dot(u, v) == FoldFunction(+, 0, [c \in DOMAIN u |-> u[c] * v[c]])
Negated(v) == [c \in DOMAIN v |-> -v[c]]
\* Of a linear curve, keys that are not later than the last one kept are
\* dropped, and a rotation turns the short way.
KeptLinear(times, values, isRotation) ==
  FoldLeft(LAMBDA kept, i :
             IF times[i] <= Last(kept).time THEN kept
             ELSE Append(kept, [time |-> times[i],
                                value |-> IF isRotation /\ Dot(Last(kept).value, values[i]) < 0
                                          THEN Negated(values[i]) ELSE values[i]]),
           <<[time |-> times[1], value |-> values[1]]>>, Tail([i \in DOMAIN times |-> i]))

Infinite == <<1, 0>>
Zero(v) == [c \in DOMAIN v |-> <<0, 1>>]
SlopeTo(keys, i) ==
  [c \in DOMAIN keys[i].value |-> <<keys[i + 1].value[c] - keys[i].value[c], keys[i + 1].time - keys[i].time>>]
Keyframe(key, in, out) == [time |-> key.time, value |-> key.value, in |-> in, out |-> out]

(* bake_vec_curve, and bake_scalar_curve for vectors of one.               *)
BakeStep(times, values) ==
  [i \in DOMAIN times |-> Keyframe([time |-> times[i], value |-> values[i]],
                                   [c \in DOMAIN values[i] |-> IF Len(times) = 1 /\ c > 1 THEN <<0, 1>> ELSE Infinite],
                                   Zero(values[i]))]
BakeCubic(times, values) ==
  LET tangent(v) == [c \in DOMAIN v |-> <<v[c], 1>>]
  IN [i \in DOMAIN times |-> Keyframe([time |-> times[i], value |-> values[3 * i - 1]],
                                      tangent(values[3 * i - 2]), tangent(values[3 * i]))]
BakeLinear(times, values, isRotation) ==
  LET keys == KeptLinear(times, values, isRotation)
  IN [i \in DOMAIN keys |-> Keyframe(keys[i],
                                     IF i = 1 THEN Zero(keys[i].value) ELSE SlopeTo(keys, i - 1),
                                     IF i = Len(keys) THEN Zero(keys[i].value) ELSE SlopeTo(keys, i))]
BakeVecCurve(sampler, values, isRotation) ==
  CASE sampler.interp = "STEP"        -> BakeStep(sampler.times, values)
    [] sampler.interp = "CUBICSPLINE" -> BakeCubic(sampler.times, values)
    [] sampler.interp = "LINEAR"      -> BakeLinear(sampler.times, values, isRotation)

-----------------------------------------------------------------------------
(* The curves of the weights of a mesh.  Primitives of the same accessors  *)
(* are one cluster, and each but the first is an object below the node.    *)
Prims(n) == glb.meshes[MeshOf(n)].prims
Clusters(n) == FoldLeft(LAMBDA cs, p : IF Contains(cs, p) THEN cs ELSE Append(cs, p), <<>>, Prims(n))
ChildName(n, k) ==
  (IF glb.meshes[MeshOf(n)].name = <<>> THEN <<"Primitive">> ELSE glb.meshes[MeshOf(n)].name) \o <<"_", ToString(k)>>
BlendshapeCurvePaths(n, path) ==
  LET cs   == Clusters(n)
      more == SelectSeq([k \in 1..(Len(cs) - 1) |-> k], LAMBDA k : cs[k + 1].targets > 0)
  IN <<path>> \o [i \in DOMAIN more |-> Append(path, ChildName(n, more[i]))]

\* Weights come as all targets of the first time, all of the second, ...
WeightCurves(ch, sampler) ==
  LET n     == ch.node
      count == Prims(n)[1].targets
      keys(t) == [i \in DOMAIN sampler.times |-> <<sampler.values[(i - 1) * count + t][1]>>]
      of(path) == [t \in 1..count |-> [path |-> path, attr |-> ToString(t), keys |-> BakeVecCurve(sampler, keys(t), FALSE)]]
  IN IF MeshOf(n) = 0 \/ Prims(n) = <<>> \/ count = 0 \/ Len(sampler.values) # Len(sampler.times) * count THEN <<>>
     ELSE FlattenSeq([i \in DOMAIN BlendshapeCurvePaths(n, AnimationPath(n)) |->
                        of(BlendshapeCurvePaths(n, AnimationPath(n))[i])])

-----------------------------------------------------------------------------
(* The clip of a scene: the curves of every channel taken.                 *)
Anim == glb.anims[Head(left)]
Sampler(ch) == Anim.samplers[ch.sampler]
Attrs == <<"translation", "rotation", "scale">>
LegacyCurves(ch) ==
  IF ch.path = "weights" THEN WeightCurves(ch, Sampler(ch))
  ELSE IF ~Contains(Attrs, ch.path) THEN <<>>
  ELSE LET values == Sampler(ch).values
       IN <<[path |-> AnimationPath(ch.node), attr |-> ch.path,
             keys |-> BakeVecCurve(Sampler(ch), [i \in DOMAIN values |-> Conv(ch.path, values[i])],
                                   ch.path = "rotation")]>>
ClipName(i) == IF glb.anims[i].name = <<>> THEN <<"Clip_", ToString(i)>> ELSE glb.anims[i].name
LegacyClip == [name |-> ClipName(Head(left)), curves |-> FlattenSeq([i \in DOMAIN seen |-> LegacyCurves(seen[i])])]

-----------------------------------------------------------------------------
(* The clip of an emote.  Its bindings come by attribute, and by node in   *)
(* the order of the channels; each is a curve for every component.         *)
NodeOrder == FoldLeft(LAMBDA ns, ch : IF Contains(ns, ch.node) THEN ns ELSE Append(ns, ch.node), <<>>, seen)
Bound == FlattenSeq([a \in 1..3 |->
  LET of(n) == SelectSeq(seen, LAMBDA ch : ch.node = n /\ ch.path = Attrs[a])
  IN FlattenSeq([i \in DOMAIN NodeOrder |-> of(NodeOrder[i])])])
Middle(sampler) == IF sampler.interp # "CUBICSPLINE" THEN sampler.values
                   ELSE [i \in DOMAIN sampler.times |-> sampler.values[3 * i - 1]]
GatheredKeys(ch) ==
  LET s      == Sampler(ch)
      values == [i \in DOMAIN s.times |-> Conv(ch.path, Middle(s)[i])]
  IN IF s.interp = "LINEAR" THEN KeptLinear(s.times, values, ch.path = "rotation")
     ELSE [i \in DOMAIN s.times |-> [time |-> s.times[i], value |-> values[i]]]
BakeScalarKeys(keys, interp, c) ==
  LET slope(i) == IF interp = "STEP" \/ i = Len(keys) \/ keys[i + 1].time <= keys[i].time THEN <<0, 1>>
                  ELSE SlopeTo(keys, i)[c]
  IN [i \in DOMAIN keys |-> [time |-> keys[i].time, value |-> keys[i].value[c], slope |-> slope(i)]]
\* Gathered once: a binding with the curves of its components.
Gathered == [b \in DOMAIN Bound |->
  LET ch == Bound[b] keys == GatheredKeys(ch) IN
  [path |-> AnimationPath(ch.node), attr |-> ch.path, step |-> Sampler(ch).interp = "STEP",
   curves |-> [c \in DOMAIN keys[1].value |-> BakeScalarKeys(keys, Sampler(ch).interp, c)]]] \o <<>>

\* A binding whose curves all stay within the tolerances is constant:
\* 9.54e-7 for a value, 8.94e-7 in a second of 60 frames for a slope.
Abs(x) == IF x < 0 THEN -x ELSE x
CurveConst(keys) == \A k \in Range(keys) : /\ Abs(k.value - keys[1].value) <= 9
                                           /\ 6000 * Abs(k.slope[1]) < 894 * k.slope[2]
Constant(binding) == ~binding.step /\ \A keys \in Range(binding.curves) : CurveConst(keys)

\* Every time once, with the keys there in the order of their curves, after a
\* frame at the beginning of time with the first values and before one at its end.
StreamedFrames(curves) ==
  LET times == SetToSortSeq({k.time : k \in UNION {Range(keys) : keys \in Range(curves)}}, <)
      entry(c, k) == [curve |-> c - 1, slope |-> k.slope, value |-> k.value]
      at(t) == FlattenSeq([c \in DOMAIN curves |->
                 LET here == SelectSeq(curves[c], LAMBDA k : k.time = t)
                 IN [i \in DOMAIN here |-> entry(c, here[i])]])
      lead == [c \in DOMAIN curves |-> entry(c, [curves[c][1] EXCEPT !.slope = <<0, 1>>])]
  IN IF times = <<>> THEN <<>>
     ELSE <<[at |-> "start", time |-> 0, keys |-> lead]>>
          \o [i \in DOMAIN times |-> [at |-> "time", time |-> times[i], keys |-> at(times[i])]]
          \o <<[at |-> "end", time |-> 0, keys |-> <<>>]>>

PartitionCurves(bindings) == FlattenSeq([b \in DOMAIN bindings |-> bindings[b].curves])
Timing(bindings) ==
  LET times == {k.time : k \in UNION {Range(keys) : keys \in Range(PartitionCurves(bindings))}}
      stop  == Max({0} \cup times)
      begin == IF times = {} THEN 0 ELSE Min(times)
  IN [begin |-> begin, stop |-> stop, frames |-> stop - begin + 2]
\* Faulty: bindings as they were gathered, values by whether they change.
BindingOrderGathered(streamed, constant) == Gathered
BindingOrder(streamed, constant) == streamed \o constant
MecanimClip ==
  LET streamed == SelectSeq(Gathered, LAMBDA b : ~Constant(b))
      constant == SelectSeq(Gathered, Constant)
      curves   == PartitionCurves(streamed)
      values   == [i \in DOMAIN PartitionCurves(constant) |-> PartitionCurves(constant)[i][1].value]
  IN [name |-> ClipName(Head(left)),
      bindings |-> [b \in DOMAIN Gathered |-> LET x == BindingOrder(streamed, constant)[b] IN [path |-> x.path, attr |-> x.attr]],
      frames |-> StreamedFrames(curves), curveCount |-> Len(curves), constant |-> values,
      timing |-> Timing(Gathered),
      delta |-> [c \in DOMAIN curves |-> <<curves[c][1].value, Last(curves[c]).value>>]
                \o [i \in DOMAIN values |-> <<values[i], values[i]>>]]

-----------------------------------------------------------------------------
(* What plays the clips.  The component has a slot for every name.         *)
AnimationComponent ==
  LET names == FoldLeft(LAMBDA ns, c : IF Contains(ns, c.name) THEN ns ELSE Append(ns, c.name), <<>>, clips)
  IN [first |-> 1, slots |-> [s \in DOMAIN names |-> [name |-> names[s],
                                clip |-> Max({i \in DOMAIN clips : clips[i].name = names[s]})]]]

(* The controller has two states for a clip, between which it loops, and a *)
(* trigger of the clip's name.  tos is all that its ids are names of.      *)
Loop == <<"Loop">>
Layer == <<"Base Layer">>
Undotted(name) == [i \in DOMAIN name |-> IF name[i] = "." THEN "_" ELSE name[i]]
StateName(name, second) ==
  IF ~second THEN Undotted(name) ELSE IF Undotted(name) = name THEN name \o <<" ", "0">> ELSE Undotted(name)
Full(name) == Layer \o <<".">> \o name
To(from, to) == from \o <<" -> ">> \o to
State(i, second) ==
  LET own   == StateName(clips[i].name, second)
      other == StateName(clips[i].name, ~second)
  IN [name |-> own, path |-> Full(own), clip |-> 2 * (i - 1),
      transition |-> [if |-> Loop, to |-> 2 * (i - 1) + (IF second THEN 0 ELSE 1),
                      id |-> To(own, other), path |-> To(Full(own), Full(other))]]
AnyTransition(i) ==
  LET name == StateName(clips[i].name, FALSE) IN
  [if |-> clips[i].name, to |-> 2 * (i - 1), id |-> To(<<"AnyState">>, name), path |-> To(<<"Entry">>, Full(name))]
IdsOf(transition) == {transition.id, transition.path}
AnimatorController ==
  LET states == [k \in 1..(2 * Len(clips)) |-> State((k + 1) \div 2, k % 2 = 0)]
      any    == [i \in DOMAIN clips |-> AnyTransition(i)]
  IN [parameters |-> <<[id |-> Loop, type |-> "bool", value |-> TRUE]>>
                     \o [i \in DOMAIN clips |-> [id |-> clips[i].name, type |-> "trigger", value |-> FALSE]],
      states |-> states, any |-> any, start |-> 0,
      clips |-> [k \in DOMAIN states |-> (k + 1) \div 2],
      tos |-> {<<>>, Loop, <<"GravityWeight">>, Layer} \cup {clips[i].name : i \in DOMAIN clips}
              \cup UNION {{s.name, s.path} \cup IdsOf(s.transition) : s \in Range(states)}
              \cup UNION {IdsOf(t) : t \in Range(any)}]

-----------------------------------------------------------------------------
ChannelsOf(rest) == IF rest = <<>> THEN <<>> ELSE glb.anims[Head(rest)].channels
Init ==
  /\ glb \in Glbs
  /\ left = [i \in DOMAIN glb.anims |-> i] /\ todo = ChannelsOf(left)
  /\ seen = <<>> /\ clips = <<>> /\ player = Nil

(* One channel: the first of a node and path is taken.  A sampler that is  *)
(* not there is passed over for a scene and the end of an emote's build.   *)
Targets(ch) == ch.node # 0
Sampled(ch) == ch.sampler # 0
Known(ch) == \E s \in Range(seen) : s.node = ch.node /\ s.path = ch.path
Take ==
  /\ todo # <<>> /\ Targets(Head(todo)) /\ Sampled(Head(todo)) /\ ~Known(Head(todo))
  /\ seen' = Append(seen, Head(todo)) /\ todo' = Tail(todo)
  /\ UNCHANGED <<glb, left, clips, player>>
Skip ==
  /\ todo # <<>>
  /\ \/ ~Targets(Head(todo))
     \/ ~Sampled(Head(todo)) /\ ~glb.emote
     \/ Sampled(Head(todo)) /\ Known(Head(todo))
  /\ todo' = Tail(todo)
  /\ UNCHANGED <<glb, seen, left, clips, player>>
Panic ==
  /\ player = Nil /\ todo # <<>> /\ glb.emote /\ Targets(Head(todo)) /\ ~Sampled(Head(todo))
  /\ player' = [panicked |-> TRUE]
  /\ UNCHANGED <<glb, todo, seen, left, clips>>

EndClip ==
  /\ todo = <<>> /\ left # <<>>
  /\ clips' = Append(clips, IF glb.emote THEN MecanimClip ELSE LegacyClip)
  /\ left' = Tail(left) /\ todo' = ChannelsOf(Tail(left)) /\ seen' = <<>>
  /\ UNCHANGED <<glb, player>>
Finish ==
  /\ left = <<>> /\ player = Nil
  /\ player' = IF glb.emote THEN AnimatorController ELSE AnimationComponent
  /\ UNCHANGED <<glb, todo, seen, left, clips>>

Next == Take \/ Skip \/ Panic \/ EndClip \/ Finish \/ (player # Nil /\ UNCHANGED vars)

-----------------------------------------------------------------------------
(* What the document says.  Of a linear curve a key counts that is later   *)
(* than all before it.                                                     *)
Done == left = <<>> /\ player # Nil
TakenOf(i) ==
  LET chs == glb.anims[i].channels
  IN {chs[j] : j \in {j \in DOMAIN chs :
        /\ Targets(chs[j]) /\ Sampled(chs[j]) /\ Contains(Attrs, chs[j].path)
        /\ \A k \in 1..(j - 1) : Sampled(chs[k]) => chs[k].node # chs[j].node \/ chs[k].path # chs[j].path}}
Counts(s) == SetToSortSeq({j \in DOMAIN s.times : s.interp = "LINEAR" => \A k \in 1..(j - 1) : s.times[k] < s.times[j]}, <)
SourceKeys(i, ch) ==
  LET s == glb.anims[i].samplers[ch.sampler]
  IN [k \in DOMAIN Counts(s) |->
       LET j == Counts(s)[k]
       IN [time |-> s.times[j], value |-> Conv(ch.path, s.values[IF s.interp = "CUBICSPLINE" THEN 3 * j - 1 ELSE j])]]
\* A rotation and its negative are the same; between keys it goes the short way.
Same(ch, interp, u, v) == u = v \/ (ch.path = "rotation" /\ interp = "LINEAR" /\ u = Negated(v))
Follows(i, ch, keys) ==
  LET source == SourceKeys(i, ch) interp == glb.anims[i].samplers[ch.sampler].interp
  IN /\ Len(keys) = Len(source)
     /\ \A k \in DOMAIN keys : keys[k].time = source[k].time /\ Same(ch, interp, keys[k].value, source[k].value)
     /\ ch.path = "rotation" /\ interp = "LINEAR" =>
          \A k \in 2..Len(keys) : Dot(keys[k - 1].value, keys[k].value) >= 0
\* A value that a slope leads to from another.
LeadsTo(slope, from, to) ==
  \A c \in DOMAIN slope : slope[c][1] * (to.time - from.time) = slope[c][2] * (to.value[c] - from.value[c])

\* Siblings whose names do not look like repeats of each other's, and tops in
\* their order in the one scene or of different names.
Unmistakable(ns) == \A m, n \in ns : m # n =>
  /\ glb.nodes[m].collider => OwnName(m) # OwnName(n)
  /\ \A k \in 0..Cardinality(ns) : OwnName(m) # Numbered(OwnName(n), k)
Tops == {n \in Nodes : Parent(n) = 0}
ClearTops == /\ Unmistakable(Tops)
             /\ \/ glb.scenes = <<SetToSortSeq(Tops, <)>>
                \/ Cardinality({OwnName(n) : n \in Tops}) = Cardinality(Tops)
RECURSIVE Clear(_)
Clear(n) == IF Parent(n) = 0 THEN ClearTops ELSE Unmistakable(Range(Children(Parent(n)))) /\ Clear(Parent(n))

\* Every channel is one curve of the clip, that follows it and is linear between
\* the keys of a linear one (animation.rs 311-413, 655-700).
LegacyPlays(i) == \A ch \in {c \in TakenOf(i) : Clear(c.node)} :
  LET here == SelectSeq(clips[i].curves, LAMBDA c : c.path = AnimationPath(ch.node) /\ c.attr = ch.path)
      keys == here[1].keys
  IN /\ Len(here) = 1 /\ Follows(i, ch, keys)
     /\ glb.anims[i].samplers[ch.sampler].interp = "LINEAR" =>
          \A k \in 2..Len(keys) : /\ keys[k].in = keys[k - 1].out
                                  /\ LeadsTo(keys[k].in, keys[k - 1], keys[k])

\* Read in the order of the bindings, first the streamed curves and then the
\* constants, every channel is there, to within the tolerance of a constant.
Width(attr) == IF attr = "rotation" THEN 4 ELSE 3
Start(clip, b) == FoldFunctionOnSet(+, 0, [k \in DOMAIN clip.bindings |-> Width(clip.bindings[k].attr)], 1..(b - 1))
Streamed(clip, c) ==
  LET at(f) == SelectSeq(f.keys, LAMBDA k : k.curve = c)
  IN FlattenSeq([i \in DOMAIN clip.frames |->
       LET f == clip.frames[i] IN [k \in DOMAIN at(f) |-> [at |-> f.at, time |-> f.time, value |-> at(f)[k].value,
                                                            slope |-> at(f)[k].slope]]])
ReadsBack(i, ch, b) ==
  LET clip  == clips[i]
      comps == 1..Width(ch.path)
      curve(c) == Streamed(clip, Start(clip, b) + c - 1)
      keys  == [k \in 1..(Len(curve(1)) - 1) |->
                  [time |-> curve(1)[k + 1].time, value |-> [c \in comps |-> curve(c)[k + 1].value]]]
  IN IF Start(clip, b) < clip.curveCount
     THEN /\ Start(clip, b) + Width(ch.path) <= clip.curveCount
          /\ \A c \in comps : /\ Len(curve(c)) = Len(curve(1)) /\ curve(c)[1].at = "start" /\ curve(c)[1].value = curve(c)[2].value
                              /\ \A k \in 2..Len(curve(c)) : curve(c)[k].at = "time"
          /\ Follows(i, ch, keys)
          /\ glb.anims[i].samplers[ch.sampler].interp = "LINEAR" => \A k \in 2..Len(keys) :
               LeadsTo([c \in comps |-> curve(c)[k].slope], keys[k - 1], keys[k])
     ELSE \A k \in DOMAIN SourceKeys(i, ch) : \E sign \in {-1, 1} : \A c \in comps :
            Abs(sign * SourceKeys(i, ch)[k].value[c] - clip.constant[Start(clip, b) - clip.curveCount + c]) <= 9
MecanimPlays(i) ==
  LET clip == clips[i] IN
  /\ \A ch \in {c \in TakenOf(i) : Clear(c.node)} :
       LET bs == {b \in DOMAIN clip.bindings : clip.bindings[b] = [path |-> AnimationPath(ch.node), attr |-> ch.path]}
       IN Cardinality(bs) = 1 /\ \A b \in bs : ReadsBack(i, ch, b)
  /\ Len(clip.bindings) = Cardinality(TakenOf(i))
  /\ Len(clip.delta) = Start(clip, Len(clip.bindings) + 1)
  /\ Len(clip.delta) = clip.curveCount + Len(clip.constant)
  /\ \A f, g \in DOMAIN clip.frames : f < g =>
       \/ clip.frames[f].at = "start" \/ clip.frames[g].at = "end" \/ clip.frames[f].time < clip.frames[g].time

\* A curve names the object that its node was built as, and no other, unless on
\* the way down there are siblings whose names are mistakable, which gltf.rs
\* 1419-1444 numbers otherwise, or one that has another name there from the
\* start (1394-1404): blank, or of a mesh without primitives or with a blank name.
Siblings(n) == IF Parent(n) = 0 THEN Tops ELSE Range(Children(Parent(n)))
RECURSIVE NamedAlike(_)
NamedAlike(n) ==
  /\ \A m \in Siblings(n) : BaseName(m) = OwnName(m)
  /\ Parent(n) = 0 \/ NamedAlike(Parent(n))
BuiltPath(n) == Along(UniqueNames, n)
PathsMeet == \A n \in Referenced : Clear(n) /\ NamedAlike(n) =>
  AnimationPath(n) = BuiltPath(n) /\ \A m \in Referenced : Clear(m) /\ BuiltPath(m) = BuiltPath(n) => m = n

\* Weights move every object that a morphing cluster was built as: a child for
\* every cluster under v38 compatibility, else for every primitive.
BuiltChildren(n) ==
  LET parts == IF glb.v38 THEN Clusters(n) ELSE Prims(n)
  IN {[path |-> IF k = 1 THEN AnimationPath(n) ELSE Append(AnimationPath(n), ChildName(n, k - 1)), morphs |-> parts[k].targets > 0]
      : k \in DOMAIN parts}
Weighs(i, ch) ==
  /\ ch.path = "weights" /\ Sampled(ch) /\ Targets(ch) /\ MeshOf(ch.node) # 0
  /\ Prims(ch.node)[1].targets > 0 /\ (glb.v38 \/ Clusters(ch.node) = Prims(ch.node))
  /\ LET s == glb.anims[i].samplers[ch.sampler] IN Len(s.values) = Len(s.times) * Prims(ch.node)[1].targets
WeightsMove(i) ==
  \A ch \in Range(glb.anims[i].channels) : Weighs(i, ch) =>
    {c.path : c \in {x \in BuiltChildren(ch.node) : x.morphs}}
      = {c.path : c \in {x \in Range(clips[i].curves) : x.attr \notin Range(Attrs)}}

\* The trigger of a name starts the first clip of that name, which then loops,
\* and every id can be named; the component has one slot for each name.
Clip(state) == player.clips[player.states[state + 1].clip + 1]
ControllerPlays ==
  /\ \A i \in DOMAIN clips :
       LET fired == SelectSeq(player.any, LAMBDA t : t.if = clips[i].name)[1]
           on(s) == player.states[s + 1].transition.to
       IN /\ clips[Clip(fired.to)].name = clips[i].name
          /\ (\A j \in 1..(i - 1) : clips[j].name # clips[i].name) => Clip(fired.to) = i
          /\ on(fired.to) # fired.to /\ on(on(fired.to)) = fired.to /\ Clip(on(fired.to)) = Clip(fired.to)
  /\ {p.id : p \in Range(player.parameters)} \cup {s.path : s \in Range(player.states)} \subseteq player.tos
ComponentPlays ==
  /\ \A i \in DOMAIN clips : \E s \in DOMAIN player.slots : player.slots[s].name = clips[i].name
  /\ \A s \in DOMAIN player.slots : clips[player.slots[s].clip].name = player.slots[s].name
  /\ \A s, u \in DOMAIN player.slots : player.slots[s].name = player.slots[u].name => s = u

ClipsPlay == Done /\ player # [panicked |-> TRUE] =>
  /\ PathsMeet
  /\ IF glb.emote THEN ControllerPlays /\ \A i \in DOMAIN clips : MecanimPlays(i)
     ELSE ComponentPlays /\ \A i \in DOMAIN clips : LegacyPlays(i) /\ WeightsMove(i)
=============================================================================
