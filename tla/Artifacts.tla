------------------------------- MODULE Artifacts -------------------------------
(***************************************************************************)
(* Source maps from their upload to the page that uses them: the tables    *)
(* releases and artifacts, the two requests that write them, and the       *)
(* rendering of an event's stack trace, which reads them frame by frame    *)
(* while builds go on uploading.                                           *)
(***************************************************************************)
EXTENDS SourceMap, FiniteSets

CONSTANTS
  Projects, Versions, Paths,   \* names of projects, releases and generated files
  Contents,                    \* what is uploaded
  Mappings,                    \* content |-> its mappings, as Parse reads them
  Built,                       \* content |-> the map its bundler meant, if one wrote it
  Uploads,                     \* requests that may be under way at the same time
  Frames,                      \* stack frames: records of abs_path, lineno, colno
  NoRelease, NoPath,           \* the empty strings of an event and a frame
  MaxFrames,                   \* bound: the frames of a page
  Columns                      \* bound: the columns of a generated file

ASSUME ArtifactsAssumption ==
  /\ NoRelease \notin Versions /\ NoPath \notin Paths
  /\ \A f \in Frames : /\ f.abs_path \in Paths \cup {NoPath}
                       /\ f.lineno \in Int /\ f.colno \in Int
  /\ Columns \subseteq Nat
  /\ \A c \in DOMAIN Built :
       c \in Contents /\ IsMap(Built[c]) /\ Mappings[c] = Encoded(Built[c])

VARIABLES
  releases,    \* release id |-> project and version
  artifacts,   \* release id and abs_path |-> content
  upload,      \* request |-> what it has come to know, or Idle
  event,       \* the project and release of the event on the page
  cache,       \* the page's: abs_path |-> {} or the content that is its map
  shown,       \* the page's frames so far
  held         \* history: what each path of event held since the page began

tables == <<releases, artifacts>>
page == <<event, cache, shown, held>>
vars == <<releases, artifacts, upload, event, cache, shown, held>>

(* AUTOINCREMENT: any id that is not in use. *)
ReleaseIds == 1..Cardinality(Projects \X Versions)

Idle == [step |-> "idle"]

--------------------------------------------------------------------------------
(* The store. *)

IdsOf(p, v) == {id \in DOMAIN releases : releases[id] = <<p, v>>}

CreateReleaseSlip(p, v, id) ==    \* no ON CONFLICT
  /\ id \in ReleaseIds \ DOMAIN releases
  /\ releases' = [r \in DOMAIN releases \cup {id} |->
                    IF r = id THEN <<p, v>> ELSE releases[r]]

(* INSERT ... ON CONFLICT(project_id, version) DO UPDATE ... RETURNING id. *)
CreateRelease(p, v, id) ==
  \/ /\ id \in IdsOf(p, v)
     /\ UNCHANGED releases
  \/ /\ IdsOf(p, v) = {}
     /\ id \in ReleaseIds \ DOMAIN releases
     /\ releases' = [r \in DOMAIN releases \cup {id} |->
                       IF r = id THEN <<p, v>> ELSE releases[r]]

StoreArtifact(id, path, content) ==
  artifacts' = [k \in DOMAIN artifacts \cup {<<id, path>>} |->
                  IF k = <<id, path>> THEN content ELSE artifacts[k]]

(* The content in a set, which is empty if there is none. *)
FindArtifact(p, v, path) ==
  {artifacts[k] : k \in {k \in DOMAIN artifacts :
                           k[2] = path /\ releases[k[1]] = <<p, v>>}}

(* What writes do to the history. *)
Held(path) == FindArtifact(event.project, event.release, path)
Noted == held' = [path \in Paths |-> held[path] \cup {Held(path)'}]

--------------------------------------------------------------------------------
(* The requests of a build. *)

PostRelease(p, v) ==
  /\ \E id \in ReleaseIds : CreateRelease(p, v, id)
  /\ UNCHANGED <<artifacts, upload, event, cache, shown>>
  /\ Noted

BeginUploadSlip(u, p, v, path) ==    \* expects the release to be there
  /\ upload[u] = Idle
  /\ \E id \in ReleaseIds :
       upload' = [upload EXCEPT ![u] = [step |-> "read", release |-> id, path |-> path]]
  /\ UNCHANGED <<tables, page>>

(* UploadArtifact creates the release before it reads the body. *)
BeginUpload(u, p, v, path) ==
  /\ upload[u] = Idle
  /\ \E id \in ReleaseIds :
       /\ CreateRelease(p, v, id)
       /\ upload' = [upload EXCEPT ![u] = [step |-> "read", release |-> id, path |-> path]]
  /\ UNCHANGED <<artifacts, event, cache, shown>>
  /\ Noted

(* An empty body, one over maxArtifactSize, or an error. *)
RefuseUpload(u) ==
  /\ upload[u].step = "read"
  /\ upload' = [upload EXCEPT ![u] = Idle]
  /\ UNCHANGED <<tables, page>>

FinishUpload(u, content) ==
  /\ upload[u].step = "read"
  /\ StoreArtifact(upload[u].release, upload[u].path, content)
  /\ upload' = [upload EXCEPT ![u] = Idle]
  /\ UNCHANGED <<releases, event, cache, shown>>
  /\ Noted

--------------------------------------------------------------------------------
(* The page of an event. *)

OpenPage(p, v) ==
  /\ event' = [project |-> p, release |-> v]
  /\ cache' = << >>
  /\ shown' = << >>
  /\ held' = [path \in Paths |-> {FindArtifact(p, v, path)}]
  /\ UNCHANGED <<tables, upload>>

Parsed == [c \in Contents |-> Parse(Mappings[c])]

(* A map that does not parse is as good as none. *)
Usable(contents) == {c \in contents : Parsed[c].ok}

LookupSlip(path) ==    \* no cache
  IF event.release = NoRelease THEN {{}} ELSE {{}, Usable(Held(path))}

(* What looking up a path may lead to: whatever was found before, or what is *)
(* there now, or nothing if the query fails.                                 *)
Lookup(path) ==
  IF path \in DOMAIN cache THEN {cache[path]}
  ELSE IF event.release = NoRelease THEN {{}} ELSE {{}, Usable(Held(path))}

(* Lines and columns of a frame count from 1, and 0 is none; the line is    *)
(* counted from 1 on the page, the column from 0 as in the map.             *)
OnPage(pos) == [i \in DOMAIN pos |-> IF i = 2 THEN pos[i] + 1 ELSE pos[i]]

ResolveFrame(f, maps) ==
  IF maps = {} THEN << >>
  ELSE LET map == CHOOSE m \in maps : TRUE
           column == IF f.colno > 0 THEN f.colno - 1 ELSE 0
       IN OnPage(Resolve(Parsed[map].lines, f.lineno - 1, column))

HasPosition(f) == f.abs_path # NoPath /\ f.lineno > 0

ShowRaw(f) ==
  /\ ~HasPosition(f)
  /\ shown' = Append(shown, [frame |-> f, original |-> << >>])
  /\ UNCHANGED <<tables, upload, event, cache, held>>

ShowFrame(f) ==
  /\ HasPosition(f)
  /\ \E maps \in Lookup(f.abs_path) :
        /\ cache' = [path \in DOMAIN cache \cup {f.abs_path} |->
                       IF path = f.abs_path THEN maps ELSE cache[path]]
        /\ shown' = Append(shown, [frame |-> f, original |-> ResolveFrame(f, maps)])
  /\ UNCHANGED <<tables, upload, event, held>>

--------------------------------------------------------------------------------
Init ==
  /\ releases = << >> /\ artifacts = << >>
  /\ upload = [u \in Uploads |-> Idle]
  /\ event \in [project : Projects, release : Versions \cup {NoRelease}]
  /\ cache = << >> /\ shown = << >>
  /\ held = [path \in Paths |-> {{}}]

Next ==
  \/ \E p \in Projects, v \in Versions :
       \/ PostRelease(p, v)
       \/ \E u \in Uploads, path \in Paths : BeginUpload(u, p, v, path)
  \/ \E u \in Uploads :
       \/ RefuseUpload(u)
       \/ \E content \in Contents : FinishUpload(u, content)
  \/ \E p \in Projects, v \in Versions \cup {NoRelease} : OpenPage(p, v)
  \/ /\ Len(shown) < MaxFrames
     /\ \E f \in Frames : ShowRaw(f) \/ ShowFrame(f)

Spec == Init /\ [][Next]_vars

--------------------------------------------------------------------------------
(* The tables, requests and the page are of the expected types; an upload    *)
(* under way has a release to store its artifact in.                         *)
TypeOK ==
  /\ DOMAIN releases \subseteq ReleaseIds
  /\ \A id \in DOMAIN releases : releases[id] \in Projects \X Versions
  /\ DOMAIN artifacts \subseteq (DOMAIN releases) \X Paths
  /\ \A k \in DOMAIN artifacts : artifacts[k] \in Contents
  /\ \A u \in Uploads :
       \/ upload[u] = Idle
       \/ upload[u] \in [step : {"read"}, release : DOMAIN releases, path : Paths]
  /\ event \in [project : Projects, release : Versions \cup {NoRelease}]
  /\ DOMAIN cache \subseteq Paths
  /\ \A i \in DOMAIN shown : shown[i].frame \in Frames

(* A path of a release leads FindArtifact to one content at most, however    *)
(* builds that create the release and upload to it run into each other.      *)
OneArtifactFound ==
  \A p \in Projects, v \in Versions, path \in Paths :
    \A c, d \in FindArtifact(p, v, path) : c = d

(* What a frame should show if its path holds contents. *)
Original(contents, f) ==
  IF event.release = NoRelease \/ ~HasPosition(f) THEN << >>
  ELSE ResolveFrame(f, Usable(contents))

(* The frames of a page that are in one generated file are shown by one and  *)
(* the same map, though it may be replaced, or only uploaded, while the page *)
(* is rendered: one that the file had meanwhile, in the event's project and  *)
(* release, or by none.                                                      *)
PageOfOneMap ==
  \A path \in Paths : \E contents \in held[path] \cup {{}} :
    \A i \in DOMAIN shown :
      shown[i].frame.abs_path = path =>
        shown[i].original = Original(contents, shown[i].frame)

Misread == {c \in DOMAIN Built : ~ReadRight(Built[c], Columns)}

(* Whatever a bundler uploads, Parse and Resolve give every position of the   *)
(* generated file the meaning it had for the bundler: fields that run on over *)
(* lines, columns that do not, signs, values of several digits, and both ends *)
(* of each segment's reach.                                                   *)
MapsReadRight == \A k \in DOMAIN artifacts : artifacts[k] \notin Misread

================================================================================
