----------------------------- MODULE RouteKeys -----------------------------
(***************************************************************************)
(* How src/src/endpoints.rs names the route of a request.  A row of the    *)
(* route table has a normalized key; a thread's cache of rows is looked up *)
(* with a key that skips the normalization of a matched route template.    *)
(*                                                                         *)
(* A segment of a path is given by what the code asks of it: its length,   *)
(* what its characters are, up to MAX_SEGMENT_CHARS of them (head), and    *)
(* whether the rest is like the head (alike) or not.  Two segments with    *)
(* the same three are the same text.  Characters are one byte long.        *)
(***************************************************************************)
EXTENDS Integers, Sequences, SequencesExt

CONSTANTS MaxSegment,  \* MAX_SEGMENT_CHARS (48 in the code)
          MaxPath,     \* MAX_PATH_CHARS (128)
          ShortestId,  \* a hexadecimal identifier has 8 to 32 digits
          LongestId,
          UuidLength   \* 36

ASSUME KeysAssumption == MaxSegment \in Nat /\ MaxPath \in Nat

Heads == {"digits", "hex", "uuid", "param", "word"}

Segments == [head : Heads, length : Nat, alike : BOOLEAN]

\* KEY_SEPARATOR
Separator == "space"

\* mistake: one separator for both kinds of key
SameSeparator == Separator

\* RAW_KEY_SEPARATOR
RawSeparator == "nul"

\* The first characters of a segment, MaxSegment of them at most.
Prefix(segment, length) ==
  IF segment.length <= length THEN segment
  ELSE [segment EXCEPT !.length = length, !.alike = TRUE]

-----------------------------------------------------------------------------
(* Identifiers.                                                            *)

Uniform(segment, head) == segment.head = head /\ segment.alike

\* looks_like_id: decimal digits, a UUID, or hexadecimal digits in number.
LooksLikeId(segment) ==
  \/ Uniform(segment, "digits")
  \/ Uniform(segment, "uuid") /\ segment.length = UuidLength
  \/ /\ Uniform(segment, "hex")
     /\ segment.length \in ShortestId..LongestId

\* is_route_param: {id} or :id, as in route templates.
IsRouteParam(segment) == segment.head = "param" /\ segment.length > 1

\* What every identifier is written as, ":id".
Id == [head |-> "param", length |-> 3, alike |-> TRUE]

-----------------------------------------------------------------------------
(* Keys.                                                                   *)

\* The characters of a path written with a slash before each segment; the path
\* without segments is one slash.
Written(segments) ==
  FoldLeft(LAMBDA total, segment : total + 1 + segment.length, 0, segments)

\* One turn of the loop of write_normalized_path: the segment is collapsed or
\* shortened, and the first segment that passes the bound is cut and ends it.
AddSegment(path, segment) ==
  LET written == Written(path)
      normal == IF LooksLikeId(segment) \/ IsRouteParam(segment) THEN Id
                ELSE Prefix(segment, MaxSegment)
  IN IF written >= MaxPath THEN path
     ELSE Append(path, Prefix(normal, MaxPath - written - 1))

NormalizedPath(segments) == FoldLeft(AddSegment, <<>>, segments)

\* write_normalized_method: upper case, GET if there is nothing.
NormalizedMethod(method) ==
  IF method = "" THEN "GET" ELSE IF method = "get" THEN "GET" ELSE method

IsPlainMethod(method) == method \in {"GET", "PUT"}

\* write_key
NormalizedKey(request) ==
  <<NormalizedMethod(request.method), Separator, NormalizedPath(request.path)>>

\* write_lookup_key
LookupKey(request) ==
  IF /\ request.matched
     /\ IsPlainMethod(request.method)
     /\ Written(request.path) <= MaxPath
  THEN <<request.method, RawSeparator, request.path>>
  ELSE NormalizedKey(request)

-----------------------------------------------------------------------------

\* Requests that are looked up under the same key are on the same row, whether
\* their routes are known to the router or not; and no row has an unbounded name.
KeysSoundFor(r, s) ==
  /\ LookupKey(r) = LookupKey(s) => NormalizedKey(r) = NormalizedKey(s)
  /\ Written(NormalizedPath(r.path)) <= MaxPath
=============================================================================
