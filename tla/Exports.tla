------------------------------ MODULE Exports ------------------------------
(***************************************************************************)
(* The exports of mayutils.export: an image of HTML, taken by a browser,   *)
(* and documents that quarto and nbconvert make of a file, among the other *)
(* files of its folder.  The browser, quarto, jupyter and the people who   *)
(* edit the folder are external.                                           *)
(***************************************************************************)
EXTENDS Integers, Sequences, FiniteSets, Python

CONSTANTS
  Thread,    \* threads that take images, all under one file name
  Html,
  File,      \* the file that is exported: its stem and its suffix
  Siblings,  \* files that may be in its folder
  Writes,    \* the suffixes that quarto writes for a format, the document's last
  Listed,    \* the formats of nbconvert with the suffix in FORMAT_EXTENSIONS, or None
  Actual,    \* the suffixes that nbconvert gives a format, by the kernel of the file
  MaxEdits,  \* bound: changes of the folder
  MaxExports \* bound: exports that are begun

\* Quarto does not write over what it reads.
ExportsAssumption ==
  /\ None \notin Html
  /\ \A to \in DOMAIN Writes : \A k \in DOMAIN Writes[to] : <<File[1], Writes[to][k]>> # File

VARIABLES
  images,   \* the image of the name in the working folder and in another: its HTML, or None
  jobs,     \* the call of html_to_image that each thread is in
  taken,    \* the last image that was returned: as it was asked for and as it is
  sources,  \* the folder: the version of each file, or None
  theirs,   \* history: what people made of the folder
  export,   \* the export under way, or None
  outputs,  \* the folder of the outputs
  answer,   \* the last export's path or error
  counts    \* the edits and the exports so far; exports have times of their own

ImageVars == <<images, jobs, taken>>
DocumentVars == <<sources, theirs, export, outputs, answer, counts>>

Folder == {"working", "other"}
Name == Siblings \cup {File}
Stem(name) == name[1]

ExportsInit ==
  /\ images = [folder \in Folder |-> None]
  /\ jobs = [t \in Thread |-> None]
  /\ taken = None
  /\ sources = [name \in Name |-> IF name = File THEN 1 ELSE None]
  /\ theirs = sources
  /\ export = None /\ outputs = {} /\ answer = None
  /\ counts = [edits |-> 1, exports |-> 0]

-----------------------------------------------------------------------------
Busy == {t \in Thread : jobs[t] # None}

\* html_to_image: the browser is asked for an image in the working folder
HtmlToImage(t, html, folder) ==
  /\ t \notin Busy
  /\ jobs' = [other \in Thread |->
               IF other = t
               THEN [html |-> html, folder |-> folder, browser |-> "pending", alone |-> Busy = {},
                     before |-> images[folder] # None \/ images["working"] # None]
               ELSE IF other \in Busy THEN [jobs[other] EXCEPT !.alone = FALSE] ELSE None]
  /\ UNCHANGED <<images, taken, DocumentVars>>

\* The browser writes the image some time later, or never.
Browser(t, works) ==
  /\ t \in Busy /\ jobs[t].browser = "pending"
  /\ images' = IF works THEN [images EXCEPT !["working"] = jobs[t].html] ELSE images
  /\ jobs' = [jobs EXCEPT ![t].browser = IF works THEN "done" ELSE "failed"]
  /\ UNCHANGED <<taken, DocumentVars>>

Took(t, got) == taken' = [job |-> jobs[t], got |-> got] /\ jobs' = [jobs EXCEPT ![t] = None]

\* Mutant of Finish: the image is moved without a look for it.
FinishUnwaited(t) ==
  /\ t \in Busy
  /\ IF images["working"] = None THEN Took(t, "FileNotFoundError") /\ UNCHANGED images
     ELSE /\ Took(t, images["working"])
          /\ images' = [images EXCEPT !["working"] = None, ![jobs[t].folder] = images["working"]]
  /\ UNCHANGED DocumentVars

\* html_to_image waits until there is an image at its path, which is in the other
\* folder when one is from before, and moves the one of the working folder there
Finish(t) ==
  /\ t \in Busy /\ images[jobs[t].folder] # None
  /\ IF images["working"] = None THEN Took(t, "FileNotFoundError") /\ UNCHANGED images
     ELSE /\ Took(t, images["working"])
          /\ images' = [images EXCEPT !["working"] = None, ![jobs[t].folder] = images["working"]]
  /\ UNCHANGED DocumentVars

ImagesNext ==
  \E t \in Thread :
    \/ \E html \in Html, folder \in Folder : HtmlToImage(t, html, folder)
    \/ \E works \in BOOLEAN : Browser(t, works)
    \/ Finish(t)

-----------------------------------------------------------------------------
Edit(name, gone) ==
  /\ counts.edits < MaxEdits
  /\ gone => sources[name] # None
  /\ sources' = [sources EXCEPT ![name] = IF gone THEN None ELSE counts.edits + 1]
  /\ theirs' = [theirs EXCEPT ![name] = IF gone THEN None ELSE counts.edits + 1]
  /\ counts' = [counts EXCEPT !.edits = @ + 1]
  /\ UNCHANGED <<export, outputs, answer, ImageVars>>

Begins(started) ==
  /\ export = None /\ counts.exports < MaxExports
  /\ counts' = [counts EXCEPT !.exports = @ + 1]
  /\ export' = started
  /\ UNCHANGED <<sources, theirs, outputs, ImageVars>>

Answers(path, error) == answer' = [path |-> path, error |-> error]
Refused(error) == Begins(None) /\ Answers(None, error)

\* the files of the folder but those of the same stem
Links == {name \in Name : sources[name] # None /\ (name = File \/ Stem(name) # Stem(File))}

\* quarto: quarto_bin and the formats of DEFAULT_SETTINGS, then the folder of links
BeginQuarto(to, title, bin) ==
  IF ~bin THEN Refused("RuntimeError")
  ELSE IF to \notin DOMAIN Writes THEN Refused("ValueError")
  ELSE /\ Begins([tool |-> "quarto", to |-> to, stem |-> IF title = None THEN Stem(File) ELSE title,
                  links |-> Links])
       /\ UNCHANGED answer

Fails(error) ==
  /\ export' = None /\ Answers(None, error)
  /\ UNCHANGED <<sources, theirs, outputs, counts, ImageVars>>

Rendered == 0  \* the version of what quarto writes over
Output(suffix) == [stem |-> export.stem, time |-> counts.exports, suffix |-> suffix, of |-> sources[File]]

\* quarto render, which writes through links; the newest document that is no link is
\* moved to the outputs
RunQuarto(fails) ==
  /\ export # None /\ export.tool = "quarto"
  /\ LET written == [k \in DOMAIN Writes[export.to] |-> <<Stem(File), Writes[export.to][k]>>]
         candidates == {k \in DOMAIN written : written[k] \notin export.links}
     IN IF fails \/ File \notin export.links \/ sources[File] = None THEN Fails("CalledProcessError")
        ELSE /\ sources' = [name \in Name |-> IF \E k \in DOMAIN written : written[k] = name /\ name \in export.links
                                              THEN Rendered ELSE sources[name]]
             /\ IF candidates = {} THEN Answers(None, "RuntimeError") /\ UNCHANGED outputs
                ELSE LET newest == CHOOSE k \in candidates : \A j \in candidates : j <= k
                         output == Output(written[newest][2])
                     IN outputs' = outputs \cup {output} /\ Answers(output, None)
             /\ export' = None
             /\ UNCHANGED <<theirs, counts, ImageVars>>

-----------------------------------------------------------------------------
\* FORMAT_EXTENSIONS.get(to, f".{to}")
Extension(to) == IF Listed[to] = None THEN to ELSE Listed[to]

\* nbconvert: jupyter_bin, list_formats and list_templates are asked first
BeginNbconvert(to, bin, template) ==
  IF ~bin THEN Refused("RuntimeError")
  ELSE IF to \notin DOMAIN Listed \/ ~template THEN Refused("ValueError")
  ELSE /\ Begins([tool |-> "nbconvert", to |-> to, stem |-> Stem(File), links |-> {}])
       /\ UNCHANGED answer

\* jupyter nbconvert; what is returned is the path with the suffix of the table, which for
\* "script" is that of one kernel
RunNbconvert(fails, suffix) ==
  /\ export # None /\ export.tool = "nbconvert"
  /\ suffix \in Actual[export.to]
  /\ IF fails \/ sources[File] = None THEN Fails("CalledProcessError")
     ELSE /\ outputs' = outputs \cup {Output(suffix)}
          /\ Answers(Output(Extension(export.to)), None)
          /\ export' = None
          /\ UNCHANGED <<sources, theirs, counts, ImageVars>>

DocumentsNext ==
  \/ \E name \in Name, gone \in BOOLEAN : Edit(name, gone)
  \/ \E to \in DOMAIN Writes \cup {"other"}, title \in {None, "title"}, bin \in BOOLEAN : BeginQuarto(to, title, bin)
  \/ \E to \in DOMAIN Listed \cup {"other"}, bin, template \in BOOLEAN : BeginNbconvert(to, bin, template)
  \/ \E fails \in BOOLEAN : RunQuarto(fails)
  \/ \E fails \in BOOLEAN, suffix \in UNION {Actual[to] : to \in DOMAIN Actual} : RunNbconvert(fails, suffix)

-----------------------------------------------------------------------------
(* "The helper polls [...] guaranteeing the caller receives a fully-       *)
(* materialised artefact" (export/html, html_to_image): the image that is  *)
(* returned shows the HTML that it was asked for, when there was none of   *)
(* the name before and no other call of the name meanwhile; and a call that*)
(* the browser has served waits on only for a path in another folder, where*)
(* no image appears.                                                       *)
ImagesShowTheirHtml ==
  /\ taken # None /\ taken.job.alone /\ ~taken.job.before => taken.got = taken.job.html
  /\ \A t \in Busy : jobs[t].alone /\ jobs[t].browser = "done" =>
                       images[jobs[t].folder] # None \/ jobs[t].folder = "other"

(* An export leaves the folder of its file as people made it, also where a *)
(* document of the same stem is (export/quarto, export); and for the path  *)
(* that it returns there is a document of the file, as it was then or      *)
(* later: at the path itself, but for formats of nbconvert of which the    *)
(* suffix may not be the one that Extension says, as of "script", whose is *)
(* kernel-dependent, and at the path with its own suffix for those.        *)
DocumentsAreTheirs ==
  /\ sources = theirs
  /\ answer # None /\ answer.path # None =>
       \E document \in outputs :
         /\ document = [answer.path EXCEPT !.suffix = document.suffix]
         /\ \/ document = answer.path
            \/ \E to \in DOMAIN Listed : /\ answer.path.suffix = Extension(to)
                                         /\ document.suffix \in Actual[to] \ {Extension(to)}
=============================================================================
