----------------------------- MODULE DocSyncProofs -----------------------------
(***************************************************************************)
(* Documents and the file watch, for any number of files, documents,       *)
(* monitors and timers, any depth of nested handlers, and auto sync being  *)
(* switched on and off: the variables keep their types, the documents own  *)
(* the monitors, what reaches a callback is meant for it, their steps are  *)
(* steps of the watch, and a timer id names a timer of its own.            *)
(***************************************************************************)
EXTENDS DocSync, FileWatchProofs, SequenceTheorems

(***************************************************************************)
(* The stack of handlers                                                   *)
(***************************************************************************)
\* Handlers that are about no document in particular.
Homeless == {"do_stat", "close_all"}

\* Where a handler can be while another runs on top of it.
Suspended == Dialogs \cup Resumes \cup Homeless

\* Where a handler knows its file.
OnFile == {"do_save", "save_utf8", "save_local", "load_file", "load_text",
           "overwrite_modified_dialog", "save_error_dialog", "save_error_enc_dialog",
           "reload_modified_dialog", "try_encoding_dialog"}

Frames == {f \in Frame : /\ f.at \notin Homeless => f.doc \in Docs
                         /\ f.at \in OnFile => f.file \in Files}

SuspendedFrames == {f \in Frames : f.at \in Suspended}

GoodStack(s) ==
  /\ s \in Seq(Frames)
  /\ s # <<>> => Tail(s) \in Seq(SuspendedFrames)

\* What stands for no document, file or monitor is none.
LEMMA NoDocDistinct == NoDoc \notin Docs /\ NoFile \notin Files /\ 0 \notin Ids
  BY FileWatchAssumption DEF FileWatchAssumption, NoDoc, Docs

\* A call pushes a frame.
LEMMA Pushed ==
  ASSUME NEW s \in Seq(SuspendedFrames), NEW f \in Frames
  PROVE  LET t == <<f>> \o s
         IN /\ GoodStack(t) /\ t # <<>> /\ t[1] = f /\ Tail(t) = s
            /\ Len(t) = Len(s) + 1
            /\ \A k \in 1 .. Len(s) : t[k + 1] = s[k]
  <1> DEFINE t == <<f>> \o s
  <1>1. s \in Seq(Frames)
    BY SeqMonotonic DEF SuspendedFrames
  <1>2. <<f>> \in Seq(Frames) /\ Len(<<f>>) = 1 /\ <<f>>[1] = f /\ Len(s) \in Nat
    BY <1>1, LenProperties
  <1>3. /\ t \in Seq(Frames) /\ Len(t) = Len(s) + 1
        /\ \A k \in 1 .. Len(s) + 1 : t[k] = IF k <= 1 THEN <<f>>[k] ELSE s[k - 1]
    BY <1>1, <1>2, ConcatProperties
  <1> HIDE DEF t
  <1>4. t # <<>>
    BY <1>2, <1>3, EmptySeq
  <1>5. /\ Tail(t) \in Seq(Frames) /\ Len(Tail(t)) = Len(s)
        /\ \A k \in 1 .. Len(s) : Tail(t)[k] = s[k]
    BY <1>2, <1>3, <1>4, HeadTailProperties
  <1>6. Tail(t) = s
    BY <1>1, <1>5, SeqEqual
  <1>7. t[1] = f /\ \A k \in 1 .. Len(s) : t[k + 1] = s[k]
    BY <1>2, <1>3
  <1> QED
    BY <1>3, <1>4, <1>6, <1>7 DEF GoodStack, t

\* What is on the stack below the handler that runs.
LEMMA Popped ==
  ASSUME NEW s, GoodStack(s), s # <<>>
  PROVE  /\ s[1] \in Frames
         /\ Tail(s) \in Seq(SuspendedFrames) /\ GoodStack(Tail(s))
         /\ Tail(s) # <<>> => Tail(s)[1] \in SuspendedFrames
         /\ Len(Tail(s)) = Len(s) - 1 /\ Len(s) \in Nat
         /\ \A k \in 1 .. Len(s) - 1 : Tail(s)[k] = s[k + 1]
  <1>1. /\ s \in Seq(Frames) /\ Tail(s) \in Seq(SuspendedFrames)
        /\ Len(s) \in Nat \ {0}
    BY EmptySeq DEF GoodStack
  <1>2. s[1] \in Frames
    BY <1>1, ElementOfSeq
  <1>3. /\ Len(Tail(s)) = Len(s) - 1
        /\ \A k \in 1 .. Len(s) - 1 : Tail(s)[k] = s[k + 1]
    BY <1>1, HeadTailProperties
  <1>4. Tail(s) \in Seq(Frames)
    BY <1>1, SeqMonotonic DEF SuspendedFrames
  <1>5. Tail(s) # <<>> => /\ Tail(s)[1] \in SuspendedFrames
                          /\ Tail(Tail(s)) \in Seq(SuspendedFrames)
    BY <1>1, HeadTailProperties, EmptySeq, ElementOfSeq
  <1> QED
    BY <1>1, <1>2, <1>3, <1>4, <1>5 DEF GoodStack

\* A stack another handler may be pushed on.
LEMMA Suspendable ==
  ASSUME NEW s, GoodStack(s), s = <<>> \/ s[1].at \in Suspended
  PROVE  s \in Seq(SuspendedFrames)
  <1>1. CASE s = <<>>
    BY <1>1, EmptySeq
  <1>2. CASE s # <<>> /\ s[1].at \in Suspended
    <2>1. s[1] \in SuspendedFrames
      BY <1>2, Popped DEF SuspendedFrames
    <2>2. /\ s \in Seq(Frames) /\ Len(s) \in Nat
          /\ \A k \in 1 .. Len(s) - 1 : s[k + 1] = Tail(s)[k]
          /\ Tail(s) \in Seq(SuspendedFrames) /\ Len(Tail(s)) = Len(s) - 1
      BY <1>2, Popped DEF GoodStack
    <2>3. \A k \in 1 .. Len(s) - 1 : Tail(s)[k] \in SuspendedFrames
      BY <2>2, ElementOfSeq
    <2>4. ASSUME NEW k \in 1 .. Len(s) PROVE s[k] \in SuspendedFrames
      <3>1. CASE k = 1
        BY <2>1, <3>1
      <3>2. CASE k # 1
        <4>1. k - 1 \in 1 .. Len(s) - 1 /\ (k - 1) + 1 = k
          BY <2>2, <3>2
        <4> QED
          BY <2>2, <2>3, <4>1
      <3> QED
        BY <3>1, <3>2
    <2> QED
      BY <2>2, <2>4, LenProperties
  <1> QED
    BY <1>1, <1>2

OnCallback == stack # <<>> /\ Top.at = "file_watch_callback"

\* The handlers below the one that runs are all still there.
BelowKept == \A k \in 2 .. Len(stack) : \E j \in 1 .. Len(stack') : stack'[j] = stack[k]

\* A step that moves the stack away from the callback of the file watch.
StackMoved == GoodStack(stack') /\ ~OnCallback' /\ BelowKept

Labels == Dialogs \cup Calls \cup Resumes

\* The frame of a handler that goes on at a, on file x.
LEMMA FrameMoved ==
  ASSUME NEW f \in Frames, NEW a \in Labels, NEW x \in Files \cup {NoFile},
         f.doc \in Docs, a # "do_stat", a \in OnFile => x \in Files
  PROVE  [f EXCEPT !.at = a, !.file = x] \in Frames
  BY DEF Frames, Frame, Labels

\* The frame of a handler that goes on at a, with the text x in hand.
LEMMA FrameWithData ==
  ASSUME NEW f \in Frames, NEW a \in Labels, NEW x \in Texts,
         f.doc \in Docs, a # "do_stat", a \in OnFile => f.file \in Files
  PROVE  [f EXCEPT !.data = x, !.at = a] \in Frames
  BY DEF Frames, Frame, Labels

\* The frame of a call that needs no file.
LEMMA CallFrame ==
  ASSUME NEW d \in Docs, NEW a \in Labels, a # "do_stat", a \notin OnFile
  PROVE  Call(a, d) \in Frames /\ Call(a, d).at = a /\ Call(a, d).doc = d
  BY DocSyncAssumption DEF DocSyncAssumption, Call, Frames, Frame, Labels

\* The handler on top goes on at f.
LEMMA Went ==
  ASSUME GoodStack(stack), stack # <<>>, NEW f \in Frames, Goto(f),
         f.at # "file_watch_callback"
  PROVE  StackMoved /\ stack' # <<>> /\ stack'[1] = f /\ Tail(stack') = Tail(stack)
  <1>1. /\ Tail(stack) \in Seq(SuspendedFrames) /\ Len(stack) \in Nat
        /\ Len(Tail(stack)) = Len(stack) - 1
        /\ \A k \in 1 .. Len(stack) - 1 : Tail(stack)[k] = stack[k + 1]
    BY Popped
  <1>2. /\ GoodStack(stack') /\ stack' # <<>> /\ stack'[1] = f /\ Tail(stack') = Tail(stack)
        /\ Len(stack') = Len(stack)
        /\ \A k \in 1 .. Len(stack) - 1 : stack'[k + 1] = Tail(stack)[k]
    <2> DEFINE s == Tail(stack)
    <2>1. stack' = <<f>> \o s /\ s \in Seq(SuspendedFrames)
          /\ Len(s) = Len(stack) - 1 /\ Len(stack) \in Nat
      BY <1>1 DEF Goto
    <2> HIDE DEF s
    <2>2. /\ GoodStack(stack') /\ stack' # <<>> /\ stack'[1] = f /\ Tail(stack') = s
          /\ Len(stack') = Len(s) + 1
          /\ \A k \in 1 .. Len(s) : stack'[k + 1] = s[k]
      BY <2>1, Pushed
    <2> QED
      BY <2>1, <2>2 DEF s
  <1>3. BelowKept
    <2> SUFFICES ASSUME NEW k \in 2 .. Len(stack) PROVE stack'[k] = stack[k]
      BY <1>1, <1>2 DEF BelowKept
    <2>1. k - 1 \in 1 .. Len(stack) - 1 /\ (k - 1) + 1 = k
      BY <1>1
    <2> QED
      BY <1>1, <1>2, <2>1
  <1> QED
    BY <1>2, <1>3 DEF StackMoved, OnCallback, Top

\* The handler on top returns.
LEMMA Returned ==
  ASSUME GoodStack(stack), stack # <<>>, stack' = Tail(stack)
  PROVE  StackMoved
  <1>1. /\ GoodStack(Tail(stack)) /\ (Tail(stack) # <<>> => Tail(stack)[1] \in SuspendedFrames)
        /\ Len(stack) \in Nat /\ Len(Tail(stack)) = Len(stack) - 1
        /\ \A k \in 1 .. Len(stack) - 1 : Tail(stack)[k] = stack[k + 1]
    BY Popped
  <1>2. BelowKept
    <2> SUFFICES ASSUME NEW k \in 2 .. Len(stack)
                 PROVE  \E j \in 1 .. Len(stack') : stack'[j] = stack[k]
      BY DEF BelowKept
    <2>1. k - 1 \in 1 .. Len(stack') /\ stack'[k - 1] = stack[(k - 1) + 1] /\ (k - 1) + 1 = k
      BY <1>1
    <2> QED
      BY <2>1
  <1> QED
    BY <1>1, <1>2 DEF StackMoved, OnCallback, Top, SuspendedFrames, Suspended, Dialogs, Resumes,
                       Homeless

\* A handler that runs, and its document.
LEMMA Running ==
  ASSUME GoodStack(stack), stack # <<>>
  PROVE  /\ Top \in Frames /\ Top \in Frame
         /\ Top.at \notin Homeless => D \in Docs
         /\ Top.at \in OnFile => Top.file \in Files
  BY Popped DEF Top, D, Frames

\* Where Top goes on at a under the file it has, or under another.
LEMMA WentTo ==
  ASSUME GoodStack(stack), stack # <<>>, Top.at \notin Homeless,
         NEW a \in Labels, a # "do_stat", a # "file_watch_callback",
         NEW x \in Files \cup {NoFile}, a \in OnFile => x \in Files,
         NEW f, f = [Top EXCEPT !.at = a, !.file = x], Goto(f)
  PROVE  StackMoved
  <1>1. Top \in Frames /\ Top.doc \in Docs
    BY Running DEF D
  <1>2. f \in Frames
    BY <1>1, FrameMoved
  <1>3. f.at = a
    BY <1>1 DEF Frames, Frame
  <1> QED
    BY <1>2, <1>3, Went

USE DEF Labels, Dialogs, Calls, Resumes, OnFile, Homeless

\* The functions that save move the stack as calls and returns do.
LEMMA SavingStack ==
  ASSUME TypeOK, GoodStack(stack), Saving
  PROVE  StackMoved
  <1>1. stack # <<>> /\ Top.at \notin Homeless
    BY DEF Saving, Save, CancelSave, DoSave, SaveUtf8, SaveLocal, At, Top
  <1>2. /\ Top \in Frames /\ Top \in Frame /\ D \in Docs /\ doc[D] \in Doc
        /\ Top.at \in OnFile => Top.file \in Files
    BY <1>1, Running DEF TypeOK
  <1>3. ASSUME NEW a \in {"save_local", "save_error_dialog", "save_error_enc_dialog"},
               NEW f, f = [Top EXCEPT !.at = a], Top.at \in OnFile, Goto(f)
        PROVE  StackMoved
    <2>1. f = [Top EXCEPT !.at = a, !.file = Top.file]
      BY <1>2, <1>3 DEF Frame
    <2> QED
      BY <1>1, <1>2, <1>3, <2>1, WentTo
  <1>4. ASSUME NEW x, DoWrite(x), x \in Texts, Top.at \in OnFile PROVE StackMoved
    <2>1. CASE Goto([Top EXCEPT !.at = "save_local", !.data = x])
      <3> DEFINE f == [Top EXCEPT !.at = "save_local", !.data = x]
      <3>1. f \in Frames /\ f.at # "file_watch_callback"
        BY <1>2, <1>4 DEF Frames, Frame
      <3> QED
        BY <1>1, <2>1, <3>1, Went
    <2>2. CASE Goto([Top EXCEPT !.at = "save_error_dialog"])
      BY <1>3, <1>4, <2>2
    <2> QED
      BY <1>4, <2>1, <2>2 DEF DoWrite
  <1>5. CASE Save
    <2> DEFINE asks(a) == [Top EXCEPT !.file = doc[D].filename, !.at = a]
    <2>1. doc[D].filename \in Files \cup {NoFile}
      BY <1>2 DEF Doc
    <2>2. ASSUME NEW a \in {"save_as_dialog", "overwrite_modified_dialog", "do_save"},
                 a # "save_as_dialog" => doc[D].filename \in Files, Goto(asks(a))
          PROVE  StackMoved
      <3>1. asks(a) = [Top EXCEPT !.at = a, !.file = doc[D].filename]
        BY <1>2 DEF Frame
      <3> QED
        BY <1>1, <2>1, <2>2, <3>1, WentTo
    <2>3. CASE doc[D].filename = NoFile
      <3>1. Goto(asks("save_as_dialog"))
        BY <1>5, <2>3 DEF Save
      <3> QED
        BY <2>2, <3>1
    <2>4. CASE doc[D].filename # NoFile /\ "MODIFIED_ON_DISK" \in doc[D].status
      <3>1. Goto(asks("overwrite_modified_dialog"))
        BY <1>5, <2>4 DEF Save
      <3> QED
        BY <2>1, <2>2, <2>4, <3>1
    <2>5. CASE doc[D].filename # NoFile /\ "MODIFIED_ON_DISK" \notin doc[D].status
      <3>1. Goto(asks("do_save"))
        BY <1>5, <2>5 DEF Save
      <3> QED
        BY <2>1, <2>2, <2>5, <3>1
    <2> QED
      BY <2>3, <2>4, <2>5
  <1>6. CASE CancelSave
    BY <1>1, <1>6, Returned DEF CancelSave, Return
  <1>7. CASE DoSave
    <2>1. WillSave(doc[D]).text \in Texts
      BY <1>2, DocSyncAssumption
         DEF DocSyncAssumption, WillSave, Edited, ModifiedChanged, Doc
    <2>2. Top.at \in OnFile
      BY <1>7 DEF DoSave, At, Top
    <2> QED
      BY <1>3, <1>4, <1>7, <2>1, <2>2 DEF DoSave
  <1>8. CASE SaveUtf8
    BY <1>2, <1>4, <1>8 DEF SaveUtf8, Doc, At, Top
  <1>9. CASE SaveLocal
    BY <1>1, <1>9, Returned DEF SaveLocal, Return
  <1> QED
    BY <1>5, <1>6, <1>7, <1>8, <1>9 DEF Saving

\* So do those that load,
LEMMA LoadingStack ==
  ASSUME TypeOK, GoodStack(stack), Loading
  PROVE  StackMoved
  <1>1. stack # <<>> /\ Top.at \notin Homeless
    BY DEF Loading, Reload, LoadFile, LoadText, OpenAfterLoad, NewDocAfterSaveAs, At, Top
  <1>2. /\ Top \in Frames /\ Top \in Frame /\ D \in Docs /\ doc[D] \in Doc
        /\ Top.at \in OnFile => Top.file \in Files
    BY <1>1, Running DEF TypeOK
  <1>3. CASE Reload
    <2>1. CASE doc[D].filename = NoFile
      BY <1>1, <1>3, <2>1, Returned DEF Reload, Return
    <2>2. CASE doc[D].filename # NoFile
      <3>1. doc[D].filename \in Files
        BY <1>2, <2>2 DEF Doc
      <3>2. PICK a \in {"reload_modified_dialog", "load_file"} :
              Goto([Top EXCEPT !.file = doc[D].filename, !.at = a])
        BY <1>3, <2>2 DEF Reload
      <3>3. [Top EXCEPT !.file = doc[D].filename, !.at = a]
              = [Top EXCEPT !.at = a, !.file = doc[D].filename]
        BY <1>2 DEF Frame
      <3> QED
        BY <1>1, <3>1, <3>2, <3>3, WentTo
    <2> QED
      BY <2>1, <2>2
  <1>4. CASE LoadFile
    <2>1. Top.file \in Files
      BY <1>2, <1>4 DEF LoadFile, At, Top
    <2>2. CASE Exists(Top.file)
      <3>1. PICK a \in {"try_encoding_dialog", "load_text"} :
              Goto([Top EXCEPT !.data = contents[Top.file], !.at = a])
        BY <1>4, <2>2 DEF LoadFile
      <3>2. contents[Top.file] \in Texts
        BY <2>1 DEF TypeOK
      <3> DEFINE f == [Top EXCEPT !.data = contents[Top.file], !.at = a]
      <3>3. f \in Frames
        BY <1>2, <2>1, <3>2, FrameWithData DEF D
      <3>4. f.at # "file_watch_callback"
        BY <1>2 DEF Frame
      <3> QED
        BY <1>1, <3>1, <3>3, <3>4, Went
    <2>3. CASE ~Exists(Top.file)
      <3>1. Goto([Top EXCEPT !.at = "load_error_dialog"])
        BY <1>4, <2>3 DEF LoadFile
      <3>2. [Top EXCEPT !.at = "load_error_dialog"]
              = [Top EXCEPT !.at = "load_error_dialog", !.file = Top.file]
        BY <1>2 DEF Frame
      <3> QED
        BY <1>1, <2>1, <3>1, <3>2, WentTo
    <2> QED
      BY <2>2, <2>3
  <1>5. CASE LoadText
    BY <1>1, <1>5, Returned DEF LoadText, Return
  <1>6. CASE OpenAfterLoad
    BY <1>1, <1>6, Returned DEF OpenAfterLoad
  <1>7. CASE NewDocAfterSaveAs
    <2>1. [Top EXCEPT !.at = "close"] = [Top EXCEPT !.at = "close", !.file = Top.file]
          /\ Top.file \in Files \cup {NoFile}
      BY <1>2 DEF Frame
    <2> QED
      BY <1>1, <1>7, <2>1, Returned, WentTo DEF NewDocAfterSaveAs, Return
  <1> QED
    BY <1>3, <1>4, <1>5, <1>6, <1>7 DEF Loading

\* and those that close.
LEMMA ClosingStack ==
  ASSUME TypeOK, GoodStack(stack), Closing
  PROVE  StackMoved
  <1>1. stack # <<>> /\ Top.at \notin Homeless
    BY DEF Closing, Close, CloseAfterSave, DoCloseDoc, WindowEmptied, At, Top
  <1>2. Top \in Frame /\ Top.file \in Files \cup {NoFile}
    BY <1>1, Running DEF Frame
  <1>3. ASSUME NEW a \in {"save_changes_dialog", "do_close_doc"}, Goto([Top EXCEPT !.at = a])
        PROVE  StackMoved
    <2>1. [Top EXCEPT !.at = a] = [Top EXCEPT !.at = a, !.file = Top.file]
      BY <1>2 DEF Frame
    <2> QED
      BY <1>1, <1>2, <1>3, <2>1, WentTo
  <1>4. CASE Close
    BY <1>3, <1>4 DEF Close
  <1>5. CASE CloseAfterSave
    BY <1>1, <1>3, <1>5, Returned DEF CloseAfterSave, Return
  <1>6. CASE DoCloseDoc
    BY <1>1, <1>6, Returned DEF DoCloseDoc, Return
  <1>7. CASE WindowEmptied
    BY <1>1, <1>7, Returned DEF WindowEmptied, Return
  <1> QED
    BY <1>4, <1>5, <1>6, <1>7 DEF Closing

\* A call to f, after which the caller goes on at g.
LEMMA PushedTwo ==
  ASSUME NEW s \in Seq(SuspendedFrames), NEW f \in Frames, NEW g \in SuspendedFrames
  PROVE  LET t == <<f, g>> \o s
         IN /\ GoodStack(t) /\ t # <<>> /\ t[1] = f
            /\ Len(t) = Len(s) + 2
            /\ t[2] = g
            /\ \A k \in 1 .. Len(s) : t[k + 2] = s[k]
  <1>1. g \in Frames
    BY DEF SuspendedFrames
  <1> DEFINE u == <<g>> \o s
             t == <<f>> \o u
  <1>2. /\ GoodStack(u) /\ u # <<>> /\ u[1] = g /\ Len(u) = Len(s) + 1
        /\ \A k \in 1 .. Len(s) : u[k + 1] = s[k]
    BY <1>1, Pushed
  <1>3. u \in Seq(SuspendedFrames)
    BY <1>2, Suspendable DEF SuspendedFrames
  <1>4. Len(s) \in Nat /\ s \in Seq(Frames)
    BY LenProperties, SeqMonotonic DEF SuspendedFrames
  <1>5. <<f, g>> \o s = t
    <2> DEFINE one == <<f>> \o <<g>>
               two == <<f, g>>
    <2>1. /\ <<f>> \in Seq(Frames) /\ <<g>> \in Seq(Frames) /\ <<f, g>> \in Seq(Frames)
          /\ Len(<<f>>) = 1 /\ Len(<<g>>) = 1 /\ Len(<<f, g>>) = 2
          /\ <<f>>[1] = f /\ <<g>>[1] = g /\ <<f, g>>[1] = f /\ <<f, g>>[2] = g
      BY <1>1
    <2>2. /\ <<f>> \o <<g>> \in Seq(Frames) /\ Len(<<f>> \o <<g>>) = 2
          /\ (<<f>> \o <<g>>)[1] = f /\ (<<f>> \o <<g>>)[2] = g
      BY <2>1, ConcatProperties
    <2>3. one \o s = t
      BY <1>4, <2>1, ConcatAssociative
    <2>4. /\ one \in Seq(Frames) /\ two \in Seq(Frames) /\ Len(one) = Len(two)
          /\ \A k \in 1 .. Len(one) : one[k] = two[k]
      BY <2>1, <2>2
    <2> HIDE DEF one, two
    <2>5. one = two
      BY <2>4, SeqEqual
    <2> QED
      BY <2>3, <2>5 DEF two
  <1> HIDE DEF u
  <1>6. /\ GoodStack(t) /\ t # <<>> /\ t[1] = f /\ Len(t) = Len(u) + 1
        /\ \A k \in 1 .. Len(u) : t[k + 1] = u[k]
    BY <1>3, Pushed
  <1> HIDE DEF t
  <1>7. t[2] = g
    BY <1>2, <1>4, <1>6
  <1>8. \A k \in 1 .. Len(s) : t[k + 2] = s[k]
    <2> TAKE k \in 1 .. Len(s)
    <2>1. k + 1 \in 1 .. Len(u) /\ (k + 1) + 1 = k + 2
      BY <1>2, <1>4
    <2> QED
      BY <1>2, <1>6, <2>1
  <1>9. Len(t) = Len(s) + 2
    BY <1>2, <1>4, <1>6
  <1> QED
    BY <1>5, <1>6, <1>7, <1>8, <1>9

\* Two frames, one pushed after the other.
LEMMA TwoFrames ==
  ASSUME NEW f \in Frames, NEW g \in Frames
  PROVE  <<f>> \o <<g>> = <<f, g>> /\ <<f>> \o <<>> = <<f>>
  <1> DEFINE one == <<f>> \o <<g>>
             two == <<f, g>>
  <1>1. /\ <<f>> \in Seq(Frames) /\ <<g>> \in Seq(Frames) /\ two \in Seq(Frames)
        /\ Len(<<f>>) = 1 /\ Len(<<g>>) = 1 /\ Len(two) = 2
        /\ <<f>>[1] = f /\ <<g>>[1] = g /\ two[1] = f /\ two[2] = g
    OBVIOUS
  <1>2. one \in Seq(Frames) /\ Len(one) = 2 /\ one[1] = f /\ one[2] = g
    BY <1>1, ConcatProperties
  <1> HIDE DEF one, two
  <1>3. one = two
    BY <1>1, <1>2, SeqEqual
  <1>4. <<f>> \o <<>> = <<f>>
    BY <1>1, ConcatEmptySeq
  <1> QED
    BY <1>3, <1>4 DEF one, two

\* A call from a handler that stays on the stack, or from the main loop.
LEMMA PushedOver ==
  ASSUME GoodStack(stack), stack = <<>> \/ Top.at \in Suspended,
         NEW f \in Frames, Push(f)
  PROVE  /\ GoodStack(stack') /\ stack' # <<>> /\ Top' = f /\ BelowKept
         /\ Len(stack) \in Nat /\ Len(stack') = Len(stack) + 1
         /\ \A k \in 1 .. Len(stack) : stack'[k + 1] = stack[k]
  <1> DEFINE s == stack
             t == stack'
  <1>1. s \in Seq(SuspendedFrames) /\ t = <<f>> \o s
    BY Suspendable DEF Push, Top
  <1>2. s \in Seq(Frames) /\ Len(s) \in Nat
    BY LenProperties DEF GoodStack
  <1> HIDE DEF s, t
  <1>3. /\ GoodStack(t) /\ t # <<>> /\ t[1] = f /\ Len(t) = Len(s) + 1
        /\ \A k \in 1 .. Len(s) : t[k + 1] = s[k]
    BY <1>1, Pushed
  <1>4. \A k \in 2 .. Len(s) : k \in 1 .. Len(s) /\ k + 1 \in 1 .. Len(t)
    BY <1>2, <1>3
  <1>5. \A k \in 2 .. Len(s) : \E j \in 1 .. Len(t) : t[j] = s[k]
    BY <1>3, <1>4
  <1> QED
    BY <1>2, <1>3, <1>5 DEF s, t, BelowKept, Top

\* A quit waits for each window it closes, and returns.
LEMMA CloseAllStack ==
  ASSUME TypeOK, GoodStack(stack), CloseAll
  PROVE  StackMoved
  <1>1. stack # <<>> /\ Top.at = "close_all"
    BY DEF CloseAll, CloseWindow, QuitCancelled, DoQuit, At, Top
  <1>2. ASSUME NEW d \in Docs, CloseWindow(d) PROVE StackMoved
    <2> DEFINE f == Call("close", d)
    <2>1. f \in Frames /\ f.at = "close"
      BY CallFrame
    <2>2. Push(f)
      BY <1>2 DEF CloseWindow
    <2> HIDE DEF f
    <2> QED
      BY <1>1, <2>1, <2>2, PushedOver DEF StackMoved, OnCallback, Suspended
  <1>3. CASE QuitCancelled \/ DoQuit
    BY <1>1, <1>3, Returned DEF QuitCancelled, DoQuit, Return
  <1> QED
    BY <1>2, <1>3 DEF CloseAll

\* The handler on top waits at g for a call to f.
LEMMA WentTwo ==
  ASSUME GoodStack(stack), stack # <<>>, NEW f \in Frames, NEW g \in SuspendedFrames,
         stack' = <<f, g>> \o Tail(stack), f.at # "file_watch_callback"
  PROVE  StackMoved /\ stack' # <<>> /\ Top' = f /\ Len(stack') >= 2 /\ stack'[2] = g
  <1> DEFINE s == Tail(stack)
             t == stack'
  <1>1. /\ s \in Seq(SuspendedFrames) /\ t = <<f, g>> \o s
        /\ Len(stack) \in Nat /\ Len(s) = Len(stack) - 1
        /\ \A k \in 1 .. Len(stack) - 1 : s[k] = stack[k + 1]
    BY Popped
  <1>2. Len(s) \in Nat
    BY <1>1, LenProperties
  <1> HIDE DEF s, t
  <1>3. /\ GoodStack(t) /\ t # <<>> /\ t[1] = f /\ Len(t) = Len(s) + 2 /\ t[2] = g
        /\ \A k \in 1 .. Len(s) : t[k + 2] = s[k]
    BY <1>1, PushedTwo
  <1>4. \A k \in 2 .. Len(stack) : \E j \in 1 .. Len(t) : t[j] = stack[k]
    <2> SUFFICES ASSUME NEW k \in 2 .. Len(stack)
                 PROVE  \E j \in 1 .. Len(t) : t[j] = stack[k]
      OBVIOUS
    <2>1. k - 1 \in 1 .. Len(s) /\ (k - 1) + 1 = k /\ (k - 1) + 2 \in 1 .. Len(t)
      BY <1>1, <1>3
    <2>2. t[(k - 1) + 2] = s[k - 1] /\ s[k - 1] = stack[(k - 1) + 1]
      BY <1>1, <1>3, <2>1
    <2> QED
      BY <2>1, <2>2
  <1> QED
    BY <1>2, <1>3, <1>4 DEF t, StackMoved, BelowKept, OnCallback, Top

\* The handlers of the autosync timer: a call of save that they wait for.
LEMMA AutosyncStack ==
  ASSUME TypeOK, GoodStack(stack), Autosync
  PROVE  StackMoved
  <1>1. ASSUME NEW t \in Timers, TimerFires(t) PROVE StackMoved
    <2>1. timers[t] \in Docs
      BY <1>1 DEF TimerFires, TypeOK
    <2> DEFINE f == Call("autosync_callback", timers[t])
    <2>2. f \in Frames /\ f.at = "autosync_callback"
      BY <2>1, CallFrame
    <2>3. (stack = <<>> \/ Top.at \in Suspended) /\ Push(f)
      BY <1>1 DEF TimerFires, MainLoop, Suspended, Top
    <2> HIDE DEF f
    <2> QED
      BY <2>2, <2>3, PushedOver DEF StackMoved, OnCallback
  <1>2. ASSUME stack # <<>>, Top.at = "autosync_callback",
               stack' = <<Call("save", D), [Top EXCEPT !.at = "autosync_after_save"]>>
                          \o Tail(stack)
        PROVE  StackMoved
    <2> DEFINE f == Call("save", D)
               g == [Top EXCEPT !.at = "autosync_after_save"]
    <2>1. Top \in Frames /\ D \in Docs
      BY <1>2, Running
    <2>2. f \in Frames /\ f.at = "save"
      BY <2>1, CallFrame
    <2>3. g \in SuspendedFrames
      BY <2>1, <1>2 DEF Frames, Frame, SuspendedFrames, Suspended, D
    <2> HIDE DEF f, g
    <2> QED
      BY <1>2, <2>2, <2>3, WentTwo DEF f, g
  <1>3. CASE AutosyncCallback
    BY <1>2, <1>3, Returned DEF AutosyncCallback, Return, At, Top
  <1>4. CASE AutosyncAfterSave
    BY <1>4, Returned DEF AutosyncAfterSave, Return, At
  <1> QED
    BY <1>1, <1>3, <1>4 DEF Autosync

\* The user's answers to the dialogs.
LEMMA AnswersStack ==
  ASSUME TypeOK, GoodStack(stack), Answers
  PROVE  StackMoved
  <1>1. stack # <<>> /\ Top.at \notin Homeless
    BY DEF Answers, AnswerOverwriteModified, AnswerReloadModified, AnswerSaveErrorEnc,
           AnswerSaveAs, AnswerSaveChanges, AcknowledgeSaveError, AcknowledgeLoadError,
           AnswerTryEncoding, CancelTryEncoding, Asking, Top
  <1>2. /\ Top \in Frames /\ Top \in Frame /\ D \in Docs
        /\ Top.at \in OnFile => Top.file \in Files
        /\ Top.file \in Files \cup {NoFile}
    BY <1>1, Running DEF Frame
  <1>3. ASSUME NEW a \in {"do_save", "save_utf8", "load_file", "load_text"},
               Top.at \in OnFile, Goto([Top EXCEPT !.at = a])
        PROVE  StackMoved
    <2>1. [Top EXCEPT !.at = a] = [Top EXCEPT !.at = a, !.file = Top.file]
      BY <1>2 DEF Frame
    <2> QED
      BY <1>1, <1>2, <1>3, <2>1, WentTo
  <1>4. ASSUME NEW yes \in BOOLEAN,
               \/ AnswerOverwriteModified(yes)
               \/ AnswerReloadModified(yes)
               \/ AnswerSaveErrorEnc(yes)
        PROVE  StackMoved
    <2>1. Top.at \in OnFile
      BY <1>4 DEF AnswerOverwriteModified, AnswerReloadModified, AnswerSaveErrorEnc, Asking, Top
    <2> QED
      BY <1>1, <1>3, <1>4, <2>1, Returned
         DEF AnswerOverwriteModified, AnswerReloadModified, AnswerSaveErrorEnc, Return
  <1>5. ASSUME NEW f \in Files \cup {NoFile}, AnswerSaveAs(f) PROVE StackMoved
    <2>1. CASE f \in Files
      BY <1>1, <1>5, <2>1, WentTo DEF AnswerSaveAs
    <2>2. CASE f \notin Files
      BY <1>1, <1>5, <2>2, Returned DEF AnswerSaveAs, Return
    <2> QED
      BY <2>1, <2>2
  <1>6. ASSUME NEW answer \in {"save", "discard", "cancel"}, AnswerSaveChanges(answer)
        PROVE  StackMoved
    <2>1. CASE answer = "save"
      <3> DEFINE f == Call("save", D)
                 g == [Top EXCEPT !.at = "close_after_save"]
      <3>1. f \in Frames /\ f.at = "save"
        BY <1>2, CallFrame
      <3>2. g \in SuspendedFrames
        BY <1>2 DEF Frames, Frame, SuspendedFrames, Suspended, D
      <3>3. stack' = <<f, g>> \o Tail(stack)
        BY <1>6, <2>1 DEF AnswerSaveChanges
      <3> HIDE DEF f, g
      <3> QED
        BY <1>1, <3>1, <3>2, <3>3, WentTwo
    <2>2. CASE answer = "discard"
      <3> DEFINE f == [Top EXCEPT !.at = "do_close_doc", !.code = answer]
      <3>1. f \in Frames /\ f.at # "file_watch_callback"
        BY <1>2, <2>2 DEF Frames, Frame, D
      <3>2. Goto(f)
        BY <1>6, <2>2 DEF AnswerSaveChanges
      <3> HIDE DEF f
      <3> QED
        BY <1>1, <3>1, <3>2, Went
    <2>3. CASE answer = "cancel"
      BY <1>1, <1>6, <2>3, Returned DEF AnswerSaveChanges, Return
    <2> QED
      BY <2>1, <2>2, <2>3
  <1>7. CASE AcknowledgeSaveError \/ AcknowledgeLoadError \/ CancelTryEncoding
    BY <1>1, <1>7, Returned
       DEF AcknowledgeSaveError, AcknowledgeLoadError, CancelTryEncoding, Return
  <1>8. CASE AnswerTryEncoding
    <2>1. Top.at \in OnFile
      BY <1>8 DEF AnswerTryEncoding, Asking, Top
    <2> QED
      BY <1>3, <1>8, <2>1 DEF AnswerTryEncoding
  <1> QED
    BY <1>4, <1>5, <1>6, <1>7, <1>8 DEF Answers

\* The user's commands, in a main loop: what the stack may become.
LEMMA UserStack ==
  ASSUME TypeOK, GoodStack(stack), User
  PROVE  /\ GoodStack(stack') /\ ~OnCallback' /\ BelowKept
         /\ stack = <<>> \/ Top.at \in Dialogs
  <1> DEFINE Result == /\ GoodStack(stack') /\ ~OnCallback' /\ BelowKept
                       /\ stack = <<>> \/ Top.at \in Dialogs
  <1>1. ASSUME stack' = stack, stack = <<>> \/ Top.at \in Dialogs PROVE Result
    BY <1>1 DEF BelowKept, OnCallback, Top
  <1>2. ASSUME NEW f \in Frames, stack = <<>> \/ Top.at \in Dialogs,
               Push(f), f.at # "file_watch_callback"
        PROVE  Result
    BY <1>2, PushedOver DEF Suspended, OnCallback
  <1>3. ASSUME NEW d \in Docs, stack = <<>>,
               stack' = <<Call("save_as_dialog", d), Call("new_doc_after_save_as", d)>>
        PROVE  Result
    <2> DEFINE f == Call("save_as_dialog", d)
               g == Call("new_doc_after_save_as", d)
    <2>1. /\ f \in Frames /\ g \in Frames /\ f.at = "save_as_dialog"
          /\ g.at = "new_doc_after_save_as"
      BY CallFrame
    <2>2. g \in SuspendedFrames
      BY <2>1 DEF SuspendedFrames, Suspended
    <2> HIDE DEF f, g
    <2>3. <<f, g>> = <<f>> \o <<g>>
      BY <2>1, TwoFrames
    <2>4. GoodStack(<<f, g>>) /\ <<f, g>>[1] = f
      <3> DEFINE s == <<g>>
      <3>1. s \in Seq(SuspendedFrames)
        BY <2>2
      <3> HIDE DEF s
      <3>2. LET t == <<f>> \o s IN GoodStack(t) /\ t[1] = f
        BY <2>1, <3>1, Pushed
      <3> QED
        BY <2>3, <3>2 DEF s
    <2>5. stack' = <<f, g>>
      BY <1>3 DEF f, g
    <2>6. BelowKept
      BY <1>3 DEF BelowKept
    <2> QED
      BY <1>3, <2>1, <2>4, <2>5, <2>6 DEF OnCallback, Top
  <1>4. ASSUME NEW d \in Docs, NewDoc(d) PROVE Result
    BY <1>1, <1>3, <1>4 DEF NewDoc, Idle
  <1>5. ASSUME NEW d \in Docs, Reopen(d) PROVE Result
    <2> DEFINE f == [Call("load_file", d) EXCEPT !.file = doc[d].filename]
    <2>1. doc[d].filename \in Files
      BY <1>5 DEF Reopen, TypeOK, Doc
    <2>2. f \in Frames /\ f.at = "load_file"
      BY <2>1, DocSyncAssumption DEF DocSyncAssumption, Call, Frames, Frame
    <2>3. Push(f) /\ (stack = <<>> \/ Top.at \in Dialogs)
      BY <1>5 DEF Reopen, MainLoop, Top
    <2> HIDE DEF f
    <2> QED
      BY <1>2, <2>2, <2>3
  <1>6. ASSUME NEW d \in Docs, NEW f \in Files, NEW create \in BOOLEAN, OpenFile(d, f, create)
        PROVE  Result
    <2> DEFINE g == [Call("load_file", d) EXCEPT !.file = f]
               h == Call("open_after_load", d)
    <2>1. stack = <<>> \/ Top.at \in Dialogs
      BY <1>6 DEF OpenFile, MainLoop, Top
    <2>2. g \in Frames /\ g.at = "load_file"
      BY DocSyncAssumption DEF DocSyncAssumption, Call, Frames, Frame
    <2>3. h \in Frames /\ h.at = "open_after_load"
      BY CallFrame
    <2>4. h \in SuspendedFrames
      BY <2>3 DEF SuspendedFrames, Suspended
    <2>5. CASE UNCHANGED stack
      BY <1>1, <2>1, <2>5
    <2>6. CASE stack' = (<<g>> \o <<>>) \o stack
      <3> HIDE DEF g
      <3>1. stack' = <<g>> \o stack
        BY <2>2, <2>3, <2>6, TwoFrames
      <3> QED
        BY <1>2, <2>1, <2>2, <3>1 DEF Push
    <2>7. CASE stack' = (<<g>> \o <<h>>) \o stack
      <3> HIDE DEF g, h
      <3> DEFINE s == stack
                 t == stack'
      <3>2. t = <<g, h>> \o s
        BY <2>2, <2>3, <2>7, TwoFrames
      <3>3. s \in Seq(SuspendedFrames)
        BY <2>1, Suspendable DEF Suspended, Top
      <3>4. Len(s) \in Nat
        BY <3>3, LenProperties
      <3> HIDE DEF s, t
      <3>5. /\ GoodStack(t) /\ t # <<>> /\ t[1] = g /\ Len(t) = Len(s) + 2
            /\ \A k \in 1 .. Len(s) : t[k + 2] = s[k]
        BY <2>2, <2>4, <3>2, <3>3, PushedTwo
      <3>6. \A k \in 2 .. Len(s) : k \in 1 .. Len(s) /\ k + 2 \in 1 .. Len(t)
        BY <3>4, <3>5
      <3>7. \A k \in 2 .. Len(s) : \E j \in 1 .. Len(t) : t[j] = s[k]
        BY <3>5, <3>6
      <3> QED
        BY <2>1, <2>2, <3>5, <3>7 DEF s, t, BelowKept, OnCallback, Top
    <2>8. CASE ~(create /\ fs[f].err = "ENOENT") /\ ~doc[d].open
      <3>1. stack' = (<<g>> \o <<h>>) \o stack
        BY <1>6, <2>8 DEF OpenFile
      <3> QED
        BY <2>7, <3>1
    <2>9. CASE ~(create /\ fs[f].err = "ENOENT") /\ doc[d].open
      <3>1. stack' = (<<g>> \o <<>>) \o stack
        BY <1>6, <2>9 DEF OpenFile
      <3> QED
        BY <2>6, <3>1
    <2>10. CASE create /\ fs[f].err = "ENOENT"
      BY <1>6, <2>5, <2>10 DEF OpenFile
    <2> QED
      BY <2>8, <2>9, <2>10
  <1>7. ASSUME NEW d \in Docs, NEW c \in {"save", "save_as_dialog", "reload", "close"},
               UserCommand(d, c)
        PROVE  Result
    <2> DEFINE f == Call(c, d)
    <2>1. f \in Frames /\ f.at # "file_watch_callback"
      BY CallFrame
    <2>2. stack = <<>> /\ stack' = <<f>>
      BY <1>7 DEF UserCommand, Idle
    <2> HIDE DEF f
    <2>3. Push(f)
      BY <2>1, <2>2, TwoFrames DEF Push
    <2> QED
      BY <1>2, <2>1, <2>2, <2>3
  <1>8. ASSUME stack = <<>>, stack' = stack PROVE Result
    BY <1>1, <1>8
  <1>9. ASSUME NEW d \in Docs, UndoToSaved(d) PROVE Result
    BY <1>8, <1>9 DEF UndoToSaved, Idle
  <1>10. ASSUME NEW d \in Docs, NEW clean \in BOOLEAN, SetClean(d, clean) PROVE Result
    BY <1>8, <1>10 DEF SetClean, Idle
  <1>11. ASSUME NEW d \in Docs, NEW x \in Texts, Type(d, x) PROVE Result
    BY <1>8, <1>11 DEF Type, Idle
  <1>12. ASSUME NEW b \in Prefs, SetPref(b) PROVE Result
    BY <1>8, <1>12 DEF SetPref, Idle
  <1>13. ASSUME NEW d \in Docs, NewUntitled(d) PROVE Result
    BY <1>1, <1>13 DEF NewUntitled, MainLoop, Top
  <1>14. ASSUME Quit PROVE Result
    <2> DEFINE f == Call("close_all", NoDoc)
    <2>1. f \in Frames /\ f.at = "close_all"
      BY DocSyncAssumption DEF DocSyncAssumption, Call, Frames, Frame
    <2>2. Push(f) /\ (stack = <<>> \/ Top.at \in Dialogs)
      BY <1>14 DEF Quit, MainLoop, Top
    <2> HIDE DEF f
    <2> QED
      BY <1>2, <2>1, <2>2
  <1> HIDE DEF Result
  <1>15. Result
    <2>1. ASSUME NEW d \in Docs, NewDoc(d) \/ NewUntitled(d) \/ Reopen(d) \/ UndoToSaved(d)
          PROVE  Result
      BY <1>4, <1>5, <1>9, <1>13, <2>1
    <2> QED
      BY <1>6, <1>7, <1>10, <1>11, <1>12, <1>14, <2>1 DEF User
  <1> QED
    BY <1>15 DEF Result

\* Every monitor has a client.
Owners == \A i \in Requests : monitors[i].data \in Docs

\* What the poll pushes for an event of monitor i.
CallbackFrame(i) ==
  [Call("file_watch_callback", monitors[i].data) EXCEPT !.id = i, !.code = EventCode(i)]

\* Only the poll calls the callback of the file watch.
LEMMA PollingStack ==
  ASSUME TypeOK, GoodStack(stack), Owners, Polling
  PROVE  /\ GoodStack(stack') /\ BelowKept
         /\ OnCallback' => \E i \in Ids : PollMonitor(i) /\ EventCode(i) # "none"
         /\ \A i \in Ids : PollMonitor(i) /\ EventCode(i) # "none"
                             => Top' = CallbackFrame(i) /\ OnCallback'
  <1>1. \A i \in Ids : PollMonitor(i) => stack # <<>> /\ Top.at = "do_stat"
    BY DEF PollMonitor, At, Top
  <1>2. CASE StartPoll
    <2> DEFINE f == Call("do_stat", NoDoc)
    <2>1. f \in Frames /\ f.at = "do_stat"
      BY DocSyncAssumption DEF DocSyncAssumption, Call, Frames, Frame
    <2>2. Push(f) /\ (stack = <<>> \/ Top.at \in Dialogs)
      BY <1>2 DEF StartPoll, MainLoop, Top
    <2> HIDE DEF f
    <2> QED
      BY <1>1, <2>1, <2>2, PushedOver DEF OnCallback, Suspended
  <1>3. ASSUME NEW i \in Ids, PollMonitor(i)
        PROVE  /\ GoodStack(stack') /\ BelowKept
               /\ EventCode(i) # "none" => Top' = CallbackFrame(i) /\ OnCallback'
               /\ EventCode(i) = "none" => ~OnCallback'
    <2>1. stack # <<>> /\ Top.at = "do_stat"
      BY <1>1, <1>3
    <2>2. CASE EventCode(i) = "none"
      BY <1>3, <2>1, <2>2 DEF PollMonitor, BelowKept, OnCallback, Top
    <2>3. CASE EventCode(i) # "none"
      <3>1. monitors[i].data \in Docs
        BY <2>3 DEF EventCode, Owners
      <3>2. EventCode(i) \in {"changed", "deleted", "error"}
        BY <2>3 DEF EventCode
      <3>3. CallbackFrame(i) \in Frames /\ CallbackFrame(i).at = "file_watch_callback"
        BY <3>1, <3>2, DocSyncAssumption
           DEF DocSyncAssumption, CallbackFrame, Call, Frames, Frame
      <3>4. Push(CallbackFrame(i))
        BY <1>3, <2>3 DEF PollMonitor, CallbackFrame
      <3> QED
        BY <2>1, <2>3, <3>3, <3>4, PushedOver DEF Suspended, OnCallback
    <2> QED
      BY <2>2, <2>3
  <1>4. ASSUME FinishPoll \/ FileWatchCallback
        PROVE  StackMoved
    <2>1. stack # <<>>
      BY <1>4 DEF FinishPoll, FileWatchCallback, At
    <2>2. ASSUME NEW c \in {"close", "reload"}, Goto(Call(c, D)), Top.at = "file_watch_callback"
          PROVE  StackMoved
      <3>1. Call(c, D) \in Frames /\ Call(c, D).at = c
        BY <2>1, <2>2, Running, CallFrame
      <3> QED
        BY <2>1, <2>2, <3>1, Went
    <2>3. CASE stack' = Tail(stack)
      BY <2>1, <2>3, Returned
    <2>4. CASE FinishPoll
      BY <2>3, <2>4 DEF FinishPoll
    <2>5. CASE FileWatchCallback
      <3>1. Top.at = "file_watch_callback"
        BY <2>5 DEF FileWatchCallback, At, Top
      <3>2. stack' = Tail(stack) \/ \E c \in {"close", "reload"} : Goto(Call(c, D))
        BY <2>5 DEF FileWatchCallback
      <3> QED
        BY <2>2, <2>3, <3>1, <3>2
    <2> QED
      BY <1>4, <2>4, <2>5
  <1>5. FinishPoll \/ FileWatchCallback => \A i \in Ids : ~(PollMonitor(i) /\ EventCode(i) # "none")
    BY <1>3, <1>4 DEF StackMoved
  <1>6. StartPoll => \A i \in Ids : ~PollMonitor(i)
    BY <1>1 DEF StartPoll, MainLoop, Top
  <1> QED
    BY <1>2, <1>3, <1>4, <1>5, <1>6 DEF Polling, StackMoved

(***************************************************************************)
(* Documents                                                               *)
(***************************************************************************)
\* An edit leaves alone what ties a document to its file, monitor and timer.
SameTies(r, s) ==
  /\ s.open = r.open
  /\ s.filename = r.filename
  /\ s.file_monitor_id = r.file_monitor_id
  /\ s.sync_timeout_id = r.sync_timeout_id
  /\ s.status \cap CHANGED_ON_DISK = r.status \cap CHANGED_ON_DISK

\* A new object and what is left of a closed one.
LEMMA FreshTypes ==
  /\ FreshDoc \in Doc /\ ClosedDoc \in Doc
  /\ ClosedDoc.open = FALSE
  /\ FreshDoc.file_monitor_id = 0 /\ FreshDoc.sync_timeout_id = 0
  /\ ClosedDoc.file_monitor_id = 0 /\ ClosedDoc.sync_timeout_id = 0
  /\ [ClosedDoc EXCEPT !.file_monitor_id = 0] = ClosedDoc
  <1>1. {} \in SUBSET StatusFlags /\ EmptyText \in Texts
    BY DocSyncAssumption DEF DocSyncAssumption
  <1>2. FreshDoc \in Doc /\ FreshDoc.file_monitor_id = 0 /\ FreshDoc.sync_timeout_id = 0
    BY <1>1 DEF FreshDoc, Doc
  <1>3. /\ ClosedDoc \in Doc /\ ClosedDoc.file_monitor_id = 0 /\ ClosedDoc.sync_timeout_id = 0
        /\ ClosedDoc.open = FALSE
    BY <1>2 DEF ClosedDoc, Doc
  <1>4. [ClosedDoc EXCEPT !.file_monitor_id = 0] = ClosedDoc
    BY <1>3 DEF Doc
  <1> QED
    BY <1>2, <1>3, <1>4

\* What the modified flag of the buffer does to the status.
LEMMA ModifiedChangedType ==
  ASSUME NEW r \in Doc, NEW b \in BOOLEAN
  PROVE  ModifiedChanged(r, b) \in Doc /\ SameTies(r, ModifiedChanged(r, b))
  <1> DEFINE st == IF b THEN r.status \cup {"MODIFIED"} ELSE r.status \ {"MODIFIED"}
  <1>1. /\ r.status \in SUBSET StatusFlags /\ st \in SUBSET StatusFlags
        /\ st \cap CHANGED_ON_DISK = r.status \cap CHANGED_ON_DISK
    BY DEF Doc, StatusFlags, CHANGED_ON_DISK
  <1> HIDE DEF st
  <1>2. \/ ModifiedChanged(r, b) = [r EXCEPT !.buf_modified = b]
        \/ ModifiedChanged(r, b) = [r EXCEPT !.buf_modified = b, !.status = st]
    BY DEF ModifiedChanged, st
  <1>3. CASE ModifiedChanged(r, b) = [r EXCEPT !.buf_modified = b]
    BY <1>3 DEF Doc, SameTies
  <1>4. CASE ModifiedChanged(r, b) = [r EXCEPT !.buf_modified = b, !.status = st]
    BY <1>1, <1>4 DEF Doc, SameTies
  <1> QED
    BY <1>2, <1>3, <1>4

\* What an edit does to a document.
LEMMA EditedType ==
  ASSUME NEW r \in Doc, NEW x \in Texts
  PROVE  Edited(r, x) \in Doc /\ SameTies(r, Edited(r, x))
  <1> DEFINE s == [r EXCEPT !.text = x]
  <1>1. s \in Doc /\ SameTies(r, s)
    BY DEF Doc, SameTies
  <1>2. Edited(r, x) = s \/ Edited(r, x) = ModifiedChanged(s, TRUE)
    BY DEF Edited
  <1> HIDE DEF s
  <1>3. ModifiedChanged(s, TRUE) \in Doc /\ SameTies(s, ModifiedChanged(s, TRUE))
    BY <1>1, ModifiedChangedType
  <1> QED
    BY <1>1, <1>2, <1>3 DEF SameTies

\* What moo_editor_will_save does to a document.
LEMMA WillSaveType ==
  ASSUME NEW r \in Doc
  PROVE  WillSave(r) \in Doc /\ SameTies(r, WillSave(r))
  <1>1. r.text \in Texts /\ Strip[r.text] \in Texts
    BY DocSyncAssumption DEF DocSyncAssumption, Doc
  <1>2. WillSave(r) = r \/ WillSave(r) = Edited(r, Strip[r.text])
    BY DEF WillSave
  <1> QED
    BY <1>1, <1>2, EditedType DEF SameTies

\* A document with text x that was saved to file f, or loaded from it, as y.
Synced(r, x, y, f, i) ==
  [r EXCEPT !.text = x, !.saved = y, !.buf_modified = FALSE, !.status = {},
            !.filename = f, !.file_monitor_id = i]

\* It is a document, open or not as before, watched by i.
LEMMA SyncedType ==
  ASSUME NEW r \in Doc, NEW x \in Texts, NEW y \in Texts, NEW f \in Files,
         NEW i \in Ids \cup {0}
  PROVE  LET s == Synced(r, x, y, f, i)
         IN /\ s \in Doc
            /\ s.open = r.open /\ s.filename = f /\ s.file_monitor_id = i /\ s.status = {}
            /\ s.sync_timeout_id = r.sync_timeout_id
  <1> DEFINE s == Synced(r, x, y, f, i)
             t == [r EXCEPT !.text = x, !.saved = y, !.buf_modified = FALSE]
  <1>1. t \in Doc /\ t.open = r.open /\ t.sync_timeout_id = r.sync_timeout_id
    BY DEF Doc
  <1>2. s = [t EXCEPT !.status = {}, !.filename = f, !.file_monitor_id = i]
    BY DEF Doc, Synced
  <1> HIDE DEF t, s
  <1>3. {} \in SUBSET StatusFlags /\ f \in Files \cup {NoFile}
    OBVIOUS
  <1>4. /\ s \in Doc
        /\ s.open = t.open /\ s.filename = f /\ s.file_monitor_id = i /\ s.status = {}
        /\ s.sync_timeout_id = t.sync_timeout_id
    BY <1>1, <1>2, <1>3 DEF Doc
  <1> QED
    BY <1>1, <1>4 DEF s

(***************************************************************************)
(* The inductive invariant                                                 *)
(***************************************************************************)
\* What the callback of the file watch was called for.
CallbackOK ==
  OnCallback => /\ Top.id \in Requests
                /\ D \in Docs
                /\ doc[D].open
                /\ doc[D].file_monitor_id = Top.id
                /\ Top.code = "deleted" <=> Top.id \in poll.gone

TimerLives(d) ==
  LET t == doc[d].sync_timeout_id
  IN t # 0 => timers[t] = d \/ (timers[t] = NoDoc /\ Dispatching(d))

\* Each document has a timer of its own.
TimersOwned ==
  \A d \in Docs :
    /\ TimerLives(d)
    /\ ~doc[d].open => doc[d].sync_timeout_id = 0
    /\ \A e \in Docs \ {d} : doc[d].sync_timeout_id # 0
                               => doc[d].sync_timeout_id # doc[e].sync_timeout_id

Inv ==
  /\ TypeOK
  /\ GoodStack(stack)
  /\ PollKept
  /\ Owners
  /\ CallbackOK
  /\ MonitorsOwned
  /\ TimersOwned

(***************************************************************************)
(* The timers                                                              *)
(***************************************************************************)
\* A pending timer of d is forgotten only by the callback of an earlier one.
TimerKept(d) ==
  LET t == doc[d].sync_timeout_id
  IN t # 0 /\ timers[t] = d /\ timers'[t] = d =>
       \/ doc'[d].sync_timeout_id = t
       \/ /\ stack # <<>> /\ D = d
          /\ Top.at \in {"autosync_callback", "autosync_after_save"}

TimersStep == TimersOwned' /\ \A d \in Docs : TimerKept(d)

\* A timer that is being dispatched stays so until its own callback returns.
DispatchKept(d) == Dispatching(d) => Dispatching(d)'

\* A timer that is being dispatched for d stays so, unless its handler runs.
LEMMA DispatchStays ==
  ASSUME GoodStack(stack), GoodStack(stack'), BelowKept, NEW d,
         stack # <<>> /\ Top.at \in {"autosync_callback", "autosync_after_save"} => D # d
  PROVE  DispatchKept(d)
  <1>1. /\ stack \in Seq(Frames) /\ stack' \in Seq(Frames)
        /\ DOMAIN stack = 1 .. Len(stack) /\ Len(stack) \in Nat
        /\ DOMAIN stack' = 1 .. Len(stack')
    BY LenProperties DEF GoodStack
  <1> SUFFICES ASSUME Dispatching(d) PROVE Dispatching(d)'
    BY DEF DispatchKept
  <1>2. PICK k \in DOMAIN stack :
          /\ stack[k].at \in {"autosync_callback", "autosync_after_save"}
          /\ stack[k].doc = d
    BY DEF Dispatching
  <1>3. stack # <<>> /\ k # 1
    BY <1>1, <1>2, EmptySeq DEF Top, D
  <1>4. k \in 2 .. Len(stack)
    BY <1>1, <1>2, <1>3
  <1>5. PICK j \in 1 .. Len(stack') : stack'[j] = stack[k]
    BY <1>4 DEF BelowKept
  <1> QED
    BY <1>1, <1>2, <1>5 DEF Dispatching

\* A step that leaves the timers and their ids alone.
LEMMA TimersLeft ==
  ASSUME TimersOwned, timers' = timers,
         \A d \in Docs : /\ doc'[d].sync_timeout_id = doc[d].sync_timeout_id
                         /\ doc[d].open => doc'[d].open
                         /\ DispatchKept(d)
  PROVE  TimersStep
  <1>1. \A d \in Docs : TimerKept(d)
    BY DEF TimerKept
  <1>2. TimersOwned'
    BY DEF TimersOwned, TimerLives, DispatchKept
  <1> QED
    BY <1>1, <1>2 DEF TimersStep

\* The timer that is started is nobody's, the one that is removed was d's.
LEMMA TimersChanged ==
  ASSUME TypeOK, TimersOwned, NEW d \in Docs, NEW r \in Doc, doc[d].open,
         r.sync_timeout_id = doc[d].sync_timeout_id, r.open,
         \A e \in Docs : DispatchKept(e), Changed(d, r)
  PROVE  /\ doc' \in [Docs -> Doc] /\ timers' \in [Timers -> Docs \cup {NoDoc}]
         /\ \E t \in Timers \cup {0} : doc'[d] = [r EXCEPT !.sync_timeout_id = t]
         /\ \A e \in Docs \ {d} : doc'[e] = doc[e]
         /\ TimersStep
  <1>1. doc \in [Docs -> Doc] /\ timers \in [Timers -> Docs \cup {NoDoc}] /\ 0 \notin Timers
    BY DocSyncAssumption DEF DocSyncAssumption, TypeOK
  <1>2. CASE ~autoSync
    <2>1. doc' = [doc EXCEPT ![d] = r] /\ timers' = timers
      BY <1>2 DEF Changed
    <2>2. r = [r EXCEPT !.sync_timeout_id = r.sync_timeout_id]
          /\ r.sync_timeout_id \in Timers \cup {0}
      BY DEF Doc
    <2>3. /\ doc' \in [Docs -> Doc] /\ doc'[d] = r
          /\ \A e \in Docs \ {d} : doc'[e] = doc[e]
      BY <1>1, <2>1
    <2>4. TimersStep
      BY <2>1, <2>3, TimersLeft
    <2> QED
      BY <1>1, <2>1, <2>2, <2>3, <2>4
  <1>3. CASE autoSync
    <2> DEFINE t == CHOOSE u \in FreeTimers(d) : TRUE
               s == [r EXCEPT !.sync_timeout_id = t]
               old == doc[d].sync_timeout_id
    <2>1. FreeTimers(d) # {}
      BY <1>3 DEF Changed
    <2>2. t \in FreeTimers(d)
      BY <2>1
    <2>3. doc' = [doc EXCEPT ![d] = s] /\ timers' = [RemoveTimer(old) EXCEPT ![t] = d]
      BY <1>3 DEF Changed
    <2> HIDE DEF t
    <2>4. /\ t \in Timers /\ t # 0 /\ timers[t] = NoDoc
          /\ \A e \in Docs \ {d} : doc[e].sync_timeout_id # t
      BY <1>1, <2>2 DEF FreeTimers
    <2>5. s \in Doc /\ s.sync_timeout_id = t /\ s.open
      BY <2>4 DEF Doc
    <2> HIDE DEF s
    <2>6. /\ doc' \in [Docs -> Doc] /\ doc'[d] = s
          /\ \A e \in Docs \ {d} : doc'[e] = doc[e]
      BY <1>1, <2>3, <2>5
    <2>7. /\ timers' \in [Timers -> Docs \cup {NoDoc}]
          /\ timers'[t] = d
          /\ \A u \in Timers \ {t, old} : timers'[u] = timers[u]
          /\ old \in Timers \ {t} => timers'[old] = NoDoc
      BY <1>1, <2>3, <2>4 DEF RemoveTimer
    <2> HIDE DEF old
    <2>8. \A e \in Docs : doc[e].sync_timeout_id \in Timers \cup {0}
      BY <1>1 DEF Doc
    <2>9. old = doc[d].sync_timeout_id
      BY DEF old
    <2>10. \A e \in Docs \ {d} : TimerLives(e)'
      <3> SUFFICES ASSUME NEW e \in Docs \ {d}, doc[e].sync_timeout_id # 0
                   PROVE  timers'[doc[e].sync_timeout_id] = timers[doc[e].sync_timeout_id]
        BY <2>6 DEF TimersOwned, TimerLives, DispatchKept
      <3>1. doc[e].sync_timeout_id \in Timers \ {t, old}
        BY <2>4, <2>8, <2>9 DEF TimersOwned
      <3> QED
        BY <2>7, <3>1
    <2>11. TimerLives(d)'
      BY <2>5, <2>6, <2>7 DEF TimerLives
    <2>12. TimersOwned'
      BY <2>4, <2>5, <2>6, <2>10, <2>11 DEF TimersOwned
    <2>13. \A e \in Docs \ {d} : TimerKept(e)
      BY <2>6 DEF TimerKept
    <2>14. TimerKept(d)
      <3> SUFFICES ASSUME old # 0, timers[old] = d PROVE timers'[old] # d
        BY <2>9 DEF TimerKept
      <3>1. old \in Timers /\ old # t
        BY <2>4, <2>8, <2>9, NoDocDistinct
      <3> QED
        BY <2>7, <3>1, NoDocDistinct
    <2> QED
      BY <2>4, <2>6, <2>7, <2>12, <2>13, <2>14 DEF s, TimersStep
  <1> QED
    BY <1>2, <1>3

\* Closing a document removes its timer.
LEMMA TimersClosed ==
  ASSUME TypeOK, TimersOwned, NEW d \in Docs, \A e \in Docs : DispatchKept(e),
         doc' = [doc EXCEPT ![d] = ClosedDoc],
         timers' = RemoveTimer(doc[d].sync_timeout_id)
  PROVE  timers' \in [Timers -> Docs \cup {NoDoc}] /\ TimersStep
  <1> DEFINE old == doc[d].sync_timeout_id
  <1>1. /\ doc \in [Docs -> Doc] /\ timers \in [Timers -> Docs \cup {NoDoc}] /\ 0 \notin Timers
        /\ \A e \in Docs : doc[e].sync_timeout_id \in Timers \cup {0}
    BY DocSyncAssumption DEF DocSyncAssumption, TypeOK, Doc
  <1>2. /\ timers' \in [Timers -> Docs \cup {NoDoc}]
        /\ \A u \in Timers \ {old} : timers'[u] = timers[u]
        /\ old \in Timers => timers'[old] = NoDoc
    BY <1>1 DEF RemoveTimer
  <1>3. /\ doc'[d].sync_timeout_id = 0
        /\ \A e \in Docs \ {d} : doc'[e] = doc[e]
    BY <1>1, FreshTypes
  <1>4. \A e \in Docs \ {d} : TimerLives(e)'
    <2> SUFFICES ASSUME NEW e \in Docs \ {d}, doc[e].sync_timeout_id # 0
                 PROVE  timers'[doc[e].sync_timeout_id] = timers[doc[e].sync_timeout_id]
      BY <1>3 DEF TimersOwned, TimerLives, DispatchKept
    <2> QED
      BY <1>1, <1>2 DEF TimersOwned
  <1>5. TimerLives(d)'
    BY <1>3 DEF TimerLives
  <1>6. TimersOwned'
    BY <1>3, <1>4, <1>5 DEF TimersOwned
  <1>7. \A e \in Docs \ {d} : TimerKept(e)
    BY <1>3 DEF TimerKept
  <1>8. TimerKept(d)
    BY <1>1, <1>2, NoDocDistinct DEF TimerKept
  <1> QED
    BY <1>2, <1>6, <1>7, <1>8 DEF TimersStep

\* The callback of the timer ends.
LEMMA TimersZeroed ==
  ASSUME TypeOK, TimersOwned, stack # <<>>, D \in Docs,
         Top.at \in {"autosync_callback", "autosync_after_save"},
         \A e \in Docs \ {D} : DispatchKept(e),
         timers' = timers, doc' = [doc EXCEPT ![D].sync_timeout_id = 0]
  PROVE  doc' \in [Docs -> Doc] /\ TimersStep
  <1>1. /\ doc' \in [Docs -> Doc] /\ doc'[D].sync_timeout_id = 0
        /\ \A e \in Docs \ {D} : doc'[e] = doc[e]
    <2> DEFINE r == [doc[D] EXCEPT !.sync_timeout_id = 0]
    <2>1. doc \in [Docs -> Doc] /\ doc[D] \in Doc
      BY DEF TypeOK
    <2>2. r \in Doc /\ r.sync_timeout_id = 0
      BY <2>1 DEF Doc
    <2>3. doc' = [doc EXCEPT ![D] = r]
      BY <2>1
    <2> HIDE DEF r
    <2> QED
      BY <2>1, <2>2, <2>3
  <1>2. \A e \in Docs : TimerLives(e)'
    BY <1>1 DEF TimersOwned, TimerLives, DispatchKept
  <1>3. TimersOwned'
    BY <1>1, <1>2 DEF TimersOwned
  <1>4. \A e \in Docs : TimerKept(e)
    BY <1>1 DEF TimerKept
  <1> QED
    BY <1>1, <1>3, <1>4 DEF TimersStep

\* A timer is dispatched.
LEMMA TimerDispatched ==
  ASSUME TypeOK, TimersOwned, NEW t \in Timers, NEW d \in Docs, timers[t] = d,
         timers' = [timers EXCEPT ![t] = NoDoc], doc' = doc,
         \A e \in Docs : DispatchKept(e), Dispatching(d)'
  PROVE  timers' \in [Timers -> Docs \cup {NoDoc}] /\ TimersStep
  <1>1. /\ timers' \in [Timers -> Docs \cup {NoDoc}] /\ timers'[t] = NoDoc
        /\ \A u \in Timers \ {t} : timers'[u] = timers[u]
        /\ \A e \in Docs : doc[e].sync_timeout_id \in Timers \cup {0}
    BY DEF TypeOK, Doc
  <1>2. ASSUME NEW e \in Docs PROVE TimerLives(e)'
    <2>1. CASE doc[e].sync_timeout_id # t
      BY <1>1, <2>1 DEF TimersOwned, TimerLives, DispatchKept
    <2>2. CASE doc[e].sync_timeout_id = t
      <3>1. doc[e].sync_timeout_id # 0
        BY <2>2, DocSyncAssumption DEF DocSyncAssumption
      <3>2. d = e
        BY <2>2, <3>1, NoDocDistinct DEF TimersOwned, TimerLives
      <3>3. Dispatching(e)'
        BY <3>2
      <3> QED
        BY <1>1, <2>2, <3>3 DEF TimerLives
    <2> QED
      BY <2>1, <2>2
  <1>3. TimersOwned'
    BY <1>2 DEF TimersOwned
  <1>4. \A e \in Docs : TimerKept(e)
    BY DEF TimerKept
  <1> QED
    BY <1>1, <1>3, <1>4 DEF TimersStep

(***************************************************************************)
(* The monitors: what the documents do to the watch is what a client may.  *)
(***************************************************************************)
\* Only a callback that runs still speaks of a deleted monitor.
LEMMA NotReporting ==
  /\ ~OnCallback => Reporting = {}
  /\ ~OnCallback' => Reporting' = {}
  BY DEF Reporting, OnCallback, At, Top

\* A step that leaves the monitors and the documents' ties to them.
LEMMA MonitorsLeft ==
  ASSUME Owners, MonitorsOwned, monitors' = monitors, poll' = poll, Reporting' = Reporting,
         \A d \in Docs :
           /\ doc'[d].file_monitor_id = doc[d].file_monitor_id
           /\ doc[d].file_monitor_id # 0
                => /\ doc'[d].open = doc[d].open
                   /\ doc'[d].filename = doc[d].filename
                   /\ doc'[d].status \cap CHANGED_ON_DISK = doc[d].status \cap CHANGED_ON_DISK
  PROVE  MonitorsOwned' /\ Owners'
  <1>1. Served' = Served /\ Requests' = Requests
    BY DEF Served, Requests
  <1>2. Owners'
    BY <1>1 DEF Owners
  <1>3. \A i \in Served : monitors[i].data \in Docs
    BY DEF Owners, Served
  <1>4. MonitorsOwned'
    BY <1>1, <1>3 DEF MonitorsOwned
  <1> QED
    BY <1>2, <1>4

\* Stopping the watch of a document cancels the monitor it holds.
LEMMA MonitorStopped ==
  ASSUME Inv, ~OnCallback, ~OnCallback', NEW d \in Docs,
         monitors' = WatchStopped(d), UNCHANGED <<fs, now, poll>>,
         doc'[d].file_monitor_id = 0, \A e \in Docs \ {d} : doc'[e] = doc[e]
  PROVE  MonitorsOwned' /\ Owners' /\ [WatchNext]_watchVars
  <1>1. /\ monitors \in [Ids -> Monitor] /\ poll \in Poll
        /\ \A e \in Docs : doc[e].file_monitor_id \in Ids \cup {0}
    BY DEF Inv, TypeOK, Doc
  <1>2. Served = Requests \ poll.gone /\ Served' = Requests' \ poll.gone
    BY NotReporting DEF Served
  <1>3. CASE doc[d].file_monitor_id = 0
    <2>1. monitors' = monitors /\ Reporting' = Reporting
      BY <1>3, NotReporting DEF WatchStopped
    <2>2. \A e \in Docs : doc'[e].file_monitor_id = doc[e].file_monitor_id
                          /\ (doc[e].file_monitor_id # 0 => doc'[e] = doc[e])
      BY <1>3
    <2>3. MonitorsOwned' /\ Owners'
      BY <2>1, <2>2, MonitorsLeft DEF Inv
    <2> QED
      BY <2>1, <2>3 DEF watchVars
  <1>4. CASE doc[d].file_monitor_id # 0
    <2> DEFINE i == doc[d].file_monitor_id
    <2>1. i \in Ids /\ i \in Requests \ poll.gone /\ monitors[i].data = d
      BY <1>1, <1>2, <1>4 DEF Inv, MonitorsOwned
    <2>2. monitors' = Cancelled(monitors, i)
      BY <1>4 DEF WatchStopped
    <2> HIDE DEF i
    <2>3. Cancel(i)
      BY <2>1, <2>2 DEF Cancel
    <2>4. /\ monitors'[i] = FreeMonitor
          /\ \A j \in Ids \ {i} : monitors'[j] = monitors[j]
      BY <1>1, <2>1, <2>2, CancelledType
    <2>5. Requests' = Requests \ {i}
      BY <2>1, <2>4 DEF Requests, FreeMonitor
    <2>6. Served' = Served \ {i}
      BY <1>2, <2>5
    <2>7. Owners'
      BY <2>4, <2>5 DEF Inv, Owners, Requests
    <2>8. \A j \in Served \ {i} : monitors[j].data \in Docs \ {d}
      BY <1>2, <1>4, <2>1 DEF Inv, Owners, MonitorsOwned, i
    <2>9. \A e \in Docs \ {d} : doc[e].file_monitor_id # i
      BY <1>4, <2>1, NoDocDistinct DEF Inv, MonitorsOwned
    <2>10. \A j \in Served' : doc'[monitors'[j].data].file_monitor_id = j
      BY <1>2, <2>4, <2>6, <2>8 DEF Inv, MonitorsOwned, Requests
    <2>11. MonitorsOwned'
      BY <1>1, <2>4, <2>6, <2>9, <2>10 DEF Inv, MonitorsOwned
    <2> QED
      BY <2>1, <2>3, <2>7, <2>11 DEF WatchNext, Client
  <1> QED
    BY <1>3, <1>4

\* Starting it replaces the monitor by a fresh one on the file, if that exists.
LEMMA MonitorStarted ==
  ASSUME Inv, ~OnCallback, ~OnCallback', NEW d \in Docs, NEW f \in Files, doc[d].open,
         StartFileWatch(d, f), doc'[d].file_monitor_id = StartedId(f),
         doc'[d].open, doc'[d].filename = f, doc'[d].status = {},
         \A e \in Docs \ {d} : doc'[e] = doc[e]
  PROVE  MonitorsOwned' /\ Owners' /\ [WatchNext]_watchVars
  <1> DEFINE j == StartedId(f)
             i == doc[d].file_monitor_id
  <1>1. /\ monitors \in [Ids -> Monitor] /\ poll \in Poll /\ fs \in [Files -> StatBuf]
        /\ \A e \in Docs : doc[e].file_monitor_id \in Ids \cup {0}
    BY DEF Inv, TypeOK, Doc
  <1>2. Served = Requests \ poll.gone /\ Served' = Requests' \ poll.gone
    BY NotReporting DEF Served, StartFileWatch
  <1>3. CASE ~Exists(f)
    <2>1. monitors' = WatchStopped(d) /\ UNCHANGED <<fs, now, poll>>
          /\ doc'[d].file_monitor_id = 0
      BY <1>3 DEF StartFileWatch, StartedId
    <2> QED
      BY <2>1, MonitorStopped
  <1>4. CASE Exists(f)
    <2>1. j \in FreshIds
      BY <1>4 DEF StartFileWatch, StartedId
    <2>2. monitors' = Created(WatchStopped(d), j, f, d) /\ UNCHANGED <<fs, now, poll>>
      BY <1>4 DEF StartFileWatch
    <2>3. doc'[d].file_monitor_id = j
      OBVIOUS
    <2> HIDE DEF j
    <2>4. j \in Ids /\ j \notin Requests /\ j \notin poll.gone
      BY <2>1 DEF FreshIds
    <2>5. i # 0 => i \in Ids /\ i \in Requests \ poll.gone /\ monitors[i].data = d
      BY <1>1, <1>2 DEF Inv, MonitorsOwned
    <2>6. /\ WatchStopped(d) \in [Ids -> Monitor]
          /\ i = 0 => WatchStopped(d) = monitors
          /\ i # 0 => /\ WatchStopped(d) = Cancelled(monitors, i)
                      /\ WatchStopped(d)[i] = FreeMonitor
          /\ \A k \in Ids \ {i} : WatchStopped(d)[k] = monitors[k]
      BY <1>1, <2>5, CancelledType DEF WatchStopped
    <2>7. i = doc[d].file_monitor_id
      OBVIOUS
    <2> HIDE DEF i
    <2>8. /\ monitors'[j].file = f /\ monitors'[j].data = d
          /\ \A k \in Ids \ {i, j} : monitors'[k] = monitors[k]
          /\ i # 0 => monitors'[i] = FreeMonitor
      BY <1>1, <2>2, <2>4, <2>5, <2>6 DEF Created
    <2>9. Requests' = (Requests \ {i}) \cup {j}
      BY <2>4, <2>5, <2>8, NoDocDistinct DEF Requests, FreeMonitor
    <2>10. Served' = (Served \ {i}) \cup {j}
      BY <1>2, <2>4, <2>9
    <2>11. Owners'
      BY <2>8, <2>9 DEF Inv, Owners, Requests
    <2>12. \A k \in Served \ {i} : monitors[k].data \in Docs \ {d} /\ k # j
      BY <1>2, <2>4, <2>7 DEF Inv, Owners, MonitorsOwned
    <2>13. \A e \in Docs \ {d} : doc[e].file_monitor_id # 0 => doc[e].file_monitor_id \notin {i, j}
      BY <1>2, <2>4, <2>5 DEF Inv, MonitorsOwned
    <2>14. \A k \in Served' : doc'[monitors'[k].data].file_monitor_id = k
      BY <1>2, <2>3, <2>8, <2>10, <2>12 DEF Inv, MonitorsOwned, Requests
    <2>15. \A e \in Docs \ {d} : doc'[e].file_monitor_id # 0 =>
             /\ doc'[e].open
             /\ doc'[e].status \cap CHANGED_ON_DISK = {}
             /\ doc'[e].file_monitor_id \in Served'
             /\ monitors'[doc'[e].file_monitor_id].data = e
             /\ monitors'[doc'[e].file_monitor_id].file = doc'[e].filename
      BY <1>1, <2>8, <2>10, <2>13 DEF Inv, MonitorsOwned
    <2>16. /\ doc'[d].open
           /\ doc'[d].status \cap CHANGED_ON_DISK = {}
           /\ doc'[d].file_monitor_id \in Served'
           /\ monitors'[doc'[d].file_monitor_id].data = d
           /\ monitors'[doc'[d].file_monitor_id].file = doc'[d].filename
      BY <2>3, <2>8, <2>10
    <2>17. MonitorsOwned'
      BY <2>14, <2>15, <2>16 DEF MonitorsOwned
    <2>18. CASE i = 0
      <3>1. Create(j, f, d)
        BY <1>4, <2>1, <2>2, <2>6, <2>18 DEF Create
      <3> QED
        BY <2>4, <2>11, <2>17, <3>1 DEF WatchNext, Client, Docs
    <2>19. CASE i # 0
      <3>1. Replace(i, j, f)
        BY <1>4, <2>1, <2>2, <2>5, <2>6, <2>19 DEF Replace
      <3> QED
        BY <2>4, <2>5, <2>11, <2>17, <2>19, <3>1 DEF WatchNext, Client
    <2> QED
      BY <2>18, <2>19
  <1> QED
    BY <1>3, <1>4

\* Writing a file is something other processes do as well.
LEMMA WriteWatched ==
  ASSUME TypeOK, NEW x, DoWrite(x), Top.file \in Files, x \in Texts
  PROVE  /\ [WatchNext]_watchVars /\ monitors' = monitors /\ poll' = poll
         /\ contents' \in [Files -> Texts]
         /\ UNCHANGED <<autoSync, ret, fault>>
  <1>1. UNCHANGED <<now, monitors, poll, autoSync, ret, fault>>
    BY DEF DoWrite
  <1>2. CASE UNCHANGED <<contents, fs>>
    BY <1>1, <1>2 DEF TypeOK, watchVars
  <1>3. CASE /\ contents' = [contents EXCEPT ![Top.file] = x]
             /\ fs' = [fs EXCEPT ![Top.file] = [err |-> "none", mtime |-> now]]
    <2>1. now \in Time /\ now \in 0 .. now
      BY FileWatchAssumption DEF FileWatchAssumption, TypeOK, Time
    <2>2. ReplaceFile(Top.file, now)
      BY <1>1, <1>3, <2>1 DEF ReplaceFile
    <2>3. WatchNext
      BY <2>1, <2>2 DEF WatchNext, Environment
    <2>4. contents' \in [Files -> Texts]
      BY <1>3 DEF TypeOK
    <2> QED
      BY <1>1, <2>3, <2>4
  <1> QED
    BY <1>2, <1>3 DEF DoWrite

(***************************************************************************)
(* Every step keeps the invariant, is one the watch allows, and forgets no *)
(* timer but where it may.                                                 *)
(***************************************************************************)
Sound == Inv' /\ [WatchNext]_watchVars /\ \A d \in Docs : TimerKept(d)

\* What is left to show of a step once its parts are known.
LEMMA SoundByParts ==
  ASSUME Inv, [WatchNext]_watchVars, contents' \in [Files -> Texts], doc' \in [Docs -> Doc],
         timers' \in [Timers -> Docs \cup {NoDoc}], autoSync' \in BOOLEAN, ret' \in BOOLEAN,
         fault' \in {"none", "assert", "freed"}, GoodStack(stack'), Owners', CallbackOK',
         MonitorsOwned', TimersStep
  PROVE  Sound
  <1>1. WatchTypeOK /\ PollKept
    BY DEF Inv, TypeOK, WatchTypeOK
  <1>2. WatchTypeOK'
    <2>1. CASE WatchNext
      BY <1>1, <2>1, WatchNextTypeOK
    <2>2. CASE UNCHANGED watchVars
      BY <1>1, <2>2 DEF WatchTypeOK, watchVars
    <2> QED
      BY <2>1, <2>2
  <1>3. PollKept'
    <2>1. CASE WatchNext
      BY <1>1, <2>1, WatchNextPollKept
    <2>2. CASE UNCHANGED watchVars
      BY <1>1, <2>2 DEF PollKept, watchVars
    <2> QED
      BY <2>1, <2>2
  <1>4. stack' \in Seq(Frame)
    BY SeqMonotonic DEF GoodStack, Frames
  <1>5. TypeOK'
    BY <1>2, <1>4 DEF WatchTypeOK, TypeOK
  <1> QED
    BY <1>3, <1>5 DEF Sound, Inv, TimersStep

\* A step of a handler other than the callbacks of the watch and of the timer.
LEMMA Moved ==
  ASSUME Inv, StackMoved,
         stack = <<>> \/ Top.at \notin {"file_watch_callback", "autosync_callback",
                                        "autosync_after_save"}
  PROVE  /\ ~OnCallback /\ ~OnCallback' /\ Reporting' = Reporting
         /\ GoodStack(stack') /\ CallbackOK' /\ \A d \in Docs : DispatchKept(d)
  <1>1. ~OnCallback /\ ~OnCallback' /\ GoodStack(stack') /\ GoodStack(stack) /\ BelowKept
    BY DEF StackMoved, OnCallback, Inv
  <1>2. \A d \in Docs : DispatchKept(d)
    BY <1>1, DispatchStays
  <1>3. Reporting' = Reporting
    BY <1>1, NotReporting
  <1>4. CallbackOK'
    BY <1>1 DEF CallbackOK
  <1> QED
    BY <1>1, <1>2, <1>3, <1>4

\* A step that moves nothing but the stack, and perhaps writes a file.
LEMMA QuietSound ==
  ASSUME Inv, StackMoved, [WatchNext]_watchVars,
         stack = <<>> \/ Top.at # "file_watch_callback", \A d \in Docs : DispatchKept(d),
         UNCHANGED <<monitors, poll, doc, timers, fault>>,
         contents' \in [Files -> Texts], autoSync' \in BOOLEAN, ret' \in BOOLEAN
  PROVE  Sound
  <1>1. ~OnCallback /\ ~OnCallback' /\ GoodStack(stack')
    BY DEF StackMoved, OnCallback
  <1>2. Reporting' = Reporting /\ CallbackOK'
    BY <1>1, NotReporting DEF CallbackOK
  <1>3. MonitorsOwned' /\ Owners'
    BY <1>2, MonitorsLeft DEF Inv
  <1>4. TimersStep
    BY TimersLeft DEF Inv
  <1>5. doc' \in [Docs -> Doc] /\ timers' \in [Timers -> Docs \cup {NoDoc}]
        /\ fault' \in {"none", "assert", "freed"}
    BY DEF Inv, TypeOK
  <1> QED
    BY <1>1, <1>2, <1>3, <1>4, <1>5, SoundByParts

\* An edit of an open document, under auto sync with a timer for it.
LEMMA TextChanged ==
  ASSUME Inv, NEW d \in Docs, doc[d].open, NEW r \in Doc, SameTies(doc[d], r), Changed(d, r),
         \A e \in Docs : DispatchKept(e),
         monitors' = monitors, poll' = poll, Reporting' = Reporting
  PROVE  /\ doc' \in [Docs -> Doc] /\ timers' \in [Timers -> Docs \cup {NoDoc}]
         /\ TimersStep /\ MonitorsOwned' /\ Owners'
  <1>1. r.sync_timeout_id = doc[d].sync_timeout_id /\ r.open
    BY DEF SameTies
  <1>2. /\ doc' \in [Docs -> Doc] /\ timers' \in [Timers -> Docs \cup {NoDoc}]
        /\ \E t \in Timers \cup {0} : doc'[d] = [r EXCEPT !.sync_timeout_id = t]
        /\ \A e \in Docs \ {d} : doc'[e] = doc[e]
        /\ TimersStep
    BY <1>1, TimersChanged DEF Inv
  <1>3. /\ doc'[d].open = r.open /\ doc'[d].filename = r.filename
        /\ doc'[d].file_monitor_id = r.file_monitor_id /\ doc'[d].status = r.status
    BY <1>2 DEF Doc
  <1>4. \A e \in Docs :
          /\ doc'[e].file_monitor_id = doc[e].file_monitor_id
          /\ doc'[e].open = doc[e].open
          /\ doc'[e].filename = doc[e].filename
          /\ doc'[e].status \cap CHANGED_ON_DISK = doc[e].status \cap CHANGED_ON_DISK
    BY <1>2, <1>3 DEF SameTies
  <1>5. MonitorsOwned' /\ Owners'
    BY <1>4, MonitorsLeft DEF Inv
  <1> QED
    BY <1>2, <1>5

\* A step of Saving.
LEMMA SavingSound ==
  ASSUME Inv, Saving
  PROVE  Sound
  <1>1. /\ TypeOK /\ GoodStack(stack) /\ stack # <<>> /\ StackMoved /\ fault = "none"
        /\ Top.at \in {"save", "do_save", "save_utf8", "save_local"}
    BY SavingStack
       DEF Inv, Saving, Save, CancelSave, DoSave, SaveUtf8, SaveLocal, At, Top
  <1>2. /\ ~OnCallback /\ ~OnCallback' /\ Reporting' = Reporting
        /\ GoodStack(stack') /\ CallbackOK' /\ \A d \in Docs : DispatchKept(d)
    BY <1>1, Moved
  <1>3. /\ D \in Docs /\ doc[D] \in Doc /\ Top \in Frame /\ doc[D].open
        /\ Top.at \in OnFile => Top.file \in Files
        /\ Top.data \in Texts /\ TRUE \in BOOLEAN /\ FALSE \in BOOLEAN
    BY <1>1, Running DEF TypeOK, Frame, Saving, Save, CancelSave, DoSave, SaveUtf8, SaveLocal,
                         At, Top, D
  <1>4. CASE Save \/ CancelSave
    <2>1. /\ UNCHANGED <<fs, now, monitors, poll, contents, doc, timers, autoSync, fault>>
          /\ ret' \in BOOLEAN
      BY <1>1, <1>4 DEF Save, CancelSave, Return, watchVars, TypeOK
    <2>2. [WatchNext]_watchVars /\ contents' \in [Files -> Texts] /\ autoSync' \in BOOLEAN
      BY <1>1, <2>1 DEF watchVars, TypeOK
    <2> QED
      BY <1>1, <1>2, <2>1, <2>2, QuietSound
  <1>5. CASE SaveUtf8
    <2>1. Top.file \in Files /\ doc[D].text \in Texts
      BY <1>3, <1>5 DEF SaveUtf8, At, Top, Doc
    <2>2. /\ [WatchNext]_watchVars /\ monitors' = monitors /\ poll' = poll
          /\ contents' \in [Files -> Texts]
          /\ UNCHANGED <<autoSync, ret, fault, doc, timers>>
      BY <1>1, <1>5, <2>1, WriteWatched DEF SaveUtf8
    <2> QED
      BY <1>1, <1>2, <2>2, QuietSound DEF TypeOK
  <1>6. CASE DoSave
    <2> DEFINE r == WillSave(doc[D])
    <2>1. r \in Doc /\ SameTies(doc[D], r)
      BY <1>3, WillSaveType
    <2>2. IF r = doc[D] THEN UNCHANGED <<doc, timers>> ELSE Changed(D, r)
      BY <1>6 DEF DoSave
    <2>3. \/ DoWrite(r.text)
          \/ UNCHANGED <<watchVars, contents, autoSync, ret, fault>>
      BY <1>6 DEF DoSave
    <2> HIDE DEF r
    <2>4. Top.file \in Files /\ r.text \in Texts
      BY <1>3, <1>6, <2>1 DEF DoSave, At, Top, Doc
    <2>5. /\ [WatchNext]_watchVars /\ monitors' = monitors /\ poll' = poll
          /\ contents' \in [Files -> Texts]
          /\ UNCHANGED <<autoSync, ret, fault>>
      BY <1>1, <2>3, <2>4, WriteWatched DEF watchVars, TypeOK
    <2>6. CASE r = doc[D]
      BY <1>1, <1>2, <2>2, <2>5, <2>6, QuietSound DEF TypeOK
    <2>7. CASE r # doc[D]
      <3>1. /\ doc' \in [Docs -> Doc] /\ timers' \in [Timers -> Docs \cup {NoDoc}]
            /\ TimersStep /\ MonitorsOwned' /\ Owners'
        BY <1>2, <1>3, <2>1, <2>2, <2>5, <2>7, TextChanged
      <3> QED
        BY <1>1, <1>2, <2>5, <3>1, SoundByParts DEF TypeOK
    <2> QED
      BY <2>6, <2>7
  <1>7. CASE SaveLocal
    <2> DEFINE s == Synced(doc[D], doc[D].text, Top.data, Top.file, StartedId(Top.file))
    <2>1. Top.file \in Files /\ StartFileWatch(D, Top.file) /\ ret' = TRUE
          /\ UNCHANGED <<contents, timers, autoSync, fault>>
      BY <1>3, <1>7 DEF SaveLocal, Return, At, Top
    <2>2. StartedId(Top.file) \in Ids \cup {0} /\ doc[D].text \in Texts
      BY <1>3, <2>1 DEF StartFileWatch, StartedId, FreshIds, Doc
    <2>3. doc' = [doc EXCEPT ![D] = s]
      BY <1>1, <1>3, <1>7, ZenonT(30) DEF SaveLocal, TypeOK, Doc, Synced
    <2>4. /\ s \in Doc
          /\ s.open = doc[D].open /\ s.filename = Top.file
          /\ s.file_monitor_id = StartedId(Top.file) /\ s.status = {}
          /\ s.sync_timeout_id = doc[D].sync_timeout_id
      <3> DEFINE r == doc[D]
                 x == doc[D].text
                 i == StartedId(Top.file)
      <3>1. r \in Doc /\ x \in Texts /\ Top.data \in Texts /\ Top.file \in Files
            /\ i \in Ids \cup {0}
        BY <1>3, <2>1, <2>2
      <3> HIDE DEF r, x, i
      <3>2. LET t == Synced(r, x, Top.data, Top.file, i)
            IN /\ t \in Doc
               /\ t.open = r.open /\ t.filename = Top.file /\ t.file_monitor_id = i
               /\ t.status = {} /\ t.sync_timeout_id = r.sync_timeout_id
        BY <3>1, SyncedType
      <3> QED
        BY <3>2 DEF r, x, i
    <2> HIDE DEF s
    <2>5. /\ doc' \in [Docs -> Doc] /\ doc'[D] = s
          /\ \A e \in Docs \ {D} : doc'[e] = doc[e]
      BY <1>1, <1>3, <2>3, <2>4 DEF TypeOK
    <2>6. MonitorsOwned' /\ Owners' /\ [WatchNext]_watchVars
      BY <1>2, <1>3, <2>1, <2>4, <2>5, MonitorStarted
    <2>7. TimersStep
      BY <1>2, <2>1, <2>4, <2>5, TimersLeft DEF Inv
    <2> QED
      BY <1>1, <1>2, <2>1, <2>5, <2>6, <2>7, SoundByParts DEF TypeOK
  <1> QED
    BY <1>4, <1>5, <1>6, <1>7 DEF Saving

\* A document is loaded no more: its watch is stopped.
LEMMA UnwatchedSound ==
  ASSUME Inv, StackMoved, stack # <<>>, NEW d \in Docs,
         Top.at \notin {"file_watch_callback", "autosync_callback", "autosync_after_save"},
         StopFileWatch(d, doc[d]), UNCHANGED <<contents, timers, autoSync, fault>>,
         ret' \in BOOLEAN
  PROVE  Sound
  <1>1. /\ ~OnCallback /\ ~OnCallback' /\ Reporting' = Reporting
        /\ GoodStack(stack') /\ CallbackOK' /\ \A e \in Docs : DispatchKept(e)
    BY Moved
  <1> DEFINE r == [doc[d] EXCEPT !.file_monitor_id = 0]
  <1>2. doc \in [Docs -> Doc] /\ doc[d] \in Doc
    BY DEF Inv, TypeOK
  <1>3. /\ r \in Doc /\ r.file_monitor_id = 0 /\ r.open = doc[d].open
        /\ r.sync_timeout_id = doc[d].sync_timeout_id
    BY <1>2 DEF Doc
  <1>4. /\ doc' = [doc EXCEPT ![d] = r] /\ monitors' = WatchStopped(d)
        /\ UNCHANGED <<fs, now, poll>>
    BY DEF StopFileWatch
  <1> HIDE DEF r
  <1>5. /\ doc' \in [Docs -> Doc] /\ doc'[d] = r
        /\ \A e \in Docs \ {d} : doc'[e] = doc[e]
    BY <1>2, <1>3, <1>4
  <1>6. MonitorsOwned' /\ Owners' /\ [WatchNext]_watchVars
    BY <1>1, <1>3, <1>4, <1>5, MonitorStopped
  <1>7. TimersStep
    BY <1>1, <1>3, <1>5, TimersLeft DEF Inv
  <1> QED
    BY <1>1, <1>5, <1>6, <1>7, SoundByParts DEF Inv, TypeOK

\* A document is closed, or a new one dropped: with it go its watch and its timer.
LEMMA ClosedSound ==
  ASSUME Inv, StackMoved, stack # <<>>, NEW d \in Docs,
         Top.at \notin {"file_watch_callback", "autosync_callback", "autosync_after_save"},
         StopFileWatch(d, ClosedDoc), timers' = RemoveTimer(doc[d].sync_timeout_id),
         UNCHANGED <<contents, autoSync, fault>>, ret' \in BOOLEAN
  PROVE  Sound
  <1>1. /\ ~OnCallback /\ ~OnCallback' /\ Reporting' = Reporting
        /\ GoodStack(stack') /\ CallbackOK' /\ \A e \in Docs : DispatchKept(e)
    BY Moved
  <1>2. doc \in [Docs -> Doc]
    BY DEF Inv, TypeOK
  <1>3. /\ doc' = [doc EXCEPT ![d] = ClosedDoc] /\ monitors' = WatchStopped(d)
        /\ UNCHANGED <<fs, now, poll>>
    BY FreshTypes DEF StopFileWatch
  <1>4. /\ doc' \in [Docs -> Doc] /\ doc'[d] = ClosedDoc
        /\ \A e \in Docs \ {d} : doc'[e] = doc[e]
    BY <1>2, <1>3, FreshTypes
  <1>5. MonitorsOwned' /\ Owners' /\ [WatchNext]_watchVars
    BY <1>1, <1>3, <1>4, FreshTypes, MonitorStopped
  <1>6. timers' \in [Timers -> Docs \cup {NoDoc}] /\ TimersStep
    BY <1>1, <1>3, TimersClosed DEF Inv
  <1> QED
    BY <1>1, <1>4, <1>5, <1>6, SoundByParts DEF Inv, TypeOK

\* A step of Loading.
LEMMA LoadingSound ==
  ASSUME Inv, Loading
  PROVE  Sound
  <1>1. /\ TypeOK /\ GoodStack(stack) /\ stack # <<>> /\ StackMoved
        /\ Top.at \in {"reload", "load_file", "load_text", "open_after_load",
                       "new_doc_after_save_as"}
    BY LoadingStack
       DEF Inv, Loading, Reload, LoadFile, LoadText, OpenAfterLoad, NewDocAfterSaveAs, At, Top
  <1>2. /\ ~OnCallback /\ ~OnCallback' /\ Reporting' = Reporting
        /\ GoodStack(stack') /\ CallbackOK' /\ \A d \in Docs : DispatchKept(d)
    BY <1>1, Moved
  <1>3. /\ D \in Docs /\ doc[D] \in Doc /\ Top \in Frame /\ doc[D].open
        /\ Top.at \in OnFile => Top.file \in Files
        /\ Top.data \in Texts
    BY <1>1, Running
       DEF TypeOK, Frame, Loading, Reload, LoadFile, LoadText, OpenAfterLoad,
           NewDocAfterSaveAs, At, Top, D
  <1>4. ASSUME UNCHANGED <<watchVars, contents, doc, timers, autoSync, fault>>,
               ret' \in BOOLEAN
        PROVE  Sound
    <2>1. /\ [WatchNext]_watchVars /\ UNCHANGED <<monitors, poll, doc, timers, fault>>
          /\ contents' \in [Files -> Texts] /\ autoSync' \in BOOLEAN
      BY <1>1, <1>4 DEF watchVars, TypeOK
    <2> QED
      BY <1>1, <1>2, <1>4, <2>1, QuietSound
  <1>5. CASE Reload
    BY <1>1, <1>4, <1>5 DEF Reload, Return, TypeOK
  <1>6. CASE NewDocAfterSaveAs
    BY <1>1, <1>4, <1>6 DEF NewDocAfterSaveAs, Return, TypeOK
  <1>7. CASE LoadFile
    <2>1. CASE Exists(Top.file)
      BY <1>1, <1>4, <1>7, <2>1 DEF LoadFile, TypeOK
    <2>2. CASE ~Exists(Top.file)
      BY <1>1, <1>3, <1>7, <2>2, UnwatchedSound DEF LoadFile, TypeOK
    <2> QED
      BY <2>1, <2>2
  <1>8. CASE OpenAfterLoad
    <2>1. CASE ret
      BY <1>1, <1>4, <1>8, <2>1 DEF OpenAfterLoad, TypeOK
    <2>2. CASE ~ret
      BY <1>1, <1>3, <1>8, <2>2, ClosedSound DEF OpenAfterLoad, TypeOK
    <2> QED
      BY <2>1, <2>2
  <1>9. CASE LoadText
    <2> DEFINE s == Synced(doc[D], Top.data, Top.data, Top.file, StartedId(Top.file))
    <2>1. Top.file \in Files /\ StartFileWatch(D, Top.file) /\ ret' = TRUE
          /\ UNCHANGED <<contents, autoSync, fault>>
      BY <1>3, <1>9 DEF LoadText, Return, At, Top
    <2>2. StartedId(Top.file) \in Ids \cup {0}
      BY <1>3, <2>1 DEF StartFileWatch, StartedId, FreshIds, Doc
    <2>3. \/ doc' = [doc EXCEPT ![D] = s] /\ UNCHANGED timers
          \/ Changed(D, s)
      BY <1>9 DEF LoadText, Synced
    <2>4. /\ s \in Doc
          /\ s.open = doc[D].open /\ s.filename = Top.file
          /\ s.file_monitor_id = StartedId(Top.file) /\ s.status = {}
          /\ s.sync_timeout_id = doc[D].sync_timeout_id
      <3> DEFINE r == doc[D]
                 i == StartedId(Top.file)
      <3>1. r \in Doc /\ Top.data \in Texts /\ Top.file \in Files /\ i \in Ids \cup {0}
        BY <1>3, <2>1, <2>2
      <3> HIDE DEF r, i
      <3>2. LET t == Synced(r, Top.data, Top.data, Top.file, i)
            IN /\ t \in Doc
               /\ t.open = r.open /\ t.filename = Top.file /\ t.file_monitor_id = i
               /\ t.status = {} /\ t.sync_timeout_id = r.sync_timeout_id
        BY <3>1, SyncedType
      <3> QED
        BY <3>2 DEF r, i
    <2> HIDE DEF s
    <2>5. /\ doc' \in [Docs -> Doc] /\ timers' \in [Timers -> Docs \cup {NoDoc}]
          /\ doc'[D].open /\ doc'[D].filename = Top.file /\ doc'[D].status = {}
          /\ doc'[D].file_monitor_id = StartedId(Top.file)
          /\ \A e \in Docs \ {D} : doc'[e] = doc[e]
          /\ TimersStep
      <3>1. CASE doc' = [doc EXCEPT ![D] = s] /\ UNCHANGED timers
        <4>1. /\ doc' \in [Docs -> Doc] /\ doc'[D] = s
              /\ \A e \in Docs \ {D} : doc'[e] = doc[e]
          BY <1>1, <1>3, <2>4, <3>1 DEF TypeOK
        <4>2. TimersStep
          BY <1>2, <2>4, <3>1, <4>1, TimersLeft DEF Inv
        <4> QED
          BY <1>1, <1>3, <2>4, <3>1, <4>1, <4>2 DEF TypeOK
      <3>2. CASE Changed(D, s)
        <4>1. /\ doc' \in [Docs -> Doc] /\ timers' \in [Timers -> Docs \cup {NoDoc}]
              /\ \E t \in Timers \cup {0} : doc'[D] = [s EXCEPT !.sync_timeout_id = t]
              /\ \A e \in Docs \ {D} : doc'[e] = doc[e]
              /\ TimersStep
          BY <1>1, <1>2, <1>3, <2>4, <3>2, TimersChanged DEF Inv
        <4>2. /\ doc'[D].open = s.open /\ doc'[D].filename = s.filename
              /\ doc'[D].status = s.status /\ doc'[D].file_monitor_id = s.file_monitor_id
          BY <2>4, <4>1 DEF Doc
        <4> QED
          BY <1>3, <2>4, <4>1, <4>2
      <3> QED
        BY <2>3, <3>1, <3>2
    <2>6. MonitorsOwned' /\ Owners' /\ [WatchNext]_watchVars
      BY <1>2, <1>3, <2>1, <2>5, MonitorStarted
    <2> QED
      BY <1>1, <1>2, <2>1, <2>5, <2>6, SoundByParts DEF TypeOK
  <1> QED
    BY <1>5, <1>6, <1>7, <1>8, <1>9 DEF Loading

\* A step of Closing.
LEMMA ClosingSound ==
  ASSUME Inv, Closing
  PROVE  Sound
  <1>1. /\ TypeOK /\ GoodStack(stack) /\ stack # <<>> /\ StackMoved
        /\ Top.at \in {"close", "close_after_save", "do_close_doc"}
    BY ClosingStack DEF Inv, Closing, Close, CloseAfterSave, DoCloseDoc, WindowEmptied, At, Top
  <1>2. \A d \in Docs : DispatchKept(d)
    BY <1>1, Moved
  <1>3. CASE Close \/ CloseAfterSave \/ WindowEmptied
    <2>1. /\ UNCHANGED <<watchVars, contents, doc, timers, autoSync, fault>>
          /\ ret' \in BOOLEAN
      BY <1>1, <1>3 DEF Close, CloseAfterSave, WindowEmptied, Return, TypeOK
    <2>2. /\ [WatchNext]_watchVars /\ UNCHANGED <<monitors, poll, doc, timers, fault>>
          /\ contents' \in [Files -> Texts] /\ autoSync' \in BOOLEAN
      BY <1>1, <2>1 DEF watchVars, TypeOK
    <2> QED
      BY <1>1, <1>2, <2>1, <2>2, QuietSound
  <1>4. CASE DoCloseDoc
    <2>1. D \in Docs
      BY <1>1, Running
    <2>2. /\ StopFileWatch(D, ClosedDoc) /\ timers' = RemoveTimer(doc[D].sync_timeout_id)
          /\ UNCHANGED <<contents, autoSync, fault>> /\ ret' \in BOOLEAN
      BY <1>4 DEF DoCloseDoc, Return
    <2> QED
      BY <1>1, <2>1, <2>2, ClosedSound
  <1> QED
    BY <1>3, <1>4 DEF Closing

\* A step of CloseAll: a quit that has closed everything leaves no timer behind.
LEMMA CloseAllSound ==
  ASSUME Inv, CloseAll
  PROVE  Sound
  <1>1. /\ TypeOK /\ GoodStack(stack) /\ stack # <<>> /\ StackMoved /\ Top.at = "close_all"
    BY CloseAllStack DEF Inv, CloseAll, CloseWindow, QuitCancelled, DoQuit, At, Top
  <1>2. /\ ~OnCallback /\ ~OnCallback' /\ Reporting' = Reporting
        /\ GoodStack(stack') /\ CallbackOK' /\ \A d \in Docs : DispatchKept(d)
    BY <1>1, Moved
  <1>3. CASE (\E d \in Docs : CloseWindow(d)) \/ QuitCancelled
    <2>1. /\ UNCHANGED <<watchVars, contents, doc, timers, autoSync, fault>>
          /\ ret' \in BOOLEAN
      BY <1>1, <1>3 DEF CloseWindow, QuitCancelled, Return, TypeOK
    <2>2. /\ [WatchNext]_watchVars /\ UNCHANGED <<monitors, poll, doc, timers, fault>>
          /\ contents' \in [Files -> Texts] /\ autoSync' \in BOOLEAN
      BY <1>1, <2>1 DEF watchVars, TypeOK
    <2> QED
      BY <1>1, <1>2, <2>1, <2>2, QuietSound
  <1>4. CASE DoQuit
    <2>1. /\ UNCHANGED <<watchVars, contents, doc, autoSync>> /\ ret' \in BOOLEAN
          /\ \A d \in Docs : ~doc[d].open
          /\ timers' = [t \in Timers |-> NoDoc] \/ timers' = timers
          /\ fault' = "freed" \/ fault' = fault
      BY <1>4 DEF DoQuit, Return
    <2>2. \A d \in Docs : doc[d].sync_timeout_id = 0
      BY <2>1 DEF Inv, TimersOwned
    <2>3. /\ timers' \in [Timers -> Docs \cup {NoDoc}]
          /\ fault' \in {"none", "assert", "freed"}
      BY <1>1, <2>1 DEF TypeOK
    <2>4. TimersStep
      BY <2>1, <2>2 DEF TimersStep, TimersOwned, TimerLives, TimerKept
    <2>5. MonitorsOwned' /\ Owners'
      BY <1>2, <2>1, MonitorsLeft DEF Inv, watchVars
    <2> QED
      BY <1>1, <1>2, <2>1, <2>3, <2>4, <2>5, SoundByParts DEF TypeOK
  <1> QED
    BY <1>3, <1>4 DEF CloseAll

\* A step of Autosync.
LEMMA AutosyncSound ==
  ASSUME Inv, Autosync
  PROVE  Sound
  <1>1. TypeOK /\ GoodStack(stack) /\ StackMoved /\ GoodStack(stack') /\ BelowKept
    BY AutosyncStack DEF Inv, StackMoved
  <1>2. ~OnCallback /\ ~OnCallback' /\ Reporting' = Reporting /\ CallbackOK'
    BY <1>1, NotReporting
       DEF StackMoved, CallbackOK, Autosync, TimerFires, MainLoop, AutosyncCallback,
           AutosyncAfterSave, At, OnCallback, Top
  <1>3. ASSUME NEW t \in Timers, NEW d \in Docs, timers[t] = d, TimerFires(t) PROVE Sound
    <2> DEFINE f == Call("autosync_callback", d)
    <2>1. (stack = <<>> \/ Top.at \in Dialogs) /\ Push(f)
      BY <1>3 DEF TimerFires, MainLoop, Top
    <2>2. \A e \in Docs : DispatchKept(e)
      BY <1>1, <2>1, Moved
    <2>3. f \in Frames /\ f.at = "autosync_callback" /\ f.doc = d
      BY CallFrame
    <2> HIDE DEF f
    <2>4. Top' = f /\ stack' # <<>>
      BY <1>1, <2>1, <2>3, PushedOver DEF Suspended
    <2>5. Dispatching(d)'
      <3>1. 1 \in DOMAIN stack'
        BY <1>1, <2>4, LenProperties, EmptySeq DEF GoodStack
      <3>2. stack'[1].at = "autosync_callback" /\ stack'[1].doc = d
        BY <2>3, <2>4 DEF Top
      <3> QED
        BY <3>1, <3>2 DEF Dispatching
    <2>6. /\ timers' = [timers EXCEPT ![t] = NoDoc] /\ doc' = doc
          /\ UNCHANGED <<watchVars, contents, autoSync, ret, fault>>
      BY <1>3 DEF TimerFires
    <2>7. timers' \in [Timers -> Docs \cup {NoDoc}] /\ TimersStep
      BY <1>1, <1>3, <2>2, <2>5, <2>6, TimerDispatched DEF Inv
    <2>8. MonitorsOwned' /\ Owners'
      BY <1>2, <2>6, MonitorsLeft DEF Inv, watchVars
    <2> QED
      BY <1>1, <1>2, <2>6, <2>7, <2>8, SoundByParts DEF TypeOK
  <1>4. ASSUME stack # <<>>, Top.at \in {"autosync_callback", "autosync_after_save"},
               timers' = timers, doc' = [doc EXCEPT ![D].sync_timeout_id = 0],
               UNCHANGED <<watchVars, contents, autoSync, fault>>, ret' = TRUE
        PROVE  Sound
    <2>1. D \in Docs /\ doc[D] \in Doc
      BY <1>1, <1>4, Running DEF TypeOK
    <2>2. \A e \in Docs \ {D} : DispatchKept(e)
      BY <1>1, DispatchStays
    <2>3. doc' \in [Docs -> Doc] /\ TimersStep
      BY <1>1, <1>4, <2>1, <2>2, TimersZeroed DEF Inv
    <2>4. \A e \in Docs : /\ doc'[e].file_monitor_id = doc[e].file_monitor_id
                           /\ doc'[e].open = doc[e].open
                           /\ doc'[e].filename = doc[e].filename
                           /\ doc'[e].status = doc[e].status
      BY <1>1, <1>4, <2>1 DEF TypeOK, Doc
    <2>5. MonitorsOwned' /\ Owners'
      BY <1>2, <1>4, <2>4, MonitorsLeft DEF Inv, watchVars
    <2> QED
      BY <1>1, <1>2, <1>4, <2>3, <2>5, SoundByParts DEF TypeOK
  <1>5. CASE AutosyncAfterSave
    BY <1>4, <1>5 DEF AutosyncAfterSave, Return, At, Top
  <1>6. CASE AutosyncCallback /\ ~doc[D].buf_modified
    BY <1>4, <1>6 DEF AutosyncCallback, Return, At, Top
  <1>7. CASE AutosyncCallback /\ doc[D].buf_modified
    <2> DEFINE f == Call("save", D)
               g == [Top EXCEPT !.at = "autosync_after_save"]
    <2>1. /\ stack # <<>> /\ Top.at = "autosync_callback" /\ stack' = <<f, g>> \o Tail(stack)
          /\ UNCHANGED <<watchVars, contents, doc, timers, autoSync, ret, fault>>
      BY <1>7 DEF AutosyncCallback, At, Top
    <2>2. Top \in Frames /\ D \in Docs
      BY <1>1, <2>1, Running
    <2>3. f \in Frames /\ f.at = "save"
      BY <2>2, CallFrame
    <2>4. g \in SuspendedFrames /\ g.at = "autosync_after_save" /\ g.doc = D
      BY <2>2 DEF Frames, Frame, SuspendedFrames, Suspended, D
    <2> HIDE DEF f, g
    <2>5. Len(stack') >= 2 /\ stack'[2] = g
      BY <1>1, <2>1, <2>3, <2>4, WentTwo
    <2>6. 2 \in DOMAIN stack'
      BY <1>1, <2>5, LenProperties DEF GoodStack
    <2>7. ASSUME NEW e \in Docs PROVE DispatchKept(e)
      <3>1. CASE e = D
        BY <2>4, <2>5, <2>6, <3>1 DEF DispatchKept, Dispatching
      <3>2. CASE e # D
        BY <1>1, <3>2, DispatchStays
      <3> QED
        BY <3>1, <3>2
    <2>8. /\ [WatchNext]_watchVars /\ UNCHANGED <<monitors, poll, doc, timers, fault>>
          /\ contents' \in [Files -> Texts] /\ autoSync' \in BOOLEAN /\ ret' \in BOOLEAN
      BY <1>1, <2>1 DEF watchVars, TypeOK
    <2> QED
      BY <1>1, <2>1, <2>7, <2>8, QuietSound
  <1>8. ASSUME NEW t \in Timers, TimerFires(t) PROVE timers[t] \in Docs
    BY <1>1, <1>8 DEF TimerFires, TypeOK
  <1> QED
    BY <1>3, <1>5, <1>6, <1>7, <1>8 DEF Autosync

\* A step of Answers.
LEMMA AnswersSound ==
  ASSUME Inv, Answers
  PROVE  Sound
  <1>1. /\ TypeOK /\ GoodStack(stack) /\ stack # <<>> /\ StackMoved /\ Top.at \in Dialogs
    BY AnswersStack
       DEF Inv, Answers, AnswerOverwriteModified, AnswerReloadModified, AnswerSaveErrorEnc,
           AnswerSaveAs, AnswerSaveChanges, AcknowledgeSaveError, AcknowledgeLoadError,
           AnswerTryEncoding, CancelTryEncoding, Asking, Top
  <1>2. /\ ~OnCallback /\ ~OnCallback' /\ Reporting' = Reporting
        /\ GoodStack(stack') /\ CallbackOK' /\ \A d \in Docs : DispatchKept(d)
    BY <1>1, Moved
  <1>3. CASE CancelTryEncoding
    <2>1. D \in Docs
      BY <1>1, Running
    <2>2. /\ StopFileWatch(D, doc[D]) /\ ret' \in BOOLEAN
          /\ UNCHANGED <<contents, timers, autoSync, fault>>
      BY <1>3 DEF CancelTryEncoding, Return
    <2> QED
      BY <1>1, <2>1, <2>2, UnwatchedSound
  <1>4. CASE ~CancelTryEncoding
    <2>1. /\ UNCHANGED <<watchVars, contents, doc, timers, autoSync, fault>>
          /\ ret' \in BOOLEAN
      BY <1>1, <1>4
         DEF Answers, AnswerOverwriteModified, AnswerReloadModified, AnswerSaveErrorEnc,
             AnswerSaveAs, AnswerSaveChanges, AcknowledgeSaveError, AcknowledgeLoadError,
             AnswerTryEncoding, Return, TypeOK
    <2>2. /\ [WatchNext]_watchVars /\ UNCHANGED <<monitors, poll, doc, timers, fault>>
          /\ contents' \in [Files -> Texts] /\ autoSync' \in BOOLEAN
      BY <1>1, <2>1 DEF watchVars, TypeOK
    <2> QED
      BY <1>1, <1>2, <2>1, <2>2, QuietSound
  <1> QED
    BY <1>3, <1>4

\* A step in a main loop that sets one document and leaves its ties alone.
LEMMA DocSetSound ==
  ASSUME Inv, StackMoved, stack = <<>> \/ Top.at \in Dialogs,
         NEW d \in Docs, NEW r \in Doc, doc' = [doc EXCEPT ![d] = r],
         r.file_monitor_id = doc[d].file_monitor_id,
         r.sync_timeout_id = doc[d].sync_timeout_id,
         doc[d].open => r.open,
         doc[d].file_monitor_id # 0 => SameTies(doc[d], r),
         UNCHANGED <<watchVars, contents, timers, autoSync, ret, fault>>
  PROVE  Sound
  <1>1. /\ ~OnCallback /\ ~OnCallback' /\ Reporting' = Reporting
        /\ GoodStack(stack') /\ CallbackOK' /\ \A e \in Docs : DispatchKept(e)
    BY Moved
  <1>2. /\ doc' \in [Docs -> Doc] /\ doc'[d] = r
        /\ \A e \in Docs \ {d} : doc'[e] = doc[e]
    BY DEF Inv, TypeOK
  <1>3. MonitorsOwned' /\ Owners'
    BY <1>1, <1>2, MonitorsLeft DEF Inv, SameTies, watchVars
  <1>4. TimersStep
    BY <1>1, <1>2, TimersLeft DEF Inv
  <1> QED
    BY <1>1, <1>2, <1>3, <1>4, SoundByParts DEF Inv, TypeOK

\* An edit in the outermost main loop.
LEMMA UserEditSound ==
  ASSUME Inv, StackMoved, stack = <<>>, NEW d \in Docs, doc[d].open,
         NEW r \in Doc, SameTies(doc[d], r), Changed(d, r),
         UNCHANGED <<watchVars, contents, autoSync, ret, fault>>
  PROVE  Sound
  <1>1. /\ ~OnCallback /\ ~OnCallback' /\ Reporting' = Reporting
        /\ GoodStack(stack') /\ CallbackOK' /\ \A e \in Docs : DispatchKept(e)
    BY Moved
  <1>2. /\ doc' \in [Docs -> Doc] /\ timers' \in [Timers -> Docs \cup {NoDoc}]
        /\ TimersStep /\ MonitorsOwned' /\ Owners'
    BY <1>1, TextChanged DEF watchVars
  <1> QED
    BY <1>1, <1>2, SoundByParts DEF Inv, TypeOK

\* A step of User.
LEMMA UserSound ==
  ASSUME Inv, User
  PROVE  Sound
  <1>1. TypeOK /\ GoodStack(stack) /\ StackMoved /\ (stack = <<>> \/ Top.at \in Dialogs)
    BY UserStack DEF Inv, StackMoved
  <1>2. /\ ~OnCallback /\ ~OnCallback' /\ Reporting' = Reporting
        /\ GoodStack(stack') /\ CallbackOK' /\ \A d \in Docs : DispatchKept(d)
    BY <1>1, Moved
  <1>3. doc \in [Docs -> Doc]
    BY <1>1 DEF TypeOK
  <1>4. ASSUME NEW d \in Docs, ~doc[d].open
        PROVE  doc[d].file_monitor_id = 0 /\ doc[d].sync_timeout_id = 0
    BY <1>4 DEF Inv, MonitorsOwned, TimersOwned
  <1>5. ASSUME NEW d \in Docs, doc[d].filename = NoFile
        PROVE  doc[d].file_monitor_id = 0
    BY <1>5 DEF Inv, MonitorsOwned, Served, Requests
  <1>6. ASSUME UNCHANGED <<watchVars, contents, doc, timers, ret, fault>>, autoSync' \in BOOLEAN
        PROVE  Sound
    <2>1. /\ [WatchNext]_watchVars /\ UNCHANGED <<monitors, poll, doc, timers, fault>>
          /\ contents' \in [Files -> Texts] /\ ret' \in BOOLEAN
      BY <1>1, <1>6 DEF watchVars, TypeOK
    <2> QED
      BY <1>1, <1>2, <1>6, <2>1, QuietSound
  <1>7. ASSUME NEW d \in Docs, NewDoc(d) PROVE Sound
    <2>1. /\ doc' = [doc EXCEPT ![d] = FreshDoc] /\ ~doc[d].open
          /\ UNCHANGED <<watchVars, contents, timers, autoSync, ret, fault>>
      BY <1>7 DEF NewDoc, Unreferenced
    <2> QED
      BY <1>1, <1>4, <2>1, FreshTypes, DocSetSound
  <1>8. ASSUME NEW d \in Docs, Reopen(d) PROVE Sound
    BY <1>1, <1>6, <1>8 DEF Reopen, TypeOK
  <1>9. ASSUME NEW d \in Docs, UndoToSaved(d) PROVE Sound
    <2> DEFINE r == [doc[d] EXCEPT !.text = doc[d].saved]
               s == ModifiedChanged(r, FALSE)
    <2>1. r \in Doc /\ SameTies(doc[d], r)
      BY <1>3 DEF Doc, SameTies
    <2>2. /\ stack = <<>> /\ doc[d].open /\ Changed(d, s)
          /\ UNCHANGED <<watchVars, contents, autoSync, ret, fault>>
      BY <1>9 DEF UndoToSaved, Idle
    <2> HIDE DEF r
    <2>3. s \in Doc /\ SameTies(doc[d], s)
      BY <2>1, ModifiedChangedType DEF SameTies
    <2> HIDE DEF s
    <2> QED
      BY <1>1, <2>2, <2>3, UserEditSound
  <1>10. ASSUME NEW d \in Docs, NEW x \in Texts, Type(d, x) PROVE Sound
    <2> DEFINE s == Edited(doc[d], x)
    <2>1. s \in Doc /\ SameTies(doc[d], s)
      BY <1>3, EditedType
    <2>2. /\ stack = <<>> /\ doc[d].open /\ Changed(d, s)
          /\ UNCHANGED <<watchVars, contents, autoSync, ret, fault>>
      BY <1>10 DEF Type, Idle
    <2> HIDE DEF s
    <2> QED
      BY <1>1, <2>1, <2>2, UserEditSound
  <1>11. ASSUME NEW d \in Docs, NEW clean \in BOOLEAN, SetClean(d, clean) PROVE Sound
    <2> DEFINE st == IF clean THEN doc[d].status \cup {"CLEAN"} ELSE doc[d].status \ {"CLEAN"}
               r == [doc[d] EXCEPT !.status = st]
    <2>1. /\ st \in SUBSET StatusFlags
          /\ st \cap CHANGED_ON_DISK = doc[d].status \cap CHANGED_ON_DISK
      BY <1>3 DEF Doc, StatusFlags, CHANGED_ON_DISK
    <2>2. /\ doc' = [doc EXCEPT ![d] = r] /\ doc[d].open
          /\ UNCHANGED <<watchVars, contents, timers, autoSync, ret, fault>>
      BY <1>3, <1>11 DEF SetClean
    <2> HIDE DEF st
    <2>3. r \in Doc /\ SameTies(doc[d], r)
      BY <1>3, <2>1 DEF Doc, SameTies
    <2> HIDE DEF r
    <2> QED
      BY <1>1, <2>2, <2>3, DocSetSound DEF SameTies
  <1>12. ASSUME NEW d \in Docs, NEW f \in Files, NEW create \in BOOLEAN, OpenFile(d, f, create)
         PROVE  Sound
    <2> DEFINE r == IF ~doc[d].open THEN FreshDoc ELSE doc[d]
               s == [r EXCEPT !.status = {"NEW"}, !.filename = f]
    <2>1. /\ doc' = [doc EXCEPT ![d] = s] \/ doc' = [doc EXCEPT ![d] = r]
          /\ doc[d].open => doc[d].filename = NoFile
          /\ UNCHANGED <<watchVars, contents, timers, autoSync, ret, fault>>
      BY <1>12 DEF OpenFile, Empty
    <2>2. /\ r \in Doc /\ r.open = TRUE /\ r.file_monitor_id = doc[d].file_monitor_id
          /\ r.sync_timeout_id = doc[d].sync_timeout_id
      <3>1. CASE doc[d].open
        BY <1>3, <3>1 DEF Doc
      <3>2. CASE ~doc[d].open
        BY <1>4, <3>2, FreshTypes DEF FreshDoc
      <3> QED
        BY <3>1, <3>2
    <2>3. doc[d].file_monitor_id = 0
      BY <1>4, <1>5, <2>1
    <2> HIDE DEF r
    <2>4. {"NEW"} \in SUBSET StatusFlags
      BY DEF StatusFlags
    <2>5. /\ s \in Doc /\ s.open = TRUE /\ s.file_monitor_id = doc[d].file_monitor_id
          /\ s.sync_timeout_id = doc[d].sync_timeout_id
      BY <2>2, <2>4 DEF Doc
    <2> HIDE DEF s
    <2> QED
      BY <1>1, <2>1, <2>2, <2>3, <2>5, DocSetSound
  <1>13. ASSUME NEW d \in Docs, NEW c, UserCommand(d, c) PROVE Sound
    BY <1>1, <1>6, <1>13 DEF UserCommand, TypeOK
  <1>14. ASSUME NEW b \in Prefs, SetPref(b) PROVE Sound
    BY <1>1, <1>6, <1>14, DocSyncAssumption DEF DocSyncAssumption, SetPref
  <1>15. ASSUME NEW d \in Docs, NewUntitled(d) PROVE Sound
    <2>1. /\ doc' = [doc EXCEPT ![d] = FreshDoc] /\ ~doc[d].open
          /\ UNCHANGED <<watchVars, contents, timers, autoSync, ret, fault>>
      BY <1>15 DEF NewUntitled, Unreferenced
    <2> QED
      BY <1>1, <1>4, <2>1, FreshTypes, DocSetSound
  <1>16. CASE Quit
    <2>1. /\ [WatchNext]_watchVars /\ UNCHANGED <<monitors, poll, doc, timers, fault>>
          /\ contents' \in [Files -> Texts] /\ autoSync' \in BOOLEAN /\ ret' \in BOOLEAN
      BY <1>1, <1>16 DEF Quit, watchVars, TypeOK
    <2> QED
      BY <1>1, <1>2, <2>1, QuietSound
  <1> QED
    BY <1>7, <1>8, <1>9, <1>10, <1>11, <1>12, <1>13, <1>14, <1>15, <1>16 DEF User

\* The callback of the file watch sees the same after a step of another process.
LEMMA OthersSound ==
  ASSUME Inv, Others
  PROVE  Sound
  <1>1. UNCHANGED <<monitors, poll, doc, timers, autoSync, stack, ret, fault>>
    BY DEF Others, ExternalWrite, ExternalDelete, ExternalHide, TimePasses, ReplaceFile,
           DeleteFile, HideFile, Tick, docVars
  <1>2. WatchNext /\ contents' \in [Files -> Texts]
    <2>1. ASSUME NEW f \in Files, NEW x \in Texts, NEW t \in Time, ExternalWrite(f, x, t)
          PROVE  WatchNext /\ contents' \in [Files -> Texts]
      <3>1. ReplaceFile(f, t) /\ contents' = [contents EXCEPT ![f] = x]
        BY <2>1 DEF ExternalWrite
      <3> QED
        BY <3>1 DEF WatchNext, Environment, Inv, TypeOK
    <2>2. ASSUME NEW f \in Files, ExternalDelete(f) \/ ExternalHide(f)
          PROVE  WatchNext /\ contents' \in [Files -> Texts]
      BY <2>2 DEF ExternalDelete, ExternalHide, docVars, WatchNext, Environment, Inv, TypeOK
    <2>3. CASE TimePasses
      BY <2>3 DEF TimePasses, docVars, WatchNext, Environment, Inv, TypeOK
    <2> QED
      BY <2>1, <2>2, <2>3 DEF Others
  <1>3. /\ Reporting' = Reporting /\ CallbackOK' /\ GoodStack(stack')
        /\ \A d \in Docs : DispatchKept(d)
    BY <1>1 DEF Reporting, At, Top, CallbackOK, OnCallback, D, Requests, Inv, DispatchKept,
                Dispatching
  <1>4. MonitorsOwned' /\ Owners' /\ TimersStep
    BY <1>1, <1>3, MonitorsLeft, TimersLeft DEF Inv
  <1> QED
    BY <1>1, <1>2, <1>3, <1>4, SoundByParts DEF Inv, TypeOK

\* A handler that finds its document closed is none of the file watch.
LEMMA UseAfterCloseSound ==
  ASSUME Inv, UseAfterClose
  PROVE  Sound
  <1>1. UNCHANGED <<watchVars, contents, doc, timers, autoSync, stack, ret>>
    BY DEF UseAfterClose
  <1>2. ~OnCallback /\ ~OnCallback'
    BY <1>1 DEF UseAfterClose, Inv, CallbackOK, OnCallback, Top
  <1>3. /\ Reporting' = Reporting /\ CallbackOK' /\ GoodStack(stack')
        /\ \A d \in Docs : DispatchKept(d)
    BY <1>1, <1>2, NotReporting DEF CallbackOK, Inv, DispatchKept, Dispatching
  <1>4. MonitorsOwned' /\ Owners' /\ TimersStep
    BY <1>1, <1>3, MonitorsLeft, TimersLeft DEF Inv, watchVars
  <1>5. fault' \in {"none", "assert", "freed"}
    BY DEF UseAfterClose
  <1> QED
    BY <1>1, <1>3, <1>4, <1>5, SoundByParts DEF Inv, TypeOK

\* A poll that leaves the documents alone, and the table to those who use it.
LEMMA ServedLeft ==
  ASSUME Owners, MonitorsOwned, doc' = doc, Served' = Served,
         \A i \in Requests' : i \in Requests,
         \A i \in Requests' \cup Served : /\ monitors'[i].data = monitors[i].data
                                          /\ monitors'[i].file = monitors[i].file
  PROVE  MonitorsOwned' /\ Owners'
  <1>1. Owners'
    BY DEF Owners
  <1>2. MonitorsOwned'
    BY DEF MonitorsOwned
  <1> QED
    BY <1>1, <1>2

\* The steps of do_stat are steps of the watch: a poll begins,
LEMMA StartPollSound ==
  ASSUME Inv, StartPoll
  PROVE  Sound
  <1>1. /\ TypeOK /\ GoodStack(stack) /\ GoodStack(stack') /\ BelowKept
        /\ OnCallback' => \E i \in Ids : PollMonitor(i)
    BY PollingStack DEF Inv, Polling
  <1>2. stack = <<>> \/ Top.at \in Dialogs
    BY DEF StartPoll, MainLoop, Top
  <1>3. StackMoved
    BY <1>1, <1>2 DEF StackMoved, PollMonitor, At, Top
  <1>4. /\ ~OnCallback /\ ~OnCallback' /\ Reporting = {} /\ Reporting' = {} /\ CallbackOK'
        /\ \A d \in Docs : DispatchKept(d)
    BY <1>2, <1>3, Moved, NotReporting
  <1>5. PollBegin /\ UNCHANGED <<monitors, contents, doc, timers, autoSync, ret, fault>>
    BY DEF StartPoll, PollBegin
  <1>6. poll.gone = {} /\ poll'.gone = {}
    BY <1>5 DEF PollBegin, Inv, PollKept, NoPoll
  <1>7. Served' = Served /\ Requests' = Requests
    BY <1>4, <1>5, <1>6 DEF Served, Requests
  <1>8. MonitorsOwned' /\ Owners'
    BY <1>5, <1>7, ServedLeft DEF Inv
  <1>9. TimersStep
    BY <1>4, <1>5, TimersLeft DEF Inv
  <1>10. [WatchNext]_watchVars
    BY <1>5 DEF WatchNext, DoStat
  <1> QED
    BY <1>1, <1>4, <1>5, <1>8, <1>9, <1>10, SoundByParts DEF Inv, TypeOK

\* ends,
LEMMA FinishPollSound ==
  ASSUME Inv, FinishPoll
  PROVE  Sound
  <1>1. TypeOK /\ GoodStack(stack) /\ stack # <<>> /\ Top.at = "do_stat"
    BY DEF Inv, FinishPoll, At, Top
  <1>2. StackMoved
    BY <1>1, Returned DEF FinishPoll
  <1>3. /\ ~OnCallback /\ ~OnCallback' /\ Reporting = {} /\ Reporting' = {} /\ CallbackOK'
        /\ GoodStack(stack') /\ \A d \in Docs : DispatchKept(d)
    BY <1>1, <1>2, Moved, NotReporting
  <1>4. PollEnd /\ UNCHANGED <<contents, doc, timers, autoSync, ret, fault>>
    BY DEF FinishPoll
  <1>5. poll'.gone = {} /\ \A i \in Ids : monitors'[i] = IF i \in poll.gone THEN FreeMonitor
                                                                       ELSE monitors[i]
    BY <1>4 DEF PollEnd, NoPoll
  <1>6. Requests' = Requests \ poll.gone
    BY <1>5, NoDocDistinct DEF Requests, FreeMonitor
  <1>7. Served' = Served
    BY <1>3, <1>5, <1>6 DEF Served
  <1>8. \A i \in Requests' \cup Served : i \in Requests /\ monitors'[i] = monitors[i]
    BY <1>3, <1>5, <1>6 DEF Served, Requests
  <1>9. MonitorsOwned' /\ Owners'
    BY <1>4, <1>7, <1>8, ServedLeft DEF Inv
  <1>10. TimersStep
    BY <1>3, <1>4, TimersLeft DEF Inv
  <1>11. [WatchNext]_watchVars
    BY <1>4 DEF WatchNext, DoStat
  <1> QED
    BY <1>3, <1>4, <1>9, <1>10, <1>11, SoundByParts DEF Inv, TypeOK

\* and one monitor after the other is looked at, its document told of the event.
LEMMA PollMonitorSound ==
  ASSUME Inv, NEW i \in Ids, PollMonitor(i)
  PROVE  Sound
  <1>1. /\ TypeOK /\ GoodStack(stack) /\ Owners /\ stack # <<>> /\ Top.at = "do_stat"
        /\ fault = "none"
    BY DEF Inv, PollMonitor, At, Top
  <1>2. /\ GoodStack(stack') /\ BelowKept
        /\ EventCode(i) # "none" => Top' = CallbackFrame(i) /\ OnCallback'
    BY <1>1, PollingStack DEF Polling
  <1>3. EventCode(i) = "none" => ~OnCallback'
    BY <1>1 DEF PollMonitor, OnCallback, Top
  <1>4. /\ ~OnCallback /\ Reporting = {} /\ \A d \in Docs : DispatchKept(d)
    BY <1>1, <1>2, NotReporting, DispatchStays DEF OnCallback
  <1>5. StatMonitor(i) /\ UNCHANGED <<contents, doc, timers, autoSync, ret, fault>>
    BY DEF PollMonitor
  <1>6. /\ monitors \in [Ids -> Monitor] /\ poll \in Poll
        /\ poll.gone \cap poll.todo = {}
    BY <1>1 DEF TypeOK, Inv, PollKept
  <1>7. \A j \in Ids : monitors'[j].file = monitors[j].file /\ monitors'[j].data = monitors[j].data
    BY <1>5, <1>6 DEF StatMonitor, Monitor
  <1>8. Requests' = Requests
    BY <1>7 DEF Requests
  <1>9. /\ i \in poll.todo /\ i \notin poll.gone
        /\ poll'.gone = IF EventCode(i) = "deleted" THEN poll.gone \cup {i} ELSE poll.gone
    BY <1>5, <1>6 DEF StatMonitor, Poll
  <1>10. EventCode(i) # "none" =>
           /\ i \in Served /\ monitors[i].data \in Docs
           /\ doc[monitors[i].data].file_monitor_id = i
           /\ doc[monitors[i].data].open
    BY <1>4, <1>9, NoDocDistinct DEF EventCode, Served, Inv, MonitorsOwned, Owners
  <1>11. EventCode(i) # "none" =>
           /\ stack' # <<>> /\ Top'.at = "file_watch_callback" /\ Top'.id = i
           /\ Top'.code = EventCode(i) /\ D' = monitors[i].data
    BY <1>2 DEF CallbackFrame, Call, D, OnCallback
  <1>12. CallbackOK'
    BY <1>3, <1>5, <1>8, <1>9, <1>10, <1>11 DEF CallbackOK, Served
  <1>13. Served' = Served
    <2>1. CASE EventCode(i) = "none"
      BY <1>3, <1>4, <1>8, <1>9, <2>1, NotReporting DEF Served
    <2>2. CASE EventCode(i) # "none"
      <3>1. Reporting' = {i}
        BY <1>1, <1>5, <1>10, <1>11, <2>2 DEF Reporting, At, Top, D
      <3> QED
        BY <1>4, <1>8, <1>9, <3>1 DEF Served
    <2> QED
      BY <2>1, <2>2
  <1>14. MonitorsOwned' /\ Owners'
    <2>1. \A j \in Requests' \cup Served : j \in Ids /\ (j \in Requests' => j \in Requests)
      BY <1>8 DEF Served, Requests
    <2> QED
      BY <1>5, <1>7, <1>13, <2>1, ServedLeft DEF Inv
  <1>15. TimersStep
    BY <1>4, <1>5, TimersLeft DEF Inv
  <1>16. [WatchNext]_watchVars
    BY <1>5 DEF WatchNext, DoStat
  <1> QED
    BY <1>1, <1>2, <1>5, <1>12, <1>14, <1>15, <1>16, SoundByParts DEF TypeOK

\* What the callback of the file watch makes of a document.
LEMMA NotedType ==
  ASSUME TypeOK, NEW d \in Docs, NEW c
  PROVE  LET r == Noted(d, c)
         IN /\ r \in Doc /\ r.open = doc[d].open /\ r.filename = doc[d].filename
            /\ r.status = doc[d].status /\ r.sync_timeout_id = doc[d].sync_timeout_id
            /\ r.file_monitor_id = IF c = "deleted" THEN 0 ELSE doc[d].file_monitor_id
  <1> DEFINE r == Noted(d, c)
             m == doc[d].modified_on_disk \/ c = "changed"
             x == doc[d].deleted_from_disk \/ c = "deleted"
             i == IF c = "deleted" THEN 0 ELSE doc[d].file_monitor_id
  <1>1. doc[d] \in Doc
    BY DEF TypeOK
  <1>2. m \in BOOLEAN /\ x \in BOOLEAN
    OBVIOUS
  <1>3. i \in Ids \cup {0}
    BY <1>1 DEF Doc
  <1>4. r = [doc[d] EXCEPT !.modified_on_disk = m, !.deleted_from_disk = x,
                           !.file_monitor_id = i]
    BY DEF Noted
  <1> HIDE DEF m, x, i, r
  <1>5. /\ r \in Doc /\ r.open = doc[d].open /\ r.filename = doc[d].filename
        /\ r.status = doc[d].status /\ r.sync_timeout_id = doc[d].sync_timeout_id
        /\ r.file_monitor_id = i
    BY <1>1, <1>2, <1>3, <1>4 DEF Doc
  <1> QED
    BY <1>5 DEF r, i

\* add_status: a flagged document is a document, watched no more.
LEMMA FlaggedType ==
  ASSUME NEW r \in Doc
  PROVE  /\ Flagged(r) \in Doc /\ Flagged(r).open = r.open
         /\ Flagged(r).sync_timeout_id = r.sync_timeout_id /\ Flagged(r).file_monitor_id = 0
  <1> DEFINE st == r.status \cup {IF r.deleted_from_disk THEN "DELETED" ELSE "MODIFIED_ON_DISK"}
  <1>1. st \in SUBSET StatusFlags
    BY DEF Doc, StatusFlags
  <1>2. Flagged(r) = [r EXCEPT !.modified_on_disk = FALSE, !.deleted_from_disk = FALSE,
                               !.file_monitor_id = 0, !.status = st]
    BY DEF Flagged
  <1> HIDE DEF st
  <1> QED
    BY <1>1, <1>2 DEF Doc

\* A document and the watch forget the monitor they had in common.
LEMMA MonitorForgotten ==
  ASSUME Owners, MonitorsOwned, NEW d \in Docs, NEW i, i = doc[d].file_monitor_id, i # 0,
         Served' = Served \ {i}, Requests' \subseteq Requests,
         \A j \in Requests' \ {i} : /\ monitors'[j].data = monitors[j].data
                                    /\ monitors'[j].file = monitors[j].file,
         i \in Requests' => monitors'[i].data = d,
         doc'[d].file_monitor_id = 0, \A e \in Docs \ {d} : doc'[e] = doc[e]
  PROVE  MonitorsOwned' /\ Owners'
  <1>1. Owners'
    BY DEF Owners
  <1>2. \A j \in Served' : j \in Requests' \ {i} /\ j \in Served /\ monitors[j].data \in Docs \ {d}
    BY DEF Served, MonitorsOwned, Owners
  <1>3. \A e \in Docs \ {d} : doc[e].file_monitor_id # i
    BY DEF MonitorsOwned
  <1>4. MonitorsOwned'
    BY <1>2, <1>3 DEF MonitorsOwned
  <1> QED
    BY <1>1, <1>4

\* The callback of the file watch: the document notes the event, and is then
\* flagged, or else reloaded or closed; the monitor is gone with it but where
\* the event is an error or a change under auto sync.
LEMMA FileWatchCallbackSound ==
  ASSUME Inv, FileWatchCallback
  PROVE  Sound
  <1> DEFINE i == Top.id
             r == Noted(D, Top.code)
  <1>1. TypeOK /\ GoodStack(stack) /\ OnCallback /\ At("file_watch_callback")
    BY DEF Inv, FileWatchCallback, At, OnCallback, Top
  <1>2. /\ GoodStack(stack') /\ BelowKept /\ ~OnCallback' /\ CallbackOK'
        /\ \A d \in Docs : DispatchKept(d)
    <2>1. /\ GoodStack(stack') /\ BelowKept
          /\ OnCallback' => \E j \in Ids : PollMonitor(j)
      BY <1>1, PollingStack DEF Inv, Polling
    <2>2. \A j \in Ids : ~PollMonitor(j)
      BY <1>1 DEF PollMonitor, OnCallback, At, Top
    <2>3. \A d \in Docs : DispatchKept(d)
      BY <1>1, <2>1, DispatchStays DEF OnCallback
    <2> QED
      BY <2>1, <2>2, <2>3 DEF CallbackOK
  <1>3. /\ i \in Requests /\ i \in Ids /\ i # 0 /\ D \in Docs /\ doc[D].open
        /\ doc[D].file_monitor_id = i
        /\ Top.code = "deleted" <=> i \in poll.gone
    BY <1>1, NoDocDistinct DEF Inv, CallbackOK, Requests
  <1>4. /\ Reporting = {i} /\ Served = Requests \ (poll.gone \ {i})
        /\ Reporting' = {} /\ Served' = Requests' \ poll'.gone
    BY <1>1, <1>2, NotReporting DEF Reporting, Served
  <1>5. CallbackAccepts(D, i)
    BY <1>3 DEF Inv, MonitorsOwned, CallbackAccepts, Requests
  <1>6. /\ r \in Doc /\ r.open = doc[D].open /\ r.filename = doc[D].filename
        /\ r.status = doc[D].status /\ r.sync_timeout_id = doc[D].sync_timeout_id
        /\ r.file_monitor_id = IF Top.code = "deleted" THEN 0 ELSE i
    <2> DEFINE c == Top.code
               d == D
    <2>1. d \in Docs
      BY <1>3
    <2> HIDE DEF c, d
    <2>2. LET s == Noted(d, c)
          IN /\ s \in Doc /\ s.open = doc[d].open /\ s.filename = doc[d].filename
             /\ s.status = doc[d].status /\ s.sync_timeout_id = doc[d].sync_timeout_id
             /\ s.file_monitor_id = IF c = "deleted" THEN 0 ELSE doc[d].file_monitor_id
      BY <1>1, <2>1, NotedType
    <2> QED
      BY <1>3, <2>2 DEF c, d
  <1>7. /\ monitors \in [Ids -> Monitor] /\ doc \in [Docs -> Doc]
        /\ UNCHANGED <<fs, now, poll, contents, timers, autoSync, ret, fault>>
    BY <1>1, <1>5 DEF FileWatchCallback, TypeOK, watchVars
  <1>8. \/ doc' = [doc EXCEPT ![D] = r] /\ monitors' = monitors
        \/ /\ doc' = [doc EXCEPT ![D] = Flagged(r)]
           /\ monitors' = IF r.file_monitor_id = 0 THEN monitors ELSE Cancelled(monitors, i)
    BY <1>5 DEF FileWatchCallback, watchVars
  <1>9. /\ Flagged(r) \in Doc /\ Flagged(r).open = r.open
        /\ Flagged(r).sync_timeout_id = r.sync_timeout_id /\ Flagged(r).file_monitor_id = 0
    BY <1>6, FlaggedType
  <1> HIDE DEF r
  <1>10. \E s \in Doc : /\ doc' = [doc EXCEPT ![D] = s]
                        /\ s.open = doc[D].open /\ s.sync_timeout_id = doc[D].sync_timeout_id
    BY <1>6, <1>8, <1>9
  <1>11. /\ doc' \in [Docs -> Doc]
         /\ doc'[D].open = doc[D].open /\ doc'[D].sync_timeout_id = doc[D].sync_timeout_id
         /\ \A e \in Docs \ {D} : doc'[e] = doc[e]
    BY <1>3, <1>7, <1>10
  <1>12. TimersStep
    BY <1>2, <1>7, <1>11, TimersLeft DEF Inv
  <1>13. MonitorsOwned' /\ Owners' /\ [WatchNext]_watchVars
    <2>1. CASE Top.code = "deleted"
      <3>1. monitors' = monitors /\ doc'[D].file_monitor_id = 0
        BY <1>3, <1>6, <1>7, <1>8, <1>9, <2>1
      <3>2. Requests' = Requests /\ Served' = Served \ {i}
        BY <1>3, <1>4, <1>7, <2>1, <3>1 DEF Requests
      <3>3. monitors[i].data = D
        BY <1>3 DEF Inv, MonitorsOwned
      <3>4. MonitorsOwned' /\ Owners'
        BY <1>3, <1>11, <3>1, <3>2, <3>3, MonitorForgotten DEF Inv
      <3> QED
        BY <1>7, <3>1, <3>4 DEF watchVars
    <2>2. CASE Top.code # "deleted" /\ doc' = [doc EXCEPT ![D] = r] /\ monitors' = monitors
      <3>1. doc'[D] = r /\ r.file_monitor_id = i
        BY <1>3, <1>6, <1>7, <2>2
      <3>2. Requests' = Requests /\ Served' = Served
        BY <1>3, <1>4, <1>7, <2>2 DEF Requests
      <3>3. /\ \A e \in Docs : /\ doc'[e].file_monitor_id = doc[e].file_monitor_id
                               /\ doc'[e].open = doc[e].open
                               /\ doc'[e].filename = doc[e].filename
                               /\ doc'[e].status = doc[e].status
        BY <1>3, <1>6, <1>11, <3>1
      <3>4. Owners'
        BY <2>2, <3>2 DEF Inv, Owners
      <3>5. \A j \in Served : monitors[j].data \in Docs
        BY <1>4 DEF Inv, Owners
      <3>6. MonitorsOwned'
        BY <2>2, <3>2, <3>3, <3>5 DEF Inv, MonitorsOwned
      <3> QED
        BY <1>7, <2>2, <3>4, <3>6 DEF watchVars
    <2>3. CASE /\ Top.code # "deleted"
               /\ doc' = [doc EXCEPT ![D] = Flagged(r)]
               /\ monitors' = Cancelled(monitors, i)
      <3>1. doc'[D].file_monitor_id = 0
        BY <1>3, <1>7, <1>9, <2>3
      <3>2. i \notin poll.gone /\ Cancel(i)
        BY <1>3, <1>7, <2>3 DEF Cancel
      <3>3. /\ monitors'[i] = FreeMonitor
            /\ \A j \in Ids \ {i} : monitors'[j] = monitors[j]
        BY <1>3, <1>7, <2>3, CancelledType
      <3>4. Requests' = Requests \ {i}
        BY <1>3, <3>3 DEF Requests, FreeMonitor
      <3>5. Served' = Served \ {i}
        BY <1>4, <1>7, <3>2, <3>4
      <3>6. \A j \in Requests' \ {i} : monitors'[j] = monitors[j]
        BY <3>3, <3>4 DEF Requests
      <3>7. MonitorsOwned' /\ Owners'
        BY <1>3, <1>11, <3>1, <3>4, <3>5, <3>6, MonitorForgotten DEF Inv
      <3> QED
        BY <1>3, <3>2, <3>7 DEF WatchNext, Client
    <2> QED
      BY <1>3, <1>6, <1>8, <2>1, <2>2, <2>3
  <1> QED
    BY <1>2, <1>7, <1>11, <1>12, <1>13, SoundByParts DEF Inv, TypeOK

\* The invariant holds in the beginning,
LEMMA InitSound == Init => Inv
  <1> SUFFICES ASSUME Init PROVE Inv
    OBVIOUS
  <1>1. WatchTypeOK
    BY WatchInitTypeOK DEF Init
  <1>2. /\ doc = [d \in Docs |-> ClosedDoc] /\ timers = [t \in Timers |-> NoDoc]
        /\ stack = <<>> /\ monitors = [i \in Ids |-> FreeMonitor] /\ poll = NoPoll
    BY DEF Init, WatchInit
  <1>3. /\ doc \in [Docs -> Doc] /\ timers \in [Timers -> Docs \cup {NoDoc}]
        /\ stack \in Seq(Frame) /\ GoodStack(stack) /\ ~OnCallback
    BY <1>2, FreshTypes, EmptySeq DEF GoodStack, OnCallback
  <1>4. TypeOK
    BY <1>1, <1>3, DocSyncAssumption DEF DocSyncAssumption, WatchTypeOK, TypeOK, Init
  <1>5. Requests = {} /\ Served = {}
    BY <1>2 DEF Requests, FreeMonitor, Served
  <1>6. \A d \in Docs : doc[d].file_monitor_id = 0 /\ doc[d].sync_timeout_id = 0
    BY <1>2, FreshTypes
  <1>7. PollKept /\ Owners /\ CallbackOK /\ MonitorsOwned /\ TimersOwned
    BY <1>2, <1>3, <1>5, <1>6
       DEF PollKept, NoPoll, Owners, CallbackOK, MonitorsOwned, TimersOwned, TimerLives
  <1> QED
    BY <1>3, <1>4, <1>7 DEF Inv

\* and every step keeps it.
LEMMA NextSound ==
  ASSUME Inv, [Next]_vars
  PROVE  Sound
  <1>1. CASE UNCHANGED vars
    <2>1. UNCHANGED <<watchVars, contents, doc, timers, autoSync, stack, ret, fault>>
      BY <1>1 DEF vars, docVars
    <2>2. /\ Reporting' = Reporting /\ CallbackOK' /\ GoodStack(stack')
          /\ \A d \in Docs : DispatchKept(d)
      BY <2>1 DEF Reporting, At, Top, CallbackOK, OnCallback, D, Requests, Inv, DispatchKept,
                  Dispatching, watchVars
    <2>3. MonitorsOwned' /\ Owners' /\ TimersStep
      BY <2>1, <2>2, MonitorsLeft, TimersLeft DEF Inv, watchVars
    <2> QED
      BY <2>1, <2>2, <2>3, SoundByParts DEF Inv, TypeOK
  <1>2. CASE Polling
    BY <1>2, StartPollSound, PollMonitorSound, FinishPollSound, FileWatchCallbackSound
       DEF Polling
  <1>3. CASE Next
    BY <1>2, <1>3, SavingSound, LoadingSound, ClosingSound, CloseAllSound, AutosyncSound, AnswersSound,
       UserSound, OthersSound, UseAfterCloseSound DEF Next
  <1> QED
    BY <1>1, <1>3

\* The inductive invariant.  Who owns which monitor is kept by a callback only
\* because the poll calls it for a monitor that is still owned and was not
\* reported before, and what the poll does to the table is harmless only because
\* of who owns what is in it: none of the parts is inductive without the others,
\* nor without what is on the stack and what the callback on top was called for.
THEOREM DocSyncInvariant == Spec => []Inv
  <1>1. Inv /\ [Next]_vars => Inv'
    BY NextSound DEF Sound
  <1> QED
    BY <1>1, InitSound, PTL DEF Spec

\* Every variable keeps its type.
THEOREM DocSyncTypes == Spec => []TypeOK
  <1>1. Inv => TypeOK
    BY DEF Inv
  <1> QED
    BY <1>1, DocSyncInvariant, PTL

\* _moo_edit_start_file_watch and _moo_edit_stop_file_watch: no monitor leaks,
\* none is cancelled behind its document's back, whatever the nested main loops
\* of the dialogs let happen in the middle of a save, a load or a poll.
THEOREM DocumentsOwnMonitors == Spec => []MonitorsOwned
  <1>1. Inv => MonitorsOwned
    BY DEF Inv
  <1> QED
    BY <1>1, DocSyncInvariant, PTL

\* The g_return_if_fail's of file_watch_callback are never what returns.
THEOREM CallbacksAccepted == Spec => []CallbackChecksHold
  <1>1. ASSUME Inv PROVE CallbackChecksHold
    <2> SUFFICES ASSUME At("file_watch_callback") PROVE CallbackAccepts(D, Top.id)
      BY DEF CallbackChecksHold
    <2>1. OnCallback
      BY DEF At, OnCallback, Top
    <2>2. /\ Top.id \in Requests /\ Top.id # 0 /\ D \in Docs
          /\ doc[D].file_monitor_id = Top.id
      BY <1>1, <2>1, NoDocDistinct DEF Inv, CallbackOK, Requests
    <2> QED
      BY <1>1, <2>2 DEF Inv, MonitorsOwned, CallbackAccepts, Requests
  <1> QED
    BY <1>1, DocSyncInvariant, PTL

\* The documents and the disk are an environment MooFileWatch is made for: what
\* holds of the watch under any such clients holds under these.
THEOREM DocSyncImplementsWatch == Spec => WatchSpec
  <1>1. Init => WatchInit
    BY DEF Init
  <1>2. Inv /\ [Next]_vars => [WatchNext]_watchVars
    BY NextSound DEF Sound
  <1> QED
    BY <1>1, <1>2, DocSyncInvariant, PTL DEF Spec, WatchSpec

\* changed_cb, autosync_callback and _moo_edit_closed: a timer id is that of a
\* timer of the same document, and a pending timer is lost only in the callback
\* of an earlier one.
THEOREM TimersNotMixedUp == Spec => OneTimer
  <1> DEFINE Live == \A d \in Docs : LET t == doc[d].sync_timeout_id
                                     IN t # 0 => timers[t] = d \/ (timers[t] = NoDoc /\ Dispatching(d))
             Kept == \A d \in Docs : LET t == doc[d].sync_timeout_id
                                     IN t # 0 /\ timers[t] = d /\ timers'[t] = d =>
                                          \/ doc'[d].sync_timeout_id = t
                                          \/ /\ stack # <<>> /\ D = d
                                             /\ Top.at \in {"autosync_callback", "autosync_after_save"}
  <1>1. Inv => Live
    BY DEF Inv, TimersOwned, TimerLives
  <1>2. Inv /\ [Next]_vars => Kept
    BY NextSound DEF Sound, TimerKept
  <1>3. OneTimer <=> []Live /\ [][Kept]_vars
    BY DEF OneTimer
  <1> HIDE DEF Live, Kept
  <1> QED
    BY <1>1, <1>2, <1>3, DocSyncInvariant, PTL DEF Spec
================================================================================
