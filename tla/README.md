# A TLA+ model of Parsoid

Parsoid turns wikitext into HTML with annotations and back. This directory holds
TLA+ modules translated from its JavaScript (`src/lib/`), the TLC configurations
that model-check them on small instances, and proofs, checked by TLAPS, of what
holds for every instance. `PROJECT.json` says for every definition which lines it
stands for, and for every hazard which property would catch it.

    tlc -workers 2 -config Batcher.cfg Batcher          # one run
    tlapm BatcherProofs.tla                             # one module of proofs

- [The system](#the-system)
- [The modules](#the-modules)
- [What each run checks](#what-each-run-checks)
- [Where the code disagrees](#where-the-code-disagrees)
- [What is proved](#what-is-proved)
- [Bounds and fairness](#bounds-and-fairness)
- [Limits](#limits)
- [Plan](#plan)

## The system

One Node.js worker serves requests for conversions. All of its code runs on one
event loop, so the concurrency is that of callbacks: a function runs to its end,
with every callback it calls, and what it started goes on in a later turn. The
conversion to HTML is a pipeline whose stages are connected by events: the
tokenizer emits chunks of tokens, the token transform managers pass them through
handlers, the tree builder makes a document of them, the post-processor rewrites
it. Templates, links, images and extensions are expanded by the MediaWiki API, or
by nested pipelines, while the rest of the page goes on.

| Component | State | Operations | Interacts with |
|---|---|---|---|
| `mw/Batcher.js` | the batch being filled, the queue of sealed batches, a counter of batches in flight, callbacks and results per item, a timer | `preprocess`, `parse`, `imageinfo`; forward-progress timer; the answer of the API; response timeout | `ApiRequest` (sends), template, extension and image handlers (callbacks), `Logger` (fatal) |
| `mw/ApiRequest.js` | retries and timeout of one request, its listeners | request, retry, answer, one listener per turn | environment (`pageCache`, `requestQueue`), `TemplateHandler` |
| `TokenTransformManager.js`: `TokenAccumulator` | buffered chunks by rank, which of its two producers is done | `receiveToksFromChild`, `receiveToksFromSibling` | its parent's callback |
| `TokenTransformManager.js`: `AsyncTokenTransformManager`, `AccumChain` | the tail of a chain of accumulators, its callback | `onChunk`, `onEndEvent`, `transformTokens`, `maybeSyncReturn` | asynchronous handlers, accumulators |
| `TokenTransformManager.js`: `SyncTokenTransformManager` | a work stack, the registered transforms | `onChunk`, `onEndEvent`, `addTransform`, `removeTransform` | synchronous handlers |
| `TokenTransformManager.js`: `AttributeTransformManager`, `Frame` | counters of attributes outstanding; depth and ancestors of a frame | `process`, `loopAndDepthCheck`, `expand` | attribute pipelines |
| Synchronous handlers (`wt2html/tt/`): include tags; patcher, indented lines, quotes, lists, paragraphs | what each holds back until it knows more | `onTag`, `onAny`, `onNewline`, `onEnd` | the manager (registrations) |
| Asynchronous handlers (`wt2html/tt/`): templates, attributes, extensions, links | the expansion under way | `onTemplate` and such, callbacks | Batcher, ApiRequest, pipelines |
| `wt2html/parser.js` | the pipeline cache; the listeners of a pipeline | `getPipeline`, `parseChunkily`, `returnPipeline`, `resetState` | every stage |
| `HTML5TreeBuilder.js` | the open elements (domino's), the table depth, numbered shadow tags | `onChunk`, `processToken`, `onEnd` | `prepareDOM` reads the shadows |
| `DOMPostProcessor.js`, `wt2html/pp/` | the document | one pass per processor, in a fixed order | each pass relies on those before it |
| `html2wt/`: `SelectiveSerializer`, `DOMDiff`, `DOMNormalizer` | marks on the edited page | `serializeDOM`, `diff`, `normalize` | the serializer, which trusts the marks |
| `html2wt/`: `WikitextSerializer`, `SerializerState`, `separators`, `DOMHandlers`, `escapeWikitext` | the text so far, the separator under way with its constraints, the line under way, flags about the last and this node | `_serializeNode`, `emitChunk`, `buildSep`, `escapeWikiText` | handlers per tag |
| `logger/` | a queue of fatal messages, a flag while backends are being called | `log`, `_routeToBackends` | backends; ends the process |
| `api/`, `index.js` | one request's environment, its timeout | request, response, error | everything above |
| `config/`, `language/`, `ext/`, `tokens/`, `utils/` | tables, data types, helpers | | |
| `src/**/*.php` | an unfinished port of the same classes | | |

Behaviours that are hard to test, in the order of what they can spoil:

- *order*: chunks arrive in any order from asynchronous expansions, carry ranks
  that say how far they have been transformed, and must come out in document order;
- *ends*: `async: false` and the end event must travel through every chain once;
- *sharing*: one API item or request serves many callers, before, during and after
  it is answered;
- *reuse*: stages go back to a cache and take another page, with whatever state the
  last one left;
- *ending the process*: a fatal message is the only way out of some failures, and
  must not be lost or come too early;
- *moved nodes*: the tree builder and the passes after it move, split, merge and drop
  nodes that others have recorded the place or the source range of;
- *reused source*: what an editor left alone is copied from the source, beside what is
  written anew, and must still read as what it was;
- *held-back tokens*: a handler that waits for the end of a line must give
  everything back, in order, whatever ends it.

What makes each component correct is in the properties of the runs, below.

## The modules

| Module | Models | Composed with |
|---|---|---|
| `ExpansionService` | what the batcher promises: a caller is answered once, and all that ask for an item get the same answer | abstract; implemented by `Batcher` |
| `Batcher` | `lib/mw/Batcher.js` | `ExpansionService` (refinement) |
| `ApiRequest` | retries, the shared queue and the listeners of requests for a template | |
| `BatchTimeout` | the timeouts of a batch request and of its retry against the batcher's own timer, in seconds | |
| `HttpService` | `api/routes.js`, `api/apiUtils.js`, and what `parse.js` and `FromHTML.js` do for a request | `Service` |
| `Logger` | `Logger.log` and `_routeToBackends` | `Service` |
| `Service` | the process around the parser | sum of `HttpService`, `ApiRequest`, `Logger` |
| `TokenAccumulator` | the methods of `TokenAccumulator`, as operators on a record | |
| `OneAccumulator` | one accumulator with any child and any sibling | `TokenAccumulator` |
| `OrderedOutput` | what a stage promises: a prefix of the document, extended to the end | abstract; implemented by `AsyncTTM` |
| `AsyncTTM` | `AsyncTokenTransformManager` and `AccumChain` with nested asynchronous transforms | `TokenAccumulator`, `OrderedOutput` (refinement) |
| `Accumulators` | the two above | sum of `OneAccumulator`, `AsyncTTM` |
| `Pipelines` | `parser.js`, the reset of stages, and `Frame.expand` with its pipeline | `Expansion` |
| `Transclusion` | `TemplateHandler.js`, `Frame.loopAndDepthCheck` | `Expansion` |
| `Attributes` | `AttributeTransformManager`, `AttributeExpander.js` | `Expansion` |
| `Expansion` | the expansion of one page | sum of `Pipelines`, `Transclusion`, `Attributes` |
| `SyncTTM` | `SyncTokenTransformManager`, for any transforms | |
| `IncludeHandlers` | `TokenCollector`, `NoInclude`, `IncludeOnly`, `OnlyInclude` | `SyncTTM`, `TokenHandlers` |
| `TokenStreamPatcher`, `PreHandler`, `QuoteTransformer`, `ListHandler`, `ParagraphWrapper` | the file of that name in `tt/` | `TokenHandlers` |
| `TokenHandlers` | the handlers of the last token stage, and the include tags of the first, one at a time, with what they promise together | sum of the six above |
| `DomTree` | the document of the passes, `DOMUtils.js`, `WTUtils.js` | |
| `TreeBuilder` | `HTML5TreeBuilder.js`, `prepareDOM.js`; domino, external | `DomTree` |
| `TreeFixups` | `markFosteredContent`, `processTreeBuilderFixups`, `pwrap`, `migrateTemplateMarkerMetas`, `migrateTrailingNLs` | `DomTree` |
| `SourceRanges` | `computeDSR.js` | `DomTree` |
| `WrapTemplates` | `wrapTemplates.js` | `DomTree` |
| `DomCleanup` | `tableFixups.js`, `liFixups.js`, `cleanup.js`, `DOMTraverser.js` | `DomTree` |
| `Linter` | `linter.js`, and what `LintLogger.js` reports | `DomTree` |
| `DomPasses` | a page through the tree builder and those passes | all of these |
| `WrapSections` | `pp/processors/wrapSections.js` | |
| `PostProcessing` | the document, from tokens to sections | sum of `DomPasses`, `WrapSections` |
| `PageDOM` | the page as the serializer looks at it: `DOMUtils.js`, `WTUtils.js`, `WikitextConstants.js` | |
| `DOMNormalizer` | `DOMDiff.js` with `DiffUtils.js`, `DOMNormalizer.js` | `PageDOM` |
| `DOMHandlers` | `DOMHandlers.js`: what each tag wants beside it, and its marks | `PageDOM` |
| `EmittedText` | `separators.js`, `WTSUtils.js`; `ConstrainedText.js`, and of `LinkHandler.js` how a link in the page is written | `DOMHandlers` |
| `WikitextSerializer` | `SelectiveSerializer.js`, `WikitextSerializer.js`, `SerializerState.js`, `escapeWikitext.js` | all of the serializer's |
| `BatcherProofs`, `OneAccumulatorProofs`, `ServiceProofs` | proofs | `Batcher`, `OneAccumulator`, `Service` |
| `PipelinesProofs`, `TransclusionProofs` | proofs | `Expansion` |
| `TokenHandlersProofs` | proofs | `TokenHandlers` |
| `SequenceFolds` | what a fold computes, for the proofs | |

A module that a run is of ends with its constants for TLC, under "For TLC".

How state and actions correspond to the code:

**Batcher.** The variables are the fields of the object with their names; the
forward-progress timer is "none", "armed", or
"fired" when its handle outlives it. A request is one call of `preprocess`, `parse` or
`imageinfo`; it finds the result cached (`CacheHit`) or goes through `pushGeneric`,
which joins callbacks (`JoinItem`) or adds an item and perhaps seals and dispatches
the batch (`NewItem`). `Dispatchable` is the loop of `dispatch`.
`CompleteBatch` is the part of `onBatchResponse` common to results and
errors: the counter, `forceDispatch` and the callbacks, in the order of the code.
`handleResponseTimeout` logs a fatal message; `Exit` is what the logger then does.

**TokenAccumulator, OneAccumulator, AsyncTTM.** An accumulator is a record with
the fields of the object. `OneAccumulator` lets the child and the sibling call in
any order with any chunks, and keeps the calls an accumulator makes on its parent.
In `AsyncTTM` `mgr` is the heap of one turn: accumulators, the callback objects of
`maybeSyncReturn`, the transforms that are outstanding. Callbacks are data
(`Emit`, `Child(a)`, `Sib(a)`, `Msr(c)`), and calling one is an operator.
A transform is a row of three tables: whether it is synchronous, asynchronous or
both, and what it calls back with, at which rank.

**SyncTTM, IncludeHandlers.** The work stack and the loop over transforms are those
of `onChunk`; the rank at which a token was changed, or at which the registrations
changed, is the rank its results resume at. Handlers are a parameter, an operator
from (transform, token, handler state, registrations) to the new ones. In
`IncludeHandlers` it is `Transform`, with the three handlers at the ranks and
keys they register.

**HttpService, Service.** `reqs` holds, per request, how far it is in the chain of
middleware and what is under way; an action is one step of the chain, one thing that
comes back (the revision, the parse, a worker), a timer, or a client that closes. The
versions are the three the code can make, and negotiation is that of `apiUtils.js`.
With `useWorker` a timeout ends a worker, without it the process: `TimeOut` is the timer
of the request, which logs and sets a second one, and `Exit` is that one, 100 ms later,
which nothing stops. Between them other steps go on, the answer to that request
among them. `Service` is a sum:
a behaviour is one of the HTTP requests, of the template requests, or of the log.

**Pipelines.** One thread: `stack` is what is left of the current turn, so a job
that is started from within a handler runs before the handler goes on, and listeners
run inside `emit`. `Return` puts a pipeline into the cache from its own end event
before its user hears of the end, as `parser.js:378` does. A chunk is a number, or
the job that expands it.

**Transclusion.** `conf` are settings, caches and the frames; `h` is what the closures
of `onTemplate` share. An action is one callback: the target, the arguments, the text
of a template, a chunk of its expansion, its end; the two producers of the handler's
accumulator are the operators of `TokenAccumulator`. A target is what it resolves to
before and after expansion; parameters are named, numbered or templated. `toplevel` is
`atTopLevel` of the handler, which only the page itself has and the frames in it do not;
`Fragment` is the placeholder tokens that `encapsulateExpansionHTML` gives for a call whose
DOM was made before, without markers of their own.

**Attributes.** Keys and values are expanded in any order; `AllExpanded` is the
callback, with what it takes for attributes and what for content, newlines and
markers where the code puts them.

**ListHandler.** `handler` has the fields of the object; one action per kind of
token, each calling `onAny`, `onListItem` or `onEnd` as the manager does, with the
trailing registrations. `open`, `tables` and `nested` watch the output.

**QuoteTransformer.** One action per callback. The choice among bold quotes, the
state machine and the closing of what is left are operators, one per block of
`processQuotes` and `convertQuotesToTags`. A text is known by how it ends, which is
all the code looks at; source ranges by the widths that must add up.

**TokenStreamPatcher, PreHandler, ParagraphWrapper.** `handler` has the fields of
the object, `input` and `output` are the last call. `onAny` is split into one
operator per case of its switch; the registrations that a handler makes or removes
are a field too (`any`, `onNewLine`), and the action gives the token to whom the
manager would. Tokens are the kinds the handler tells apart. `sent` watches the
output: what is open in it, and what of the input is still to come.

**TokenHandlers.** The sum of those above: `stage` is chosen at the start, and a
behaviour is one of that handler. Its properties are the handlers' together.

**WrapSections.** `calls` are the activations of `wrapSectionsInDOM` with their local
variables, `state` is the object of that name, `dom` the tree as it is, `page` the
tree as it was. One action per kind of node an iteration may meet, one for the return
of the recursive call, one for the lead section, one for a template in
`tplsAndExtsToExamine`. The loop never looks past the current node, but for where a
template ends, so the page is chosen node by node. A source offset is the place of a
node, and what is added to `data-mw` the set of nodes it is the source of.

**DomTree, TreeBuilder, TreeFixups, SourceRanges, WrapTemplates, DomCleanup, Linter,
DomPasses.** A document is a record of nodes and of who is whose child;
an action of `DomPasses` is a pass, a function of the document. The page is a sequence
of kinds of lines (`Lines`), each of them in the page or made by a template, and what
the token stages make of it (lists, paragraphs, stray parts of tables) is in `Between`
and `LineTokens`. Domino is modelled by what its insertion modes do with these tags:
scopes, implied cells and rows, foster parenting. The state of `computeDSR` is the
result of a fold from the last child to the first, and `tplInfo` of `DOMTraverser` an
argument of the visitors. `WrapTemplates` is `wrapTemplates.js` from the bottom up: the range
of a transclusion (`GetDOMRange`), the ranges that are part of another
(`findTopLevelNonOverlappingRanges`), the wrapping. A line may be a tag that a template
gave an attribute, `{|{{t}}`, of which the source before the template is a part of its
own (`unwrappedWT`).

`Linter` is the walk of `linter.js`: `FindLints` has the order of the code, with the node
it goes on with after fostered content and where it leaves a transclusion. A report that
reaches the buffer is a record in `lints` of the document. As in the code, the flag
`autoInsertedInd` that `hasIdenticalNestedTag` asks for is set nowhere, and the report about
the colour of a `<font>` asks that all in it is a link or not seen, not that there is a link.
Left out are the reports about quotes, links and figures, about paragraphs and tables of
HTML, about `<big>`, and those of extensions.

**PageDOM, DOMNormalizer, DOMHandlers, EmittedText,
WikitextSerializer.** A page is a function from nodes to records; marks of the comparison are a set per node, and
the marker metas for what was deleted or inserted are nodes of their own. The stages
of a request are `SelSerialize` (the diff) or `FullSerialize`, `serializeDOM` (the
normalisation), the walk, and `Finish`. The walk is that of `serializeChildren` with
the calls that have not returned in `stack`: `Open` and `Close` are the two halves of
`_serializeNode` for an element whose handler is called, `Reuse` is one that is copied
from the source, `Text`, `Separator` and `SkipDiffMarker` the other kinds. `s` has the
fields of `SerializerState`. Every character that is written is kept with the place of
the source it was copied from, if any, so that properties can tell the two apart.
`line.chunks` keeps its chunks until the line is flushed, each with the node it is of:
a link may need a `<nowiki/>` before or behind it, by what is beside it on the line.

**Logger.** A message is one call of `log`. `Nested` says what its backends log
while they are being called; a promise is settled in any order, or never if the
backend throws. `log` empties the queue as the code does, two pops at a time.

**ApiRequest.** A caller is one transclusion. Requests are joined while they are in
`requestQueue`; an answer fills the cache, takes the request off the queue, and
calls the listeners in one turn each.

## What each run checks

| Run | What it shows |
|---|---|
| `batcher` | With requests that share items: what somebody waits for is in exactly one of the current batch, the queue and the batches in flight (`OneHome`); callbacks are those of the callers that wait (`CallbacksAreWaiting`); nothing answered is fetched again (`NoRefetch`); nobody is told twice (`AnsweredOnce`); the counter is the number of batches in flight and within the limit (`ConcurrencyBound`); queued work always has a timer or an answer that moves it (`NoStall`); no call of `dispatch` sends two batches, which the `var batch` captured by its callbacks depends on (`OneDispatchPerCall`); the batcher implements `ExpansionService`; everybody is answered or the process exits (`EveryRequestAnswered`). |
| `accumulators` | What the parent gets is the child's tokens, then the sibling's (`InOrder`); it is told that nothing follows exactly when both are done (`ClosedWhenDone`) and is not called after that (`NoCallAfterClose`). In a whole chain of them, the emitted tokens are a prefix of the document-order expansion and complete at the end (`ManagerInOrder`, a refinement of `OrderedOutput`); the stage ends once, has ended when nothing is outstanding, and what could be emitted has been, the claim of the comment on `TokenAccumulator` (`EndsWhenDone`). |
| `service` | A page is sent in a version its client accepts, selective serialization compares documents of one version, the timeout of a request fires only while its answer is not out, and the process ends only after one has fired (`RightAnswer`). Whoever waits for a template is the listener of exactly one request that will call it, and a template is fetched again only after an error (`NobodyForgotten`). The process exits only after every backend delivered the fatal message (`ExitsAfterLogging`). Every request is answered, every transclusion goes on, every fatal message ends the process (`EverythingSettles`). |
| `expansion` | The user of a pipeline gets what came of its own content, in order, though the pipeline goes back to the cache before its user hears of the end (`OwnContent`). What a template made is between one start and one end marker, or is the one placeholder of an expansion that is used again, and a handler says once that its answer is complete (`WholeInWrapper`). A template is not expanded within itself or too deep (`NoEndlessInclusion`). Parameters, targets and attributes are what is written (`AsWritten`). Whatever is started ends (`EverythingEnds`). |
| `token_handlers` | For each handler of the last token stage: what it does not make or replace comes out unchanged and in order (`KeepsOrder`); the tags it makes nest (`Nests`): lists and tables, bold and italic, paragraphs between blocks, phrasing in indented blocks, parts of tables in tables; the end of the page leaves it as new (`EndLeavesNothing`); the code's own assertions hold (`NoFailedAssertion`). For page after page through the stage of the include tags: each contributes what its tags say, by a definition that counts open tags, with its end once and last (`Contribution`). |
| `post_processing` | Through every pass, however tags of the page and of its templates overlap: no pass throws, every transclusion is found, wrapped once, with all of its source and its nodes side by side, and what the linter reports has a place in the page, that of the transclusion if it is about something in one (`EachCallWrappedOnce`); the source ranges of what is at the top of the document are the page, each place of it once, and ranges nest as nodes do (`SourceClaimedOnce`). The sections are the outline of the page and move no node past another or out of its element (`SectionsAreOutline`); what is in an editable section is in the source that its number stands for, and is all of it if no section is in it (`IdsAreForEditing`); what `data-mw` of a template stands for is in the adjacent siblings with its about id, and what the template made still is when the sections are stripped (`TemplatesStayTogether`). |
| `serializer` | For every page and every edit of it, with the original page or without, scrubbed or not: the wikitext reads as what the page shows (`ReadsBack`), by a reader that is written from the syntax of wikitext and not from the serializer (the end of `EmittedText`); neighbours that the edit did not touch are the source as it was, with what is between them, and no place of the source is used twice, or out of order unless the client moved it (`SourceKept`); the walk ends, with every call returned and every flag reset (`Ends`). |

Runs named after sums are of behaviours of one of the parts each. The type invariants
have the ties between fields that the operators rely on.

## Where the code disagrees

Five runs are expected to find a violation.

- `logger_nested`: a fatal message that a backend logs is lost.
  `Logger.js:85,89` push the arguments and then the deferred; lines 102 and 103
  pop the deferred into `args` and the arguments into `dd`.
- `batch_timeout_retry`: the timer that is meant for a batch without any response
  (`Batcher.js:142`) ends the worker while the retry, whose timeout
  `ApiRequest.js:413` multiplies by three or four, may still be answered.
- `include_handlers_nested`: after a template that ends inside two nested
  `<noinclude>` tags, `scopeStack` keeps a scope (`TokenCollector.js:91-121`), and
  the next template of the page keeps its `<noinclude>` text.
- `list_handler_nested`: with a table in a table of a list item, and a list in the
  inner one (`:{|`, a cell, `{|`, a cell, `* x`, `|}`) or before it, the end of the
  inner table pops the frame of the outer list (`ListHandler.js:94`, `:67`), whose
  end tags then come out inside the outer table. The comment of lines 81-82 says that
  table tokens "push the frame and remain balanced".
- `wrap_sections_stripped`: in `{{t}}` that makes `=1=` and `==2==`, followed by
  `===3===` in the page, the source of the last is added to the template
  (`wrapSections.js:232`) and its section tag gets the about id, but its heading does
  not (`wrapSections.js:244`). The serializer strips section tags first
  (`WikitextSerializer.js:1441`), and then it is both in `data-mw` and beside it.

Other places where the code does something a reader may not expect. They are in the
models, or named there as excluded, and no property denies them:

- A backend that throws on a fatal message leaves its promise pending
  (`Logger.js:283`), so the process is not ended. The `service` run lets backends
  throw on other messages.
- On a wiki that answers with revision slots, the listener of a template request
  reads `revision['*']`, which is then undefined (`TemplateHandler.js:1163`), while
  the cache gets the text. `ApiRequest` is of a wiki without slots.
- In `ListHandler`, the end tag of a block that was opened in the item is passed on
  at once, before a newline that is held back; `KeepsOrder` names the exception.
- The meta tag of the start of an onlyinclude section is returned as it is, not as
  `{ tokens: [ ... ] }` (`NoIncludeOnly.js:131`), and the manager drops it, while
  that of the end is kept. `Contribution` is about texts, and about the marks of the
  other two names.
- Two templates broken up by sections, the first ending in the section that the second
  begins in: the about id that wraps the sections of the first is overwritten on their
  common one (`wrapSections.js:267`), so that what it made is no longer adjacent.
  `TemplatesStayTogether` is about pages with one such template.
- A section that the page goes on with, in a section that a template made above the
  one it ended in, is within the about ids of the template, and its source is not
  added. `TemplatesStayTogether` says that nothing is missing, not that nothing else
  is there.
- Only the current section is marked as not editable: before a pseudo-section
  (`wrapSections.js:139`) and at the end of an element (`wrapSections.js:174`), the
  sections around it that end there too keep their numbers. And the level of a heading
  two elements deep is not returned by the recursion (`wrapSections.js:137`), so that
  the section around both stays editable. `IdsAreForEditing` names these cases, and
  its run nests elements once.
- Two quotes with nothing left between them, on a line whose bold and italic quotes
  are both odd, throw (`QuoteTransformer.js:177`). This is the outcome `threw` of
  the model, which ends the page.
- When `ParagraphWrapper` has replaced a `<pre>` by a blank because a block is open,
  and a rule from a template then ends the block, the `</pre>` comes out alone and
  before what is held (`ParagraphWrapper.js:361`). The input of the model has no
  block tag in an indented block.
- Three newlines before the end of a page leave the paragraph they start unclosed
  (`ParagraphWrapper.js:273` closes before `processPendingNLs` opens); the tree
  builder closes it. What is open is forgotten with the page in the model.
- `PreHandler.js:376` drops what `onAny` returns for the rest of a string that starts
  with a space. It is always empty, since such a rest never ends a line: `KeepsOrder`
  would show it.
- `parser.js:94-95` have the ranks of `IncludeOnly` and `NoInclude` swapped in their
  comments (`NoIncludeOnly.js`: 20 for `NoInclude`, 30 for `IncludeOnly`).

In the pipelines, the handlers of templates and the service:

- `DOMPostProcessor.resetState` (347) sets `displayTitle` of the page to null whenever
  a cached pipeline for documents is used again, also for a fragment in the page.
- `inPHPBLock` in `PipelineUtils.js:61`, `inPHPBlock` in `DOMFragmentBuilder.js:81`;
  `isSimpleParam` (`TemplateHandler.js:915`) where the method is `_isSimpleParam` (819);
  `state.resolveTemplateTarget` (660) where it is a method of the handler.
- Without the preprocessor of MediaWiki, a template that is too deep, that would be
  within itself, that resolves to nothing or is not fetched gets a start marker and
  no end marker. `WholeInWrapper` names these cases, and that of `{{!}}` below the top
  level, which is a cell and no transclusion.
- `TokenStreamPatcher.js:113` calls `processSpecialMagicWord` with itself as `this`, which
  at the top level needs `this.resolveTemplateTarget` and `this.encapTokens`.
- `maxDepth` is documented for the native preprocessor (`ParsoidConfig.js:238`), and
  checked with that of MediaWiki too.
- A client that closes early gets no `finish` event, so the timer of its request
  (`routes.js:146`) goes on and ends the process. And once a timer has fired, the second
  one (`routes.js:152`) ends the process though the answer goes out in the 100 ms
  between. `EndedForCause` allows both.
- Without original HTML, selective serialization compares with a page made in the
  default version whatever the version of the edited one. `LikeWithLike` is about
  documents that both come from outside.

In the passes of the document. "Fostered nodes get a zero-dsr width range" and this is
"critical to avoid duplication of fostered content" (`computeDSR.js:534`), but a later
pass loses sight of some of it; `SourceClaimedOnce` is about pages without these
(`AllInSight`):

- `pWrap` takes a category that was fostered into the paragraph before the table, and
  the ranges of the two overlap;
- in `{| <div> {{t}}` the start marker leaves the fostered `div`, which is then not part
  of the transclusion, and the source before it is in no range;
- in a table with text and a template that opens another table, followed by one more,
  the first fostered node gets the range of the last table;
- a list with categories at its end, fostered, gets a range of negative length from
  `migrateTrailingCategories` (`liFixups.js`);
- a tag that was stripped leaves a gap in the ranges when its placeholder goes.

`hoistTransclusionInfo` (`tableFixups.js`) is "safe as we are currently only handling a
single transclusion in the content", but a cell with a templated attribute followed by
another transclusion becomes a wrapper with a wrapper in it, whose source is claimed
twice; `EachCallWrappedOnce` is about the state before. `hasAncestorOfName(…, "p")` in
`markFosteredContent` compares with upper-case names and is never true; `hasBlockTag` of
`pwrap.js` looks at `n` where it means its child `c`; `findAutoInsertedTags` compares
numbers of tags by prefix, so that `td:1` is taken for `td:12`.

In the serializer; `Crowded`, `Unescaped` and `Unreadable` of `WikitextSerializer` leave out
the pages of the first, the next two, and the two about links:

- `currWikitextLineHasBlockNode` and `newWikitextLineMightHaveBlockNode`
  (`DOMHandlers.js:398-464`) take a heading, a table or a rule with a line of its own for
  one on the line of the paragraph: `<h2>d</h2><p>x</p>`, a newline, `<p>e</p>` are written
  `== d ==`, `x`, `e` on three lines, and the two paragraphs become one.
- "quote chars in text nodes are always properly escaped -- which they are right now"
  (`DOMHandlers.js:468`): a text that the edit did not change, but that has a new quote
  beside it, is not. `<b>x</b>` put before `'a` gives `'''x''''a`, read as a bold `x'`.
- "For new/edited DOMs, this can never happen because" of the normalisation
  (`DOMHandlers.js:475`): when the text between two quotes of the source is deleted, both
  are copied from the source side by side, eight apostrophes with nothing between.
- `_stripUnnecessaryQuoteNowikis` takes the nowiki out of `''a'<nowiki/>''` whatever else
  is on the line; with a bold quote after a word of one letter, another bold is then
  read as an apostrophe. The pages of the model have no such word.
- `RFC 1` right behind the letters of a link, `[[b]]c`: `badPrefix` of the magic link is
  asked about what is left of it, but `WikiLinkText` is greedy and says that nothing is
  (`ConstrainedText.js:335-350`), so there is no `<nowiki/>`, while the tokenizer takes a
  name for a link only if no letter is before it (`pegTokenizer.pegjs:593-600`).
- The tail of a link is its recorded letters (`LinkHandler.js:127`) also when its text was
  deleted, and `[[b|<nowiki/>]]c` takes the letter of the next text into the link.
- A list item that is moved, and begins with an element, loses the space behind its
  bullet: `getLeadingSpace` (`DOMHandlers.js:60`) looks at texts only. Where nodes were
  moved, `SourceKept` does not count spaces.
- The test for text that now begins a line (`solWikitextRE`, without the flags m and s)
  never matches a paragraph of more than one line.
- `nextToDeletedBlockNodeInWT` is called with the last node for what is behind this one,
  and with this one for what is before it.
- An empty paragraph that a deletion made gets no marker, since `DOMDiff.js` puts one only
  before what is left, so the normaliser takes it for one that was empty, against its
  comment (`DOMNormalizer.js:546`); it marks the parent of what it deletes as deleted.
- `_serializeChildrenToString` leaves `inIndentPre` false, whatever it was.

## What is proved

`BatcherProofs` proves, for every set of requests and items, every batch size and
every limit of concurrency (positive numbers; sets of items finite), that
`Spec` implies the type invariant, `OneHome`, `ConcurrencyBound`, `NoStall`,
`CallbacksAreWaiting`, `SameAnswer`, `NoRefetch`, `OneDispatchPerCall`,
`AnsweredOnce`, and `ImplementsService`: the batcher is an implementation of
`ExpansionService`.

None of the invariants is inductive alone. That nothing is fetched twice needs that
an item is in one place, which needs that a new item has no callbacks, which needs
that callbacks are kept for all that is held; that `dispatch` sends one batch needs
that the queue is empty while a slot is free, which is `NoStall`. So the inductive
invariant `IInv` is their conjunction with the types. The lemmas follow where items
go: `Placed` says of the four places (current batch, queue, in flight, counter) that
they are apart and bounded; `SealMoves`, `ForceMoves`, `SendApart` and
`DispatchAtMostOne` say what the loop of `dispatch` does to them; each action then
needs one lemma for the places and one for callbacks, cache and answers. The step
simulation of the service follows from `SameAnswer` and `NoRefetch`: what a caller
is told is what the abstract service has decided for its item.

`OneAccumulatorProofs` proves, for every set of tokens and ranks and streams of any
length, that `InOrder`, `ClosedWhenDone` and `NoCallAfterClose` hold of an
accumulator. The inductive invariant says that what the parent was given, then the
calls still to be made, then what is buffered, are consecutive cuts of what the
child and the sibling sent, in this order, and relates the flags of the two to what
may still be buffered. Its lemmas are about concatenation and cutting of chunks, for
every case of ranks in `receiveToksFromSibling` and `receiveToksFromChild`.

`ServiceProofs` proves, for any headers and versions, callers and templates, backends and
messages, that `Service` implies `RightAnswer`, `NobodyForgotten` and
`ExitsAfterLogging`. Each part has an inductive invariant of its own, and `IInv` is their
conjunction. A request over HTTP needs, stage by stage, what has been decided so far:
from the time the header was read, the version is one it asks for (`OutputIsAsked`); an
original there is when `parse` is called has the version of the edited document
(`OriginalFits`); what was sent is the end, and clears the timer (`SentIsOver`). For
`NobodyForgotten` the queue holds exactly the requests that wait for an answer
(`QueueIsOpen`), listeners wait and are listed once (`ListenersWait`), every waiter
listens to a request that is not over (`WaitersListen`), and what came is cached
(`AnswersAreCached`). The logger needs that a timer runs only for a message that was
routed and that all backends settled; what a message logged in its backends comes to is a
fold, in whose steps only the messages nested in it change.

`PipelinesProofs` proves, for any number of pieces of content, of chunks, and any size of
the cache, that `Expansion` implies `OwnContent`. `PipelinesInv` says of every
call on the stack, callback under way, timer and entry of the cache what it may refer to: a job
has one producer at a time (the call, timer or promise that will give it its next chunk); a
pipeline is used by one job, or is in the cache, or both only between the
event that ends it and the call of its user; what a user has been given, what its
pipeline holds, and what is on its way to it are what came of its own content, in order.
`StepKeeps` has a lemma for each call that the turn may make next. It rests on a fact about the
code that the proof made explicit: a pipeline is in the cache before its stages are
reset, and this is harmless because tokens that have been transformed already can
start only the expansion of attributes (`Startable`), never what would take that pipeline.

`TransclusionProofs` proves of the other two parts of `Expansion`, for any titles, names,
lengths and limits and for any set of expansions that the tokenizer and the handlers can
give (`IsExpansion`), that `Expansion` implies

- `NoEndlessInclusion` (`FramesInv`): a text is asked for only in a frame that passed the
  check, so the frames of the texts in it are at most one deeper and none has the title of
  another.
- `AsWritten`. What is read at once is a fold over the parameters or the tokens of the
  target, and the invariant of the fold says what has been read so far. For a tag it needs
  an invariant of the steps as well, `AttributesInv`: what came is for a key or a value that
  was sent, once each, and none that was sent is forgotten. So all that came is in its place
  (`AllInPlace`), whatever the order, and splitting, stripping and reparsing lose none of it
  (`AllIsBuilt`): every token that is not a marker occurs as often in the attributes and the
  content after the tag as in what came.
- `WholeInWrapper` (`WrapperInv`). The callback of a transclusion is given the start by one
  callback and the expansion by another, in any order, through an accumulator that may buffer;
  so the invariant is about the stream `w` the sibling has been given so far (`Delivered`): it
  went out, or waits in the accumulator for the start, or followed the start. Each phase
  relies on what `w` is and on whom it is given to (`PhaseOK`), and the end of the last one
  makes `w` a body of words and the end marker, unless the expansion was given up (`Ending`).
  What never has an accumulator is given whole in one call: the placeholder of a cached
  expansion, a magic word, `{{!}}` at the top level in markers of its own (`RightAnswer`).
  That a tag's markers are pairs follows from `AllIsBuilt`.

`TokenHandlersProofs` proves of the synchronous handlers, for every length of what a
handler may hold (`MaxListHeld`, `MaxLinesHeld` and the others), that `Spec` of
`TokenHandlers` implies `NoFailedAssertion` (`AssertionsHold`) and `EndLeavesNothing`
(`EndClosesAndResets`). Each handler has an invariant of its own, and `StageInv` is the one
of the stage's handler:

- `PreInv`: which buffers may be in use in each state of the machine of indented lines, and
  that a collected line has its newline buffered. So at a newline or the end of the page the
  handler is registered again before it could meet the state that "Cannot get here" is about.
- `ParaInv`: newlines are counted only while the line under way has only blanks.
- `QuotesInv` says that the second of any two chunks is one quote. The machine that converts a
  line is a fold over its quotes, with the invariant `ConvOK`: the tag that is marked as closed
  when the line ends was seen, as the last opening tag of its name. Balancing keeps this, as it
  replaces a bold quote by an apostrophe and an italic quote.
- `ListInv`: after each token the tags that a consumer has open (`open`, read from what was sent by
  `Consume`) are `Opens(handler, n)`: tables outside of lists, then frame by frame the end tags a
  frame has to give and the table that hides it, then those of the frame in use and the tables in
  it. That an answer leaves this so is a fact about every way of `doListItem` to go on from one
  prefix of bullets to another (`GivesTags`: what is open before and after it). At the end of the
  page all frames give their tags, and what remains are the tables outside.
- `PatcherInv`: on a page the tables counted are those a consumer has open, and a converted cell
  is remembered outside of tables only.

Of `Nests` the invariants give the parts about lists (`List!WellNested`) and about tables
(`Patcher!PartsInTables`).

`SequenceFolds` has what these need about folds: that the fold of the library
computes its value step by step (`FoldSteps`, `FoldAppend`), over two sequences in turn
(`FoldConcat`), and that what holds of the empty
sequence and of one element more holds of all (`SeqByAppend`). The library's induction theorems take an
operator as a parameter, which the provers cannot instantiate; the module proves induction
over the length of a sequence for a constant operator instead, from the least
counterexample, and is instantiated with the operator at hand.

Only model-checked: liveness (`EveryRequestAnswered`, `EverythingSettles`,
`EverythingEnds`, `Ends`), which needs fairness and ENABLED; `AsyncTTM`, which expands a
tree recursively; the passes of the document and the serializer, whose trees, walks and
reader are recursive; `WrapSections`; and of `TokenHandlers` the type invariant, `KeepsOrder`,
`Contribution` and the other parts of `Nests`, which compare what was sent with a selection from what
came, or read it with a second machine.

## Bounds and fairness

- `batcher`: five requests, four items, two of the requests for the same item; two
  items per batch, two batches in flight, two results. Enough for a full batch, a
  partial one, a queue behind two full slots (a timer seals batches of one), a request
  that joins an item in each of the places, and one that finds it cached.
- `accumulators`: one accumulator with two tokens, two ranks, three tokens per producer,
  chunks cut at any place: each test of ranks and emptiness sees each of its outcomes.
  A manager with two chunks, up to three tokens besides the end, a vocabulary of seven
  kinds of tokens: text, synchronous with an asynchronous token inside, one and
  several late results, finished tokens, a start before the rest. The results
  of a transform, synchronous or late, may have asynchronous tokens in turn.
- `service`: two HTTP requests of any route, five headers, documents of three versions,
  so that one may end the process the other is served by; four callers of two templates,
  one of whose listeners throws, and one retry; two log backends, messages that make them
  log fatal and other messages, and two that make one throw.
- `expansion`: four pieces of content with two chunks each and a cache of one pipeline
  per key, so that a pipeline is given to a second piece while the first is not done with
  it; two templates with text of two chunks, frames of depth two, three parameters; tags
  with two attributes of which one or two are expanded, to plain text or up to two
  transclusions with text, newlines, equals signs and fragments.
- `token_handlers`: the page is unbounded, what a handler holds is not. Lists: five
  kinds of bullets that go up, down and across a `dt`/`dd`; two tables, one block and
  one inline tag open, two tokens held; no lists where the handler miscounts tables
  (`Miscounts`), which is what `list_handler_nested` is about. Quotes: four on a line, each of three
  lengths, with every kind of text or none before it: every state of the machine
  meets every length, and the search for a bold quote to convert sees every context.
  Indented lines: six tokens held, so two lines of a block with something transparent
  between them and a tag that ends the second. Paragraphs: three tokens on a line,
  five held, up to five newlines in a row, so both outcomes of their alternation.
  Tables: two open at once, with two cells whose marker is to come, and three tokens
  held before a category. Include tags: five tokens, all tags of the three names, at
  most one tag of a name unclosed at the end of a page (`MaxUnclosed`; with two,
  `include_handlers_nested` shows the fault), any number of pages.
- `post_processing`, passes: every page of two lines of the 35 kinds, and of three of
  blocks, four of lists, and a table with three lines where it has no cell, closed or
  not: 5,033 pages. A `<small>` is left open on the last line only, since the tree builder
  here does not open it again in what follows. Two transclusions that overlap each other or a table, with what is fostered
  between, fit in three lines. Sections: every page of five nodes, three levels of
  headings, elements in the body but not in each other, two templates that begin and end
  anywhere. Five nodes are two sections in one another and a third that ends both, with a
  template across any two of them and a node after it.
- `serializer`: ten pages with every kind of block and most pairs of them as neighbours,
  and for each of them every deletion of a node, with or without the newline after it,
  every insertion of some block or item at any place, every change of a text, every move
  and wrapping of a block, and for the page with quotes every insertion of a quote and
  every text that has apostrophes; for the page with links, every insertion of six
  links, a letter or a bracket among them, every deletion of a text beside or in them, and
  two other texts of each: 2,402 requests, 45,955 states. Among them is each page written anew.

Fairness is stated where a liveness property is checked. In `Batcher`: the event
loop runs timers that are due, and every batch is answered or its response timer
fires. The latter is the code's own doing (`Batcher.js:142`). Nothing is assumed of
the requests. In `Service`: scheduled turns run, a request of the API is answered or
fails by its timeout, the second timer of a timeout that has fired fires too, a worker ends or is ended by its timeout, and a log backend that
did not throw settles; clients need not ask for anything, or wait. In `Expansion`: the
event loop takes up what is due. In `WikitextSerializer`: a step is taken while there is
one (`Fairness`), one thread's only duty.

Runs that say `CHECK_DEADLOCK FALSE` are of systems that stop: a document is done, a
process has exited, or nobody asks for more.

## Limits

Not modelled, and why:

- the tokenizer is a grammar (`pegTokenizer.pegjs`): what it computes is input here;
- domino, the HTML parser, the request library and the transducers of language
  conversion are libraries; of domino there is what the tags of the pages need, and
  neither the reconstruction of formatting elements nor the adoption agency;
- what is said about one string or one node: the parts of a link target, images, sanitizing,
  parser functions, heading ids, indented lines of the document (`handlePres`), the
  formatting of logs. It is tested by the parser tests;
- of escaping, all but bullets and spaces at the start of a line, quotes, and what
  follows the bar of a cell: the other texts are given to the tokenizer (`hasWikitextTokens`);
- images, categories, interwiki and language links, link prefixes, titles that are not
  valid, and what is in a link other than text;
- extensions (`lib/ext`), configuration, the PHP port, the tools and the test drivers.

Abstractions in what is modelled: items are known by their hash; a token is what the
handler tells apart; in the passes of the document there are no links, quotes, entities,
comments of users, attributes and DOM fragments, so that the corrections of source ranges
for them are left out, as are flags of tags the tokenizer closed itself; in the serializer
attributes are equal or not, and templates are one kind of block; of the normaliser
bidirectional characters are left out; a link keeps its target; tracing, and the caches of sorted
transforms, are left out.

## Plan

In the order of how much of the program's behaviour depends on them:

1. Done: the batcher, the accumulators and the asynchronous manager, the logger, API
   requests, the synchronous manager with the include handlers, the handlers of the
   last token stage, section wrapping; pipelines, templates and attributes; the service;
   the tree builder and the passes of the document; the serializer with the comparison
   and the normalisation of pages.
2. Done: proofs about the batcher, one accumulator, the service, every invariant of
   `Expansion`, and `NoFailedAssertion` and `EndLeavesNothing` of `TokenHandlers`. Next: the
   types and the rest of `Nests`, and `WrapSections`. These modules have no recursive operators.
3. The other links: media with their options and captions, categories and interwiki
   links in the serializer; link neighbours and formatting elements in the passes of the
   document.
4. Reference numbering (`ext/Cite`), whose groups are counted across fragments that
   are processed in another order than they stand in.
