\* Completions of up to four tokens out of eight, with four tokens of the prompt
\* kept: as many as the bytes of the longest character and one more.
SPECIFICATION Spec
CONSTANTS
    Vocabulary <- MCVocabulary
    Prompts <- MCPrompts
    PromptContext = 4
    MaxNewTokens = 4
INVARIANTS
    StreamIsCompletion
CHECK_DEADLOCK FALSE
