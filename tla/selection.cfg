SPECIFICATION Spec
CONSTANTS
    watcher = watcher
    reader = reader
    d1 = d1
    d2 = d2
    app = app
    text = text
    other = other
    image = image
    Callers = {watcher, reader}
    Daemons = {d1, d2}
    Apps = {app}
    Data = {text, image, other}
    Formats = {"text", "image"}
    Format <- MCFormat
    None = None
INVARIANTS TypeOK WrittenIsServed
PROPERTIES CallsReturn DaemonsEnd
