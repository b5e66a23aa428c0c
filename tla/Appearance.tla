----------------------------- MODULE Appearance -----------------------------
(***************************************************************************)
(* How the window is dressed: AppearanceProvider's preferences and the     *)
(* theme id of next-themes (appearance-provider.tsx, lib/appearance.ts),   *)
(* the wallpaper's colours (lib/monet.ts), the theme picker and editor     *)
(* (theme-picker.tsx, theme-editor.tsx, color-picker.tsx) and the fonts,   *)
(* accent and layout (appearance-options.tsx).  A colour is its lightness  *)
(* in thousandths; hues, names and sizes of the page are left out.         *)
(***************************************************************************)
EXTENDS Integers, Sequences, FiniteSets, SequencesExt

CONSTANTS
    Touches,    \* the scenarios: the bounds "touches" may start with
    Wardrobes,  \* what prefs, themeId and folder may start with
    OwnIds,     \* ids newCustomTheme may draw
    PluginSets, \* what the enabled plugins may bring: [themes, fonts]
    FontFiles,  \* fonts Go may be given
    Presets,    \* preset id -> [mode, l]
    Bundled,    \* bundled font id -> the scripts it covers
    DefaultOf   \* DEFAULT_FONT: script -> font

VARIABLES
    prefs,      \* AppearancePrefs, which localStorage follows
    themeId,    \* next-themes' id, which it keeps itself
    osMode,     \* the system's own mode
    page,       \* what is written on <html>: knobs, brand, backdrop
    options,    \* userFontOptions and pluginFontOptions
    script,     \* of the language
    folder,     \* Go's: the fonts it stores
    listing,    \* list_user_files: whether it is under way, and the answer
    adding,     \* FontPicker's import_user_file: <<>>, <<"asked">> or <<font>>
    removals,   \* remove_user_file calls under way
    wallpaper,  \* Go's palette, 0 for none
    monet,      \* the window's, as localStorage keeps it
    loading,    \* get_system_palette of the effect that is mounted: <<>>,
                \* <<Awaited>> or <<palette>>
    visible,    \* document.visibilityState
    sketching,     \* ThemePicker's editing: [id, isNew], or NoEdited
    sketch,     \* ThemeEditor's draft, or NoTheme
    hex,        \* the colour typed and not committed, -1 for none
    picking,    \* pickImage under way: <<>>, or the draft it was called with
    forgot,     \* whether a restart has lost a theme of the user's
    strayed,    \* whether a picture arrived after its editor had closed
    touches     \* what is left of the bounds

wearVars == <<prefs, themeId, osMode, page, loading>>
fontVars == <<options, script, folder, listing, adding, removals>>
paletteVars == <<wallpaper, monet, visible>>
sketchVars == <<sketching, sketch, hex, picking, strayed>>
lookVars == <<wearVars, fontVars, paletteVars, sketchVars, forgot, touches>>

Touch(what) == touches[what] > 0 /\ touches' = [touches EXCEPT ![what] = @ - 1]

-----------------------------------------------------------------------------
(* Themes *)

NoTheme == [id |-> "", mode |-> "dark", l |-> 0, image |-> "", tone |-> 0]
Awaited == -1
NoEdited == [id |-> "", isNew |-> FALSE]

BACKGROUND_LIGHTNESS == [dark |-> [min |-> 0, max |-> 300], light |-> [min |-> 900, max |-> 1000]]
Clamp(l, mode) ==
    LET range == BACKGROUND_LIGHTNESS[mode]
    IN  IF l < range.min THEN range.min ELSE IF l > range.max THEN range.max ELSE l

CUSTOM_THEME_IDS == [dark |-> "custom-dark", light |-> "custom-light"]
IsCustomThemeId(theme) == \E mode \in DOMAIN CUSTOM_THEME_IDS : theme = CUSTOM_THEME_IDS[mode]

Themes(p) == p.customThemes @@ p.pluginThemes

(* The theme id decides the class, the record decides the colours. *)
ActiveCustomTheme(p, theme) ==
    IF IsCustomThemeId(theme) /\ p.activeCustom \in DOMAIN Themes(p) THEN Themes(p)[p.activeCustom] ELSE NoTheme

(* The class on <html>: a preset's, a custom theme's, or the system's mode. *)
ClassOf(theme, os) ==
    IF theme \in DOMAIN Presets THEN Presets[theme].mode
    ELSE IF theme = "system" THEN os
    ELSE CHOOSE mode \in DOMAIN CUSTOM_THEME_IDS : theme = CUSTOM_THEME_IDS[mode]

ResolvedTheme(theme, os) == IF theme = "system" THEN os ELSE theme

(* The palette turned into a theme, in the page's mode. *)
MonetForMode(palette, mode) ==
    IF palette = 0 THEN NoTheme
    ELSE [id |-> "custom-monet", mode |-> mode, l |-> IF mode = "dark" THEN 160 ELSE 975, image |-> "", tone |-> palette]

(* The knobs of the last theme are cleared, and its picture, before those of
   this one are set. *)
ApplyCustomTheme(pg, theme) == [pg EXCEPT !.knobs = theme, !.brand = theme.id, !.backdrop = theme.image]
ApplyAccent(pg, accent) == IF accent = "" THEN pg ELSE [pg EXCEPT !.brand = accent]

Worn(p, theme, os, palette) ==
    LET custom == ActiveCustomTheme(p, theme)
    IN  IF custom # NoTheme THEN custom
        ELSE IF theme = "system" THEN MonetForMode(palette, os) ELSE NoTheme

(* The layout effect: the theme, then the accent over it. *)
Dressed(pg, p, theme, os, palette) ==
    ApplyAccent(ApplyCustomTheme(pg, Worn(p, theme, os, palette)), p.accent)

(* What the layout effect watches. *)
Watched(p, theme, os, palette) ==
    <<ActiveCustomTheme(p, theme), theme, ResolvedTheme(theme, os), palette, p.accent>>

(* load(): one call of the effect at a time, none while hidden. *)
LoadPalette == IF visible' /\ loading = <<>> THEN <<Awaited>> ELSE loading

(* A render with new preferences, theme and system mode.  The effect that
   loads the palette starts over with the theme: what the earlier one is still
   waiting for is dropped (disposed). *)
Render(p, theme, os) ==
    /\ prefs' = p /\ themeId' = theme /\ osMode' = os
    /\ page' = IF Watched(p, theme, os, monet) = Watched(prefs, themeId, osMode, monet) THEN page
               ELSE Dressed(page, p, theme, os, monet)
    /\ loading' = IF <<theme, ResolvedTheme(theme, os)>> = <<themeId, ResolvedTheme(themeId, osMode)>> THEN loading
                  ELSE IF visible THEN <<Awaited>> ELSE <<>>

Wear(p, theme) == Render(p, theme, osMode)

-----------------------------------------------------------------------------
(* The theme picker *)

EditorOpen == sketch # NoTheme

SetTheme(theme) ==
    /\ ~EditorOpen /\ theme # themeId /\ Touch("theme")
    /\ Wear(prefs, theme) /\ UNCHANGED <<fontVars, paletteVars, sketchVars, forgot>>

ShowCustomTheme(id) ==
    /\ ~EditorOpen /\ id \in DOMAIN Themes(prefs) /\ Touch("theme")
    /\ Wear([prefs EXCEPT !.activeCustom = id], CUSTOM_THEME_IDS[Themes(prefs)[id].mode])
    /\ UNCHANGED <<fontVars, paletteVars, sketchVars, forgot>>

OpenEditor(theme, isNew) ==
    /\ ~EditorOpen /\ Touch("edit")
    /\ sketching' = [id |-> theme.id, isNew |-> isNew] /\ sketch' = theme
    /\ UNCHANGED <<wearVars, fontVars, paletteVars, hex, picking, strayed, forgot>>

NewCustomTheme(id) ==
    LET mode == ClassOf(themeId, osMode)
    IN  [id |-> id, mode |-> mode, l |-> IF mode = "dark" THEN 150 ELSE 980, image |-> "", tone |-> 0]

EditTheme == \E id \in DOMAIN prefs.customThemes : OpenEditor(prefs.customThemes[id], FALSE)
CreateTheme == \E id \in OwnIds \ DOMAIN prefs.customThemes : OpenEditor(NewCustomTheme(id), TRUE)

(* setEditing(null): the effect that empties the editor runs when the theme
   it is given changes, and null is no change from null. *)
StopEditing ==
    /\ sketching' = NoEdited /\ sketch' = IF sketching = NoEdited THEN sketch ELSE NoTheme
    /\ UNCHANGED <<hex, picking, strayed>>

CloseEditor ==
    /\ EditorOpen /\ hex = -1 /\ StopEditing
    /\ UNCHANGED <<wearVars, fontVars, paletteVars, forgot, touches>>

(* saveCustomTheme: added, or put in the place of the one with its id; the
   one on screen may have changed its mode. *)
SaveCustomTheme(theme) ==
    Wear([prefs EXCEPT !.customThemes = (theme.id :> theme) @@ @],
         IF ActiveCustomTheme(prefs, themeId).id = theme.id THEN CUSTOM_THEME_IDS[theme.mode] ELSE themeId)

(* A theme saved for the first time is shown. *)
SaveEdited ==
    /\ EditorOpen /\ hex = -1 /\ Touch("save")
    /\ IF sketching.isNew
       THEN Wear([prefs EXCEPT !.customThemes = (sketch.id :> sketch) @@ @, !.activeCustom = sketch.id],
                 CUSTOM_THEME_IDS[sketch.mode])
       ELSE SaveCustomTheme(sketch)
    /\ StopEditing /\ UNCHANGED <<fontVars, paletteVars, forgot>>

DeleteCustomTheme(id) ==
    Wear([prefs EXCEPT !.customThemes = [i \in DOMAIN @ \ {id} |-> @[i]],
                       !.activeCustom = IF @ = id THEN "" ELSE @],
         IF ActiveCustomTheme(prefs, themeId).id = id THEN "system" ELSE themeId)

DeleteEdited ==
    /\ EditorOpen /\ ~sketching.isNew /\ hex = -1 /\ Touch("save")
    /\ DeleteCustomTheme(sketch.id)
    /\ StopEditing /\ UNCHANGED <<fontVars, paletteVars, forgot>>

-----------------------------------------------------------------------------
(* The theme editor.  Every change is made to the draft of the render it was
   made in. *)

Redraw(theme) ==
    /\ EditorOpen /\ hex = -1 /\ theme # sketch /\ Touch("draw") /\ sketch' = theme
    /\ UNCHANGED <<wearVars, fontVars, paletteVars, sketching, hex, picking, strayed, forgot>>

(* Mirrored into the other mode's range. *)
SwitchMode ==
    LET to == IF sketch.mode = "dark" THEN "light" ELSE "dark"
        a == BACKGROUND_LIGHTNESS[sketch.mode]
        b == BACKGROUND_LIGHTNESS[to]
    IN  Redraw([sketch EXCEPT !.mode = to, !.l = b.max - ((@ - a.min) * (b.max - b.min)) \div (a.max - a.min)])

TemplateFrom(preset) ==
    [mode |-> Presets[preset].mode, l |-> Clamp(Presets[preset].l, Presets[preset].mode), image |-> ""]

(* Another theme's looks under this one's id. *)
StartFrom ==
    \/ \E preset \in DOMAIN Presets : Redraw(TemplateFrom(preset) @@ sketch)
    \/ \E id \in DOMAIN Themes(prefs) \ {sketch.id} : Redraw([Themes(prefs)[id] EXCEPT !.id = sketch.id])

RemoveImage == Redraw([sketch EXCEPT !.image = ""])

(* The hex box: typed, then committed when it loses the focus, pulled into
   the range of the mode, or undone with Escape. *)
TypeHex(l) ==
    /\ EditorOpen /\ hex = -1 /\ Touch("draw") /\ hex' = l
    /\ UNCHANGED <<wearVars, fontVars, paletteVars, sketching, sketch, picking, strayed, forgot>>
HexDone ==
    /\ EditorOpen /\ hex # -1 /\ hex' = -1
    /\ sketch' \in {sketch, [sketch EXCEPT !.l = Clamp(hex, sketch.mode)]}
    /\ UNCHANGED <<wearVars, fontVars, paletteVars, sketching, picking, strayed, forgot, touches>>

PickImage ==
    /\ EditorOpen /\ hex = -1 /\ picking = <<>> /\ Touch("image") /\ picking' = <<sketch>>
    /\ UNCHANGED <<wearVars, fontVars, paletteVars, sketching, sketch, hex, strayed, forgot>>

(* import_user_file answers: with a picture, which is set on the draft that
   pickImage was called with, whatever the editor shows by now; or without. *)
ImagePicked ==
    /\ picking # <<>> /\ picking' = <<>>
    /\ \/ sketch' = [picking[1] EXCEPT !.image = "picture"] /\ strayed' = (strayed \/ sketching.id # picking[1].id)
       \/ UNCHANGED <<sketch, strayed>>
    /\ UNCHANGED <<wearVars, fontVars, paletteVars, sketching, hex, forgot, touches>>

-----------------------------------------------------------------------------
(* Fonts *)

AllFonts == DOMAIN Bundled \cup options.user \cup options.plugin
IsUserFont(font) == font \notin DOMAIN Bundled
Covers(font, s) == IsUserFont(font) \/ s \in Bundled[font]
FontsFor(s) == {font \in AllFonts : Covers(font, s)}
EffectiveFont(chosen, s) == IF chosen \in FontsFor(s) THEN chosen ELSE DefaultOf[s]
NoListing == [at |-> "no", fonts |-> {}]
ListAsked == [at |-> "asked", fonts |-> {}]
DefaultFont == DefaultOf["latin"]

SetFont(font) ==
    /\ ~EditorOpen /\ font \in FontsFor(script) \ {prefs.font} /\ Touch("font")
    /\ Wear([prefs EXCEPT !.font = font], themeId)
    /\ UNCHANGED <<fontVars, paletteVars, sketchVars, forgot>>

SetLanguage(s) ==
    /\ ~EditorOpen /\ s # script /\ Touch("font") /\ script' = s
    /\ UNCHANGED <<wearVars, options, folder, listing, adding, removals, paletteVars, sketchVars, forgot>>

AddFont ==
    /\ ~EditorOpen /\ adding = <<>> /\ Touch("font") /\ adding' = <<"asked">>
    /\ UNCHANGED <<wearVars, options, script, folder, listing, removals, paletteVars, sketchVars, forgot>>

(* Go stores the file; or the dialog was cancelled, or it is no font. *)
GoImports ==
    /\ adding = <<"asked">>
    /\ \/ \E font \in FontFiles : folder' = folder \cup {font} /\ adding' = <<font>>
       \/ adding' = <<>> /\ UNCHANGED folder
    /\ UNCHANGED <<wearVars, options, script, listing, removals, paletteVars, sketchVars, forgot, touches>>

AddUserFont ==
    /\ adding \notin {<<>>, <<"asked">>} /\ adding' = <<>>
    /\ Wear([prefs EXCEPT !.userFonts = @ \cup {adding[1]}, !.font = adding[1]], themeId)
    /\ options' = [options EXCEPT !.user = prefs'.userFonts]
    /\ UNCHANGED <<script, folder, listing, removals, paletteVars, sketchVars, forgot, touches>>

(* The button is on the plugins' fonts too, which Go then does not find. *)
RemoveUserFont(font) ==
    /\ ~EditorOpen /\ font \in options.user \cup options.plugin /\ Touch("font")
    /\ removals' = removals \cup {font}
    /\ Wear([prefs EXCEPT !.userFonts = @ \ {font}, !.font = IF @ = font THEN DefaultFont ELSE @], themeId)
    /\ options' = [options EXCEPT !.user = prefs'.userFonts]
    /\ UNCHANGED <<script, folder, listing, adding, paletteVars, sketchVars, forgot>>

(* Go removes the file, or fails to and nobody hears of it. *)
GoRemoves(font) ==
    /\ font \in removals /\ removals' = removals \ {font}
    /\ folder' \in {folder, folder \ {font}}
    /\ UNCHANGED <<wearVars, options, script, listing, adding, paletteVars, sketchVars, forgot, touches>>

GoLists ==
    /\ listing.at = "asked" /\ listing' \in {NoListing, [at |-> "told", fonts |-> folder]}
    /\ UNCHANGED <<wearVars, options, script, folder, adding, removals, paletteVars, sketchVars, forgot, touches>>

(* The folder is the truth about user fonts.  A plugin's font has the same
   prefix and is never in it. *)
FontsListed ==
    /\ listing.at = "told" /\ listing' = NoListing
    /\ options' = [options EXCEPT !.user = listing.fonts]
    /\ Wear([prefs EXCEPT !.userFonts = listing.fonts,
                          !.font = IF IsUserFont(@) /\ @ \notin listing.fonts THEN DefaultFont ELSE @], themeId)
    /\ UNCHANGED <<script, folder, adding, removals, paletteVars, sketchVars, forgot, touches>>

-----------------------------------------------------------------------------
(* Accent, layout, plugins, the wallpaper and a restart *)

SetAccent(accent) ==
    /\ ~EditorOpen /\ accent # prefs.accent /\ Touch("accent")
    /\ Wear([prefs EXCEPT !.accent = accent], themeId)
    /\ UNCHANGED <<fontVars, paletteVars, sketchVars, forgot>>

DEFAULT_ORDER == <<"download", "upload", "latency">>

(* handleMoveMetric, and Reset. *)
MoveMetric(i, j) ==
    /\ ~EditorOpen /\ Touch("layout") /\ {i, j} \subseteq DOMAIN prefs.order /\ j \in {i - 1, i + 1}
    /\ Wear([prefs EXCEPT !.order[i] = prefs.order[j], !.order[j] = prefs.order[i]], themeId)
    /\ UNCHANGED <<fontVars, paletteVars, sketchVars, forgot>>
ToggleMetric(metric) ==
    /\ ~EditorOpen /\ Touch("layout")
    /\ Wear([prefs EXCEPT !.metrics = IF metric \in @ THEN @ \ {metric} ELSE @ \cup {metric}], themeId)
    /\ UNCHANGED <<fontVars, paletteVars, sketchVars, forgot>>
ResetLayout ==
    /\ ~EditorOpen /\ Touch("layout")
    /\ Wear([prefs EXCEPT !.order = DEFAULT_ORDER, !.metrics = ToSet(DEFAULT_ORDER)], themeId)
    /\ UNCHANGED <<fontVars, paletteVars, sketchVars, forgot>>

(* setPluginContent: the theme or font in use may have gone with its plugin. *)
SetPluginContent(themes, fonts) ==
    LET gone(id) == id # "" /\ id \notin OwnIds \cup DOMAIN themes
    IN  Wear([prefs EXCEPT !.pluginThemes = themes, !.pluginFonts = fonts,
                           !.font = IF IsUserFont(@) /\ @ \notin FontFiles \cup fonts THEN DefaultFont ELSE @,
                           !.activeCustom = IF gone(@) THEN "" ELSE @],
             IF gone(ActiveCustomTheme(prefs, themeId).id) THEN "system" ELSE themeId)

PluginsListed(content) ==
    /\ Touch("plugin") /\ options' = [options EXCEPT !.plugin = content.fonts]
    /\ SetPluginContent(content.themes, content.fonts)
    /\ UNCHANGED <<script, folder, listing, adding, removals, paletteVars, sketchVars, forgot>>

(* The world outside: the system's mode, the wallpaper, the window hidden,
   shown or focused again. *)
SystemMode ==
    /\ Touch("system") /\ Render(prefs, themeId, IF osMode = "dark" THEN "light" ELSE "dark")
    /\ UNCHANGED <<fontVars, paletteVars, sketchVars, forgot>>
Wallpaper ==
    /\ Touch("system") /\ wallpaper' \in (0..2) \ {wallpaper}
    /\ UNCHANGED <<wearVars, fontVars, monet, visible, sketchVars, forgot>>
HideOrShow ==
    /\ Touch("system") /\ visible' \in BOOLEAN /\ loading' = LoadPalette
    /\ UNCHANGED <<prefs, themeId, osMode, page, fontVars, wallpaper, monet, sketchVars, forgot>>

(* The 30 s timer of the system theme. *)
TimerLoads ==
    /\ themeId = "system" /\ UNCHANGED visible /\ loading' = LoadPalette
    /\ UNCHANGED <<prefs, themeId, osMode, page, fontVars, wallpaper, monet, sketchVars, forgot, touches>>

GoReadsPalette ==
    /\ loading = <<Awaited>>
    /\ \/ loading' = <<wallpaper>> /\ UNCHANGED touches
       \/ loading' = <<>> /\ Touch("fail")
    /\ UNCHANGED <<prefs, themeId, osMode, page, fontVars, paletteVars, sketchVars, forgot>>

PaletteHeard ==
    /\ loading \notin {<<>>, <<Awaited>>} /\ loading' = <<>>
    /\ monet' = loading[1]
    /\ page' = IF monet' = monet THEN page ELSE Dressed(page, prefs, themeId, osMode, monet')
    /\ UNCHANGED <<prefs, themeId, osMode, fontVars, wallpaper, visible, sketchVars, forgot, touches>>

(* sanitizeTheme, over a list: a theme whose id has another prefix is dropped. *)
Sanitized(themes, prefix) ==
    LET of(id) == IF id \in OwnIds THEN "custom-" ELSE "plugin:"
    IN  [id \in {i \in DOMAIN themes : of(i) = prefix} |-> [themes[id] EXCEPT !.l = Clamp(@, themes[id].mode)]]

(* loadAppearance.  The user's themes go through map(sanitizeTheme), which
   hands it the place in the list as the prefix: no id starts with that. *)
LoadAppearance(raw) ==
    LET custom == Sanitized(raw.customThemes, "0")
        plugin == Sanitized(raw.pluginThemes, "plugin:")
    IN  [raw EXCEPT !.customThemes = custom, !.pluginThemes = plugin,
                    !.font = IF @ \in DOMAIN Bundled \cup raw.userFonts \cup raw.pluginFonts THEN @ ELSE DefaultFont,
                    !.activeCustom = IF @ \in DOMAIN custom \cup DOMAIN plugin THEN @ ELSE ""]

BlankPage == [knobs |-> NoTheme, brand |-> "", backdrop |-> ""]

(* The window starts over: bootAppearance, then the provider mounts. *)
Restart ==
    /\ Touch("restart")
    /\ prefs' = LoadAppearance(prefs) /\ forgot' = (forgot \/ DOMAIN prefs.customThemes # {})
    /\ options' = [user |-> prefs.userFonts, plugin |-> prefs.pluginFonts]
    /\ page' = Dressed(BlankPage, prefs', themeId, osMode, monet)
    /\ listing' = ListAsked /\ loading' = <<Awaited>> /\ adding' = <<>> /\ visible' = TRUE
    /\ sketching' = NoEdited /\ sketch' = NoTheme /\ hex' = -1 /\ picking' = <<>>
    /\ UNCHANGED <<themeId, osMode, script, folder, removals, wallpaper, monet, strayed>>

-----------------------------------------------------------------------------

(* Some time after the start: the list of fonts and the palette are in. *)
LookInit ==
    /\ touches \in Touches
    /\ \E w \in Wardrobes : prefs = w.prefs /\ themeId = w.themeId /\ folder = w.prefs.userFonts
    /\ osMode = "dark" /\ wallpaper = 0 /\ monet = 0 /\ visible = TRUE
    /\ page = Dressed(BlankPage, prefs, themeId, osMode, monet)
    /\ options = [user |-> prefs.userFonts, plugin |-> prefs.pluginFonts] /\ script = "latin"
    /\ listing = NoListing /\ loading = <<>> /\ adding = <<>> /\ removals = {}
    /\ sketching = NoEdited /\ sketch = NoTheme /\ hex = -1 /\ picking = <<>>
    /\ forgot = FALSE /\ strayed = FALSE

PickerSteps ==
    \/ \E theme \in DOMAIN Presets \cup {"system"} : SetTheme(theme)
    \/ \E id \in DOMAIN Themes(prefs) : ShowCustomTheme(id)
    \/ EditTheme \/ CreateTheme \/ CloseEditor \/ SaveEdited \/ DeleteEdited
EditorSteps ==
    \/ SwitchMode \/ StartFrom \/ RemoveImage \/ PickImage \/ ImagePicked
    \/ \E l \in {60, 990} : TypeHex(l)
    \/ HexDone
FontSteps ==
    \/ \E font \in AllFonts : SetFont(font) \/ RemoveUserFont(font)
    \/ \E s \in DOMAIN DefaultOf : SetLanguage(s)
    \/ \E font \in removals : GoRemoves(font)
    \/ AddFont \/ GoImports \/ AddUserFont \/ GoLists \/ FontsListed
OtherSteps ==
    \/ \E accent \in {"", "red"} : SetAccent(accent)
    \/ \E i, j \in 1..3 : MoveMetric(i, j)
    \/ \E metric \in ToSet(DEFAULT_ORDER) : ToggleMetric(metric)
    \/ ResetLayout
    \/ \E content \in PluginSets : PluginsListed(content)
    \/ SystemMode \/ Wallpaper \/ HideOrShow \/ TimerLoads \/ GoReadsPalette \/ PaletteHeard \/ Restart

LookNext == PickerSteps \/ EditorSteps \/ FontSteps \/ OtherSteps

-----------------------------------------------------------------------------
(* What is written on the page is what is chosen, whichever of theme, editor,
   plugin, wallpaper and accent changed last: nothing of an earlier theme
   stays, the accent is over the theme's own, and the class goes with the
   mode of a theme of the user's. *)
DressedAsChosen ==
    LET worn == Worn(prefs, themeId, osMode, monet)
        custom == ActiveCustomTheme(prefs, themeId)
    IN  /\ page.knobs = worn /\ page.backdrop = worn.image
        /\ page.brand = IF prefs.accent = "" THEN worn.id ELSE prefs.accent
        /\ custom.id \in OwnIds => themeId = CUSTOM_THEME_IDS[custom.mode]

(* A custom theme's class is never left without its colours, also when the
   theme is deleted or its plugin goes, but for a restart that lost it. *)
ColoursThere == IsCustomThemeId(themeId) /\ ~forgot => ActiveCustomTheme(prefs, themeId) # NoTheme

(* No edit leaves a theme lighter or darker than its mode allows, which is
   what keeps its text readable. *)
Readable ==
    \A theme \in {Themes(prefs)[id] : id \in DOMAIN Themes(prefs)} \cup ({sketch} \ {NoTheme}) :
        theme.l = Clamp(theme.l, theme.mode)

(* The chosen font is one on offer, and the one in use has the letters. *)
FontThere == prefs.font \in AllFonts /\ Covers(EffectiveFont(prefs.font, script), script)

(* The editor shows the theme it was opened for and closes when asked, unless
   a picture picked in an earlier one has arrived. *)
EditorTrue == strayed \/ sketch.id = sketching.id

(* Moving never loses a measurement of the screen. *)
MetricsWhole == ToSet(prefs.order) = ToSet(DEFAULT_ORDER) /\ Len(prefs.order) = Len(DEFAULT_ORDER)

LookHolds == DressedAsChosen /\ ColoursThere /\ Readable /\ FontThere /\ EditorTrue /\ MetricsWhole

(* The wallpaper's colours are not the ones on screen. *)
PaletteWaits == themeId = "system" /\ visible /\ monet # wallpaper

=============================================================================
